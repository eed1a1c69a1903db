# Dudley in TLA+

Dudley watches a directory of files (a *repository*). A scan finds what was added,
changed, renamed or removed and makes a *diff* of it; a journal keeps the diffs on disk and
an index of the files in memory; a synchronizer exchanges diffs with a *tracker* on the web;
an HTTP server shows the files and takes uploads; a window keeps the list of repositories
and its settings. This directory has TLA+ models of these parts, the TLC runs that check
them on small instances, and the theorems that TLAPS proves about them: the journal,
the scan, the synchronizer and its peers, the connection, the pages, and the window.

1. [The system](#the-system)
2. [Modules](#modules)
3. [How the modules correspond to the code](#how-the-modules-correspond-to-the-code)
4. [Runs](#runs)
5. [Fairness](#fairness)
6. [Theorems](#theorems)
7. [Where code and documentation disagree](#where-code-and-documentation-disagree)
8. [What is not modelled](#what-is-not-modelled)
9. [Plan](#plan)

`PROJECT.json` names, for every definition that models code, the lines it stands for, and
lists the hazards: the places of the code that are hard to test, each with the properties
that watch it or the reason why none does.

## The system

The program is one process with a GUI, the Qt event loop, and a second thread that talks to
the router once. A handler of the event loop runs to its end before the next starts; only a scan
and a message box let other handlers in. What else is concurrent is outside: other
programs that edit the files while they are read, a disk that keeps half of what was
written when the process dies, a tracker and a network that answer late or never, a router, and peers
that send requests in pieces or follow links of pages that are old.

| part | state | operations | what makes it correct |
| --- | --- | --- | --- |
| **State** (`state.cpp`, `fileinfo.cpp`, `stateop.cpp`, `statediff.cpp`) | two hashes, by path and by sha1, of the same entries | `canPerformChanges`, `performChanges`, lookups | the hashes agree; a diff that is accepted can be performed |
| **StateLogger** (`statelogger.cpp`) | a file per diff, named by the time and a hash; a temporary file | `commitChanges`, `reload` | what a restart replays is what was in memory; what was acknowledged stays |
| **Repo, LocalDiskRepo** (`repo.cpp`, `localdiskrepo.cpp`) | none between scans | `detectChanges` | its diff is accepted, and when nothing changes the index becomes the disk |
| **Synchronizer** (`synchronizer.cpp`) | what to pull and push, counters of connections, the time of the last history | `start`, `stop`, `loop`, `requestFinished` | counters and limits hold; the client and the tracker end with the same diffs |
| **HttpMessage, HttpRequest** (`httpmessage.cpp`, `httprequest.cpp`) | a parser of lines, with parts and a CRLF held back | `parseLine` | each part gets its own content, whole |
| **HttpServer, HttpController** (`httpserver.cpp`, `httpcontroller.cpp`, `filetransfer.cpp`) | for each socket a list of controllers; the sockets that are in the middle of a request | `acceptConnection`, `processReadyRead`, actions, responses, `processDisconnected` | requests are not mixed up, responses keep their order, who waits is answered |
| **HttpView, routes** (`httpview.cpp`, `httpcontroller.cpp`, the views of `state.cpp`) | none | `routeRequest`, `filesInDir`, `subDirectories`, the pages | a link leads to what it names, and every file is on some page |
| **MainWindow, RepoModel** (`mainwindow.cpp`, `repomodel.cpp`) | the list of repositories, the settings file, the port | add, remove, read and write settings, listen | a restart has the same repositories and port |
| **UpnpWrapper** (`upnpwrapper.cpp`) | the router's urls, the port, the name the router answered | `run`, once for each start | what the window says of the port is so |
| **peers of the Synchronizer** (`synchronizer.cpp`) | the own url, the urls of the peers | `registerSelf`, `requestPeers` and the handlers of their replies | a client finds the others and not itself |
| **dialogs, item models** | labels and text | | |

How they interact. `detectChanges` reads the index of `State` and the disk and returns a
diff. `commitChanges` checks it against the index, saves it and performs it. The
synchronizer lists the names of the logs, reads them to push them, and keeps what it pulls
in a hash that nothing reads. The HTTP server looks files up in the index and serves
what is on the disk under that path now. The window adds and removes repositories while
connections are served, makes a url for each from the port of the server, and writes the settings from which the next
start reads them; the thread takes the port from the window and sends back a signal.

Callers. In the application as it stands, nothing calls `commitChanges`,
`Synchronizer::start`, `registerSelf` and `requestPeers`, and `refreshRepoButtonPressed` (mainwindow.cpp:116-123) is not connected
and throws the diff away. The unit tests call these operations, and the models take their callers
from them: a scan whose diff is committed; for the synchronizer a commit, `requestHistory`, and then `loop` called directly, of a synchronizer
that was never started, from which a push is expected (tst_synchronizertest.cpp:121-140). `loop` is a public slot, so the model has
callers of it besides the timer.

The hard behaviours are: a crash between any two steps of a commit; the order of a replay,
which is an order of names; edits between any two reads of a scan; pulls and pushes
that fail, come late or twice while the queues are rebuilt; a user who stops in between;
requests cut anywhere and pipelined, with responses that become ready at different times, files
that change while they are sent and repositories that go away; names that are taken apart by the settings, the routes and
the patterns of the pages; starts, kills and saves in any order, with directories that are away at some of them; a thread that
goes on after each failure; replies of the tracker that cross.

## Modules

| module | models | role |
| --- | --- | --- |
| `State` | the index, the operations, diffs | pure operators, used by `StateLogger`, `DetectChanges` |
| `Lists` | the loops that compare two lists | used by `DetectChanges`, `Synchronizer` |
| `DurableIndex` | what the journal promises | abstract specification |
| `StateLogger` | commit and reload step by step, crashes, full disk, names in any order | implements `DurableIndex` |
| `DetectChanges` | the scan, one read of the disk at a time, other programs, and the commit | composes the scan with `State` |
| `Exchange` | what the synchronizer promises | abstract specification |
| `Synchronizer` | the client, the network, the tracker, other clients | implements `Exchange` |
| `Peers` | several clients that register, the tracker, the network | |
| `HttpMessage` | the parser of requests and forms | pure operators, used by `HttpServer` |
| `HttpServer` | one connection and its peer, with the controllers, transfers and files | composes parser, server and controllers |
| `Browse` | the pages, the routes, and a visitor | composes the index, its views and the controller |
| `MainWindow` | the window, its list, the settings, the port, the thread and the router | composes these |
| `Recursion`, `StateLemmas` | | lemmas on induction, lists and the index |
| `StateLoggerProofs`, `DetectChangesProofs`, `SynchronizerProofs`, `PeersProofs`, `HttpServerProofs`, `MainWindowProofs` | | theorems |
| `MCStateLogger`, `MCDetectChanges`, `MCSynchronizer`, `MCHttpServer`, `MCMainWindow`, `MCBrowse`, `MCPeers` | | instances for TLC |

Some definitions are marked *faulty* in their comment. No specification uses them: they are the
plausible mistakes (a missing rename, a counter that is not given back, a swapped order)
that each property was tried against, to see that it can fail.

## How the modules correspond to the code

**State.** `Index` is a record of the two hashes: `files`, by path, and `prints`, by sha1, which
holds copies of entries. An entry is a path, a stamp (size and modification time) and a
sha1. `QHash::value` of an unknown key is the default entry (`ValueAt`), which is
why a rename of an unknown file adds one with an empty path; `performChanges` checks nothing
and the model does neither. `canPerformChanges` compares every operation to the index
*before* the diff, and so does `CanPerformChanges`.

**StateLogger.** `logs` are the files by rank of their name; a name is a time with a hash, and only
its order matters. The time is that of the construction of the diff (statediff.cpp:15), so a diff that is committed later may have the lower name, as it may when the
clock is set back, and one that is committed again has a name that is taken: `NamesOvertake` allows both. `tmp` is the temporary file. A commit is `OpenTmp` (which truncates), `WriteTmp`,
`RenameTmp`, `Perform`; `Crash` may come between any two of them. `RenameTmp` refuses a name that is taken, and the commit goes on. `Torn` is a file that is not
whole JSON. `LoseTmp` is a full disk: neither the write nor the rename is looked at, and the commit goes
on; `lost` remembers the names of the diffs that did not fit. `ReplayTo` is what `reload` computes: in order of the names, operations unchecked, unreadable
files skipped, the temporary file last (its name matches the pattern of the logs and sorts after the digits).
The directory is assumed to exist and `open` to succeed, else `commitChanges` says that nothing was saved.

**DetectChanges.** `pc` follows `detectChanges`: list the directories one by one, divide the paths into
known, unknown and missing, stat the known, hash the changed, read the unknown (`half`), turn missing
identical files into renames, remove the rest, commit. Between any two of these steps
another program may save, delete or move a file. Stat and contents of an unknown file are the arguments of one constructor call (localdiskrepo.cpp:138), which C++
evaluates in any order; `ReadOrders` has both. The contents are read in blocks with the event loop in between (localdiskrepo.cpp:160), so a
hash has a step that opens the file and one that ends it, and of a file that is written meanwhile it is that of the old contents, of the new, or of
blocks of both (`Mixture`). `quiet` remembers the scans without an edit, what was stale before them, and (`sure`) whether so far every file was
read stat first and every edit gave a file a time of its own. Iteration over a `QHash` is an arbitrary
order. `mtime` counts seconds, as `FileInfo` compares them. `Without` of `Lists` is the loop that copies what is not in
another list. `ScanAssumption` says what a file system grants: a path is in one directory, once, and there are finitely many.
`detectChanges` lets the event loop run while it scans (repo.cpp:76), but no handler changes the index then.

**Synchronizer.** A handler is a sequence of steps with `pc` set, and no other handler runs meanwhile; the
tracker and the network do. `history` is what `loop` can tell of `m_historyReceivedAt`:
never, fresh or older than ten minutes. The timer calls `loop` by `Tick`, everybody else by `CallLoop`. `loop` asks for a history whatever has been asked
for before; when `MaxHistories` are under way one more is as good as lost. A request in `net` is sent, then served or failed, then its
reply is handled. A diff's name has the second, the hash (both by its diff) and the milliseconds, which are lost
when it is read and written again (`PushedName`). `loop` issues
requests while a counter is below its maximum *plus one*, so that with a maximum of 0 one may be under way. The tracker is another program; from the requests it must
list what it has, file what is pushed, and ignore what it has (apinotes.txt:23). In `Exchange` there are three sets of names: `committed` is
`local`, `shared` is what the tracker has, `fetched` is `m_newStateDiffs`. A commit is `Commit`, a push that is served is `Share`, under the name
that `PushedName` gives it, a pull whose reply is handled is `Fetch`, a restart is `Forget`; everything else changes nothing.

**Peers.** `self` is `m_selfUrl`, `peers` is `m_peerUrlStrings`, a list as a set. A url is a model value; `Canon` is the form
in which the tracker files it and gives it back. A request carries the url it registers; its reply the url it was filed under, or all urls that
were registered when it was served. `known`, `listed` and `after` exist for the properties: which clients have been told that
they are registered, which of them were so when the list that a client has was asked for, and whether the list came after the client's own registration.

**HttpMessage.** A line has a kind (first line, header, the header that has the boundary or a file name,
empty, text, boundary, last boundary). The CRLF that may belong to the boundary after it
is held back as in the code, that of the empty line that ends the headers of a part included. A device receives the content line by line.

**HttpServer.** `ctl` holds every controller of the socket, `controllers` those still in
`m_controllers`, `open` whether the socket is in `m_openRequests`. `Arrive` is `readyRead`: more lines
are there, and a controller reads (`ReadOn`) until the request ends (`ReadLast`), is routed, acts
(`Action`), and `processResponseFinished` goes over the list (`Send`, `SendDone`). A transfer copies the
file into the socket; one whose size is not what was indexed never finishes. A null pointer that
is used is `up = "dead"`: of a file that is gone (`ActionNoFile`), of a form whose `.part` file cannot be opened because its directory is gone or was only
in the url (`UploadNoDir`). What is written of a file is in the buffer of a `QFile` on the name with `.part`, which nothing flushes, closes or renames (`OnDevice`).

**Browse.** A path or a url is the sequence of its parts between slashes. A part is a string of which the model knows which of the special characters it
has (`Special`), what is left of it when it is cut or trimmed (`Kept`), what `toAscii` makes of it (`Narrow`), and whether it is a word or a sha1, which is all that the patterns of the
routes look at. `FilesInDir` and `SubDirectories` are the two views of `State`, `LinkToBrowse`, `LinkToFile`, `BreadCrumb` and `FormUrl` what
`HttpView` writes, `Matches` the patterns, `Routes` the order in which a `QMap` gives its keys, `Params` what the controller takes from the url, and
`CleanPath` what it makes of it. The names of the repositories go into a pattern without escapes: `Pattern` tells for each set of names what the pattern takes, which for plain
names are the names, and for others may be more, less or nothing. `dirs` are directories on the disk, which other programs make and remove; `UploadTo` tells whether a form is refused, written or ends the
process. The specification and its type invariant are `BrowseSpec` and `BrowseTypeOK`, so that a module can extend `Browse` and
`HttpServer`. `Follow` is a visitor who follows a link of the page he has, which may have been answered long before.

**MainWindow.** A name is the sequence of its parts between slashes, because `QSettings` makes a group of each: `groups` is the settings file, and
`ChildGroups` what a start finds under "repos". `pc = "reading"` is the constructor, which reads one group per step and then listens. A directory
is `gone`, `bare` (the logger can make its directory of logs), `readonly` or has `logs`, and changes at any moment, also while a start reads the settings (a message box lets time pass). `port` is 0 until the server listens, and `self` in an entry is the port
in its url. The thread is the variables from `redirect` to `router`; a variable that the code never sets is any of its values (`AskUnanswered`), and a call with an
url that was never set may end the process (`AddCrashes`). `owed`, `typed` and `chosen` exist for the properties: what a user may rely on
since the settings were last written.

## Runs

Passing runs:

| run | question | states | bounds |
| --- | --- | --- | --- |
| `logger` | Does the journal implement the durable index; are index, logs and acknowledgements consistent after any crash but one? | 9.6 k | three logs, two paths, two sha1, all diffs of one operation and those of two that a scan of two files makes |
| `logger_faults` | Does an acknowledged commit keep its log, and is no log torn, with names in any order or taken, a full disk and crashes everywhere? | 445 k | two logs, the same diffs |
| `scan` | Is every diff accepted and the index sound, whatever is edited between two reads; is nothing stale but by an edit; do two quiet scans give the disk? | 2.9 M | three paths in two directories, three contents of which two have one size, two edits of any kind at any moment, both orders of reading |
| `sync` | Do the counters hold and is the exchange of diffs implemented, with failures, garbled replies, restarts, stops, direct calls and overlapping histories? | 448 k | two local diffs (one that cannot be read), one of another client, four requests of which two for histories, one failure |
| `sync_live` | Do both sides end with each other's diffs? | 186 k | one local diff, made at any millisecond, one other, four requests of which two for histories, one failure, garbled reply or restart |
| `peers` | Do clients find the others and not themselves, in whatever order replies come? | 1.7 M | two clients, one whose url the tracker changes, three requests, one failure or restart |
| `http` | Are requests kept apart, responses in order, forms written as they were sent, waiting peers answered? | 434 k | every pair of ten kinds of request and every triple of three kinds, cut anywhere, pipelined or not, all events |
| `browse` | Do the links of any page, however old, lead to what they name; is every file on a page; do uploads go where they were sent? | 72 k | two repositories, also of one name or called like an action or a pattern, indexes of up to two of eight files with ordinary and special names, one directory that comes and goes |
| `window` | Does a start restore what was saved and listen on the port that was chosen; is what the window says of the port so? | 1.7 M | three starts, two added repositories, names that are plain, with a slash or empty, one directory that comes and goes, three ports of which one may be taken |

Why the bounds are enough. *Logger*: a replay of three logs has one that is first, one in the middle and one that
follows a gap or a torn file; the operations of a diff touch one or two paths, and two paths with two
sha1 make files that share a fingerprint. With names in any order two logs are enough for one to overtake, to be torn or to be taken. The theorems below lift these runs to any number. *Scan*: a file that is moved is in a directory that has been
listed or one that has not; three paths allow two missing files that are identical to a third, and two edits make a move and a
save of what was moved, or two saves around one read; a save may keep the size, the time or both. `AnyContents` makes the two contents of one size interchangeable. *Synchronizer*: with limits of 0 one pull and one push are under way at once,
together with two histories that overlap; the theorems have any limits. Restarts, failures and garbled
replies come one at a time, at any moment. `AnyRequest` makes requests interchangeable: their names are only slots. It is not used with liveness.
*Peers*: one client whose url comes back changed and one whose does not; three requests are a registration and two lists that may overtake each other,
or two registrations around a list. *HTTP*: what one request can leave for the next is seen in pairs; the triples
are of those that leave lines, jam the list or are ordinary. The form has a field and two
files with empty lines, lines that end with LF and a last line without text. *Browse*: with two files in an index a directory has a file and a subdirectory, two of one kind or
none; each special character that a pattern treats differently occurs in a name of a directory and of a file, and the longest path is three parts, as
the routes with most parts take. *Window*: three starts are one that saves, one at which a directory is away and one that must restore; two
repositories may have one name. The thread is followed where there are no repositories (`ThreadAlone`), with which it shares only the port; the theorems do not
need this bound. Port 1000 can be saved and not read back; 22335 may be taken by another program and by another host at the router.

`logger` leaves out the crash between writing and renaming, which `logger_window` shows, and has names in the order of the commits. `http` has `CHECK_DEADLOCK FALSE` because a connection does end: when all
requests are answered, the peer is gone or the process is dead, nothing more happens. Deadlock is checked in the other runs.

What each property says is in the comment before it. In short:

- `MemoryMatchesDisk`, `AckedDurable`, `NoTornLog`, `LogsReplayLegally`, `IndexSound`,
  `ImplementsDurable`: the journal.
- `CommitAccepted`, `IndexSound`, `QuietScanAgrees`, `NoStale`, `OnlyEditsMakeStale`, `SettledAfterTwo`: the scan. The first three hold whatever is edited. `NoStale` is for files that are read
  stat first and edits that leave a time of their own; without these conditions an entry can be stale for good, and `OnlyEditsMakeStale` says that no scan makes it so
  by itself and `SettledAfterTwo` that two quiet scans put everything else right.
- `CountersMatch`, `EveryDiffPulled`, `EveryDiffPushed`: the synchronizer. `ImplementsExchange`: the same as an abstract exchange of
  diffs. `NotItsOwnPeer`, `OthersAreFound`: its peers.
- `OneRequestEach`, `RepliesInOrder`, `WrittenAsSent`, `Served`: a connection.
- `LinksLead`, `Reachable`, `FormLands`: browsing.
- `StartRestores`, `PortIsChosen`, `OwnUrlIsServed`, `RedirectIsTrue`: the window.

Three runs end in a violation (`logger_window`, `sync_rename`, `sync_limit`). Each checks one property, which a comment or a test of the repository states;
they are described [below](#where-code-and-documentation-disagree).

## Fairness

- *Synchronizer.* `WF(Tick)` and `WF(Loop)`: the timer fires every half second and a handler that has begun goes
  on. `SF(RequestFinished(i))`: the event loop hands out every reply, and a handler of the timer that runs
  first disables this only for a moment. `WF(Serve(i))`: the tracker answers what does not
  fail. `WF(Expire)`: time passes. In `sync_live` ten minutes are enough for the work of a history
  (the event `slow` is absent): a pull takes a request and `loop` runs twice a second. Two histories may be under way and come in either order, and diffs are made at any millisecond,
  so that a diff is pushed again and again; that does not keep the others back. The properties ask for a client that stays
  active from some time on; starting and stopping is the user's.
  That the last history is old at the first start is an assumption of `sync_live`
  (`NullIsOld`): the code computes it from a time that was never set, and in Qt 4 the difference
  overflows an int.
- *HTTP.* `WF(Handle)`: handlers run to their end. `WF(Arrive)`: the peer sends what it may send and the
  network delivers it. A peer that does not pipeline waits for each response.
- *The logger, the scan, the peers, the pages and the window* have safety properties only. No fairness would be justified for the last three: the code never
  repeats a registration or a list that failed, and what a visitor and a user do is theirs.

## Theorems

TLC shows a property for small instances; these theorems hold for all paths, contents, diffs, numbers of logs and of
edits, limits, numbers of requests, names, ports and clients. The assumptions on the constants are in the modules that declare them.

| theorem | module | states | assumes |
| --- | --- | --- | --- |
| `TypeCorrect` | StateLoggerProofs | the type invariant | |
| `AcknowledgedIsDurable` | StateLoggerProofs | `AckedDurable` | |
| `NamedIsWhole` | StateLoggerProofs | `NoTornLog` | |
| `RestartGivesSameIndex` | StateLoggerProofs | `MemoryMatchesDisk` | `Orderly` |
| `ReplayIsLegal` | StateLoggerProofs | `LogsReplayLegally` | `Orderly` |
| `LookupsAreCurrent` | StateLoggerProofs | `IndexSound` | `Orderly`, no diff touches a path twice |
| `JournalIsDurable` | StateLoggerProofs | `StateLogger` implements `DurableIndex` | `Orderly` |
| `PerformChangesSound` | StateLemmas | a diff that is accepted and touches no path twice keeps the hashes in agreement | |
| `PerformCompatibleSound` | StateLemmas | so does one that is accepted and puts only renames of equal files at one path | |
| `TypeCorrect` | DetectChangesProofs | the type invariant; the lists of a scan have no repetition | |
| `DiffIsAccepted` | DetectChangesProofs | `CommitAccepted` | |
| `IndexStaysSound` | DetectChangesProofs | `IndexSound` | |
| `QuietScanIsRight` | DetectChangesProofs | `QuietScanAgrees` | |
| `OnlyEditsStale` | DetectChangesProofs | `OnlyEditsMakeStale` | |
| `TwoScansSettle` | DetectChangesProofs | `SettledAfterTwo` | |
| `TypeCorrect` | SynchronizerProofs | the type invariant | |
| `CountersAreExact` | SynchronizerProofs | `CountersMatch` | |
| `LimitIsKept` | SynchronizerProofs | of either kind at most one request above the maximum is under way | |
| `SynchronizerExchanges` | SynchronizerProofs | `Synchronizer` implements `Exchange` | |
| `TypeCorrect` | HttpServerProofs | the type invariant | |
| `OneReaderAtATime` | HttpServerProofs | `OneRequestEach` | |
| `FormsAreWritten` | HttpServerProofs | `WrittenAsSent` | |
| `RepliesComeInOrder` | HttpServerProofs | `RepliesInOrder` | |
| `BrowseTypeCorrect` | HttpServerProofs | the type invariant of `Browse` | |
| `LinksAreRight` | HttpServerProofs | `LinksLead` | |
| `AllIsReached` | HttpServerProofs | `Reachable` | |
| `FormsAreRight` | HttpServerProofs | `FormLands` | |
| `TypeCorrect` | MainWindowProofs | the type invariant | |
| `Restored` | MainWindowProofs | `StartRestores` | |
| `PortKept` | MainWindowProofs | `PortIsChosen` | |
| `OwnUrls` | MainWindowProofs | `OwnUrlIsServed` | |
| `RedirectTrue` | MainWindowProofs | `RedirectIsTrue` | |
| `TypeCorrect` | PeersProofs | the type invariant | |
| `OwnUrlLeftOut` | PeersProofs | `NotItsOwnPeer` | |
| `OthersListed` | PeersProofs | `OthersAreFound` | |

`Orderly` says that the disk does not fill, no crash comes between the write and the rename, and names come in the order of the commits.
`logger_window` shows what a crash in between does; a full disk makes a commit return true that left a torn log or none,
and a diff that was constructed first and committed second, or after the clock was set back (summer time ends), is replayed before the one it was checked against.
`AckedDurable` and `NoTornLog` need none of this: they except only a diff that itself found the disk full.

*The journal.* `MemoryMatchesDisk` is not inductive: it says nothing of a commit under way. `Recovery` does: until the
rename the index is what the logs replay to; after it, the logs replay to the index
with the diff performed; a diff is under the temporary name only while it is `written`; its
name is greater than all others; and every log was legal for the index before it. The last part
needs that a replay of logs to rank *n* does not depend on the others (`ReplayPrefix`), that gaps change nothing (`ReplayGap`),
and that a new last log is performed on what was before (`ReplayAppend`).
`JournalIsDurable` maps each step: `OpenTmp` is `Accept`, `RenameTmp` is `Persist`, `Perform` is
`Publish`, `Reload` is `Recover`, and `WriteTmp` changes nothing.

*Recursion.* `Replay`, `PerformChanges` and `Without` are recursive functions. The provers cannot instantiate the library's induction
theorems, whose parameter is an operator. `Recursion` proves, from well-founded sets alone, that a *set*
that contains 0 and successors is all of the naturals (`SetInduction`), and that a function with a given first value and
step exists (`RecursionExists`), so that the equations of the functions are theorems. The lemmas on lists say what `Append`, `Tail`,
concatenation and `Without` do to the set of a list and to a list without repetition.

*The scan.* `CommitAccepted` and `IndexSound` speak of the end of a scan; `ScanInv` says what holds at each read: what is known
or missing is in the index and what is unknown is not (`ListsAgree`); each operation found so far can be performed on the index, and any two are
*compatible* (`OpsFit`): they read different files, and no path is written twice but by renames of equal files; and what is still to be looked at
is in no operation (`NotYet`). The disk does not occur in it, which is why edits between two reads cannot disturb it. Two missing files can become renames to one path, a diff that
touches a path twice. `PerformCompatibleSound` shows that it does no harm: an operation of a compatible diff leaves what the others
need (`StillPerformable`), and the second rename puts an equal entry in the place of the first (`RenameOverEqual`).

*What a scan sees of the disk.* `QuietInv` ties the lists to the files: while nothing was edited since the scan began, what was found is what exists in the directories listed so far (`Found`), every path whose entry is not that
of its file is in a list or in the diff (`Accounted`), and each operation says what the disk says (`Right`). The entry of one path after a diff is that of the one operation that touches it
(`EntryAfter`, `DiffEffect`). A rename gives a path the entry of the
missing file, which has the fingerprint that was read. For `OnlyEditsStale` an entry that a quiet scan wrote has the fingerprint of the file itself, so a stale entry was stale before.
`TwoScansSettle` needs both (`SettledInv`, `StaleKept`): after a quiet scan nothing is missing, so the next renames nothing, and what it leaves alone has the stamp of its file.

*The synchronizer.* `CountersMatch` is inductive with the type invariant, and `CountersWithin` (each counter is at most its maximum plus
one) turns it into the limit. The lemmas `HeldAdd` and `HeldRemove` say what sending a request and handling a reply do to the set of
requests of one kind.

*The exchange.* The mapping is of states; that each step maps to one of `Exchange` or to none needs what links the three places in which a name can
be (`Linked`): a local name is that of a diff of this client; what is queued to be pulled is at the tracker and not a diff of this client, what is
queued to be pushed is local; and so are the names in the requests and replies under way. Since the tracker and the local logs only
grow, queues made from an old history keep this however long they wait.

*The window.* Each property has its own invariant. `UrlInv`: while the list is read the server has no port, after which its port stays. `PortInv`: the settings have the port that was chosen, and
the box shows it until the user changes it. `ThreadInv`: the thread works for the port of the server, and what it was told of that port stays true.
`StartRestores` needs two: what is owed is in the settings, in a group that a start finds (`OwedIsWritten`), and while a start
reads, each group is still to be read or its repository is in the list (`OwedIsRead`).

*The connection.* The lines of the socket are the requests one after the other, and those of a form are its parts one after the other: `Flattened` of `Recursion` gives the place of each line.
`Stands` says what a message is after the first *j* lines of its request. Of a part it says that what is stored, with the CRLF that is held back, is
all that was sent in the lines so far, after the CRLF of the empty line; each line keeps this, whether its end is held back or not (`Continues`), and at the boundary what is held back is what belongs to the boundary.
`ReadsInv` is the invariant: the lines are those of the requests (`LinesSent`); every controller is typed, has lines of one request, and each part of its message, once that is finished, is whole (`Holds`); and only the last
controller may read, whose message stands where the socket is (`OneReads`). A request that leaves lines behind (content that is no form, a first line that is refused) makes the next controller begin with such a line,
which it refuses (`Starts`); then the requests and the controllers have no longer the same numbers, which is said only of those that are `Sound`.
`OneWaits` adds the responses: while no file has changed its size, the list has no controller but the last, and the heads that went out are those of the others, in order (`HeadsTo`, `Ordered`).

*The pages.* The variables are a page of any age and the list as it is now, so an invariant can tie nothing of the one to the other. `BrowseInv` says of each link on the page only that it has
the url of what it names, and that a link to a file names no empty part (`LinkOK`). The rest is about the routes: of a url that is `Followed` to a listed repository
no route matches before "naked" (`NakedRoute`), `CleanPath` takes nothing off that is anything to the disk (`CleanOnDisk`) and nothing at all off the path of a file (`WholeOnDisk`).
For `AllIsReached` the first *n* parts of a path are a directory, since no file is a directory of another, so that a page is answered (`WayPage`); and it has a link to the first *n* + 1 (`NextOnTheWay`).
The names, their special characters, what the pattern takes, the indexes and the number of repositories are any; assumed is that names have no slash and no parenthesis, that a pattern of plain names takes those names, and that the file name of a form is not empty,
which the pattern of `setHeader` (httpmessage.cpp) sees to.

*Peers.* `Inv` says in addition that what a client takes for its url is one under which the tracker has it (`SelfOK`), that a client that was told so is
registered (`KnownOK`), and that a reply under way tells of a state that the tracker has had (`NetOK`).

Only model-checked: liveness (`Served`, `EveryDiffPulled`, `EveryDiffPushed`), which is out of the
prover's reach, and `NoStale`.

## Where code and documentation disagree

Three have a run whose violation is a behaviour of the code; TLC prints the trace.

- **`logger_window`.** The temporary name `to_be_renamed.log` matches the pattern of the logs
  (statelogger.cpp:130). After a crash between the write and the rename, `reload` replays the file as
  if it had been committed, and the next commit truncates it: memory has a diff that no log has.
- **`sync_rename`.** The time of a diff is written to the second, and the name is made from it when the diff has
  been read back (statediff.cpp:51). A diff that was made at any millisecond but 0 has another name at the
  tracker, and every later history queues it again.
- **`sync_limit`.** "If we are not already using all allocated connections" (synchronizer.cpp:88) issues one request
  more than `m_maxPulls` or `m_maxPushes` allocate: the condition is `numPulls < maxPulls + 1`. That it is never more than one is proved (`LimitIsKept`).

Met while modelling, each in the model or the list of hazards and without a run of its own. The journal and the scan:

- With a full disk `commitChanges` returns true though its log is torn or missing (statelogger.cpp:99), against its test (tst_stateloggertest.cpp:37). In the model this is `LoseTmp`.
- A diff is named after the moment it was constructed (statediff.cpp:15) and replayed in the order of the names: of two that are committed in the other order, a restart makes another
  index than the one in memory. In the model this is `NamesOvertake`.
- Of two files with one sha1 only one can be found by it, and none once that one is changed or removed (state.cpp:219-231).
- `readFileInfo` (localdiskrepo.cpp:138) passes the stat and the sha1 of a file to one constructor call,
  whose arguments may be evaluated in any order. If the contents are read first and the file is saved in between,
  old contents are recorded with the new time, and every later scan skips the file. `NoStale` is for the other order (`quiet.sure`).
- Two edits within a second that keep the size look like one (fileinfo.cpp:51), as does a move of a file of that time and size over another; `quiet.sure` excludes both from `NoStale`.
- A rename keeps the time of the missing file (repo.cpp:103); if the file has another, the next scan finds it changed.

The synchronizer and its peers:

- `secsTo` of a time that was never set decides whether the first history is asked for (synchronizer.cpp:84).
- Until the first history has arrived every tick asks for another; an answer that is older than the push of a diff queues it again (synchronizer.cpp:85), though the tracker has it. In `sync` and `sync_live`.
- A history that is not JSON ends the process (synchronizer.cpp:185). In `sync`, as `HistoryGarbled`.
- Pulled diffs are never read or performed, and pulled again after each history (synchronizer.cpp:197).
- A list of peers that arrives before the reply to the registration has the client itself in it (synchronizer.cpp:159).
- A reply to the registration without "peer" empties the own url (synchronizer.cpp:139).
- A registration or a list that failed is not asked for again (synchronizer.cpp:309); `m_peersReceivedAt` is set also when the reply is no JSON.

The connection and the pages:

- A request that arrives in the chunk that ends the one before it waits in the socket until more data arrives
  (httpcontroller.cpp:67); a peer that waits for both responses would wait for ever. `Served` is for peers that wait for each response.
- The empty line that ends the headers of a part is taken for content as well (httpmessage.cpp:216),
  and what is written of every file begins with a CRLF that nobody sent. `WrittenAsSent` says so.
- The body of a response goes out before its headers, and a HTTP/1.0 socket is closed before them (httpcontroller.cpp:208). `Send` has it so.
- A file that has changed its size since it was indexed is sent, but its transfer never finishes, and it is sent again with every later
  response of the connection (filetransfer.cpp:117). Hence the condition `disk # "changed"` of `RepliesInOrder`.
- A form for a repository that has been removed is answered in the middle, and its socket stays in `m_openRequests` (httpcontroller.cpp:235).
- `setResponse` with a code and nothing else sends 200 with the code as the content (httpresponse.cpp:30). `Code` has it so.
- Content that is not a form is read as the next request (httpmessage.cpp:196); a form without parts and an indexed file
  that is gone use a null pointer (httpmessage.cpp:230, localdiskrepo.cpp:40), as does a form for a directory that is not on the disk (localdiskrepo.cpp:46, httpmessage.cpp:71). The first two are excluded by `Readable`,
  the others by `Undisturbed`.
- An uploaded file keeps the name `.part`: `putFileComplete` is called only for transfers with a destination repository, and no upload has one.

- The names of the repositories are joined to a pattern without escapes (httpcontroller.cpp:96), and any text can be a name: `a+` takes other urls than its own, and one like `[` makes a pattern that takes none,
  so that no repository is reached. What `toAscii` cannot express becomes a question mark (httpcontroller.cpp:119).
- A page is shown for a directory that is only in the url, with a form; to send it ends the process (localdiskrepo.cpp:46).
- Files that are directly in a repository are on no page (state.cpp:33): the pattern of the files of the empty path begins with a slash.
- A repository called `browse`, `commit`, `file`, `history` or `favicon.ico` cannot be reached: an action comes first in the order of the routes (httpcontroller.cpp:110).
  Without repositories the pattern of the paths is empty and `/` leads to an error page (httpcontroller.cpp:96).
- A path is put into a link without escapes (httpview.cpp:61), and cut at a question mark or trimmed when it comes back.

The window and the thread:

- A removed repository comes back at the next start: groups are only added to the settings (mainwindow.cpp:78).
- A repository whose name has a slash or is empty is not read back (mainwindow.cpp:80).
- Of two repositories of one name, requests reach the first and the settings keep the last (repomodel.cpp:53).
- Port 1000 can be saved and is read as 22335; a settings file without a port is read as 0.
- Restored repositories are made before the server listens, and their urls have port 0. `OwnUrlIsServed` allows none.
- `close()` in the constructor, when no port can be had, has no effect: the event loop does not run yet.
- The remove button with nothing selected takes a row that is not there (mainwindow.cpp:37).
- The thread looks at no result (upnpwrapper.cpp:86): after a failed step it uses names and urls that were never set,
  and a redirection that another host has counts as its own. `removeRedirect` is never called.

## What is not modelled

- The `.part` files of uploads: two uploads of one name share one, and none gets its final name, as `putFileComplete` and `putFileFailed` are
  reached only by transfers with a destination repository, which nothing makes (`setDestRepo` and `setFileSize` have no caller). The parser's model tells what is
  written to them, and a scan skips them.
- Dialogs, item models, content types, debug output: no state of the program, or formatting only.
- `httpclientrepo`, `localstoragerepo`, `readoncebuffer`, `dialog`: not built.
- Several connections at once: they share only the list of repositories and the disk, which `HttpServer` changes at any time.
- Percent-encoding, dots and quotes in the urls of pages: `Browse` has slashes, spaces, question marks and what the patterns tell apart.
- Links of the file system, permissions and files that cannot be read for other reasons than that they are gone.
- A hash collision of sha1 or of names.

## Plan

Done, in this order: the index, the journal with its refinement and proofs, the scan and its proofs, the synchronizer with its
proofs, its abstract specification and refinement, the peers, the parser of requests and the connection with their proofs, the pages with theirs, the window with the settings and the thread.

1. `Uploads`: the `.part` files of a directory, two uploads of one name, a disconnect in the middle, and a scan meanwhile
   (which skips `.part`). Wanted: a scan never indexes a file that is still being written. It composes `HttpMessage` and `DetectChanges`.
2. A proof of `NoStale`, and proofs of what item 1 adds. Every other safety property of the runs that hold is a theorem.
