# A TLA+ model of adbncfs

adbncfs mounts the file system of an Android device with FUSE. Files are copied
with `adb pull` to a temporary directory, read and written there, and copied back
with `adb push`; everything else (`stat`, `ls`, `mv`, `rm`, ...) is a command sent
to a shell on the device through one netcat process. libfuse calls the program's
callbacks from several threads, or from one when it is mounted with `-s`.

The modules here are translated from `src/src/*.cpp` and `src/src/*.h`.

## 1. Inventory

| Part | State | Operations | Meets the others through |
|---|---|---|---|
| Write-back of files (`adbncfs.cpp`, `FileStatus` in `fileinfoCache.cpp`) | `FileStatus::m_Entries` (pendingOpen, forWrite, truncated, renamedFromLocal per path); the local copies; the descriptors in `fuse_file_info::fh`; `openMutex` | `adbnc_open`, `read`, `write`, `flush`, `fsync`, `release`, `truncate`, `mknod`, `rename`, `unlink` | `adb` child processes, `doStat`, `adbnc_access`, `FileCache::invalidate` |
| Attribute and link cache (`FileCache`) | `m_Entries`: stat output, readlink output and one time stamp per path; no lock | `putStat`, `getStat`, `putReadLink`, `getReadLink`, `invalidate` | filled by `doStat` and `adbnc_readlink`, invalidated by every changing callback |
| Remote shell (`execCommandViaNetCat`, `adbncShell`) | the two pipes of the netcat process, `ncCmdMutex` | run a command, read its output up to an end marker | every callback |
| Directory listings | `openDirs`, `inReleaseDirMutex`, `inReleaseDirCond`, `fInReleaseDirCond` | `adbnc_opendir`, `readdir`, `releasedir` | remote shell (while the mutex is held), `adbnc_getattr` |
| Permission checks (`adbnc_access`, `UserInfo`, `MountInfo`) | the user's ids and the mount table, read once at the start | `access`, `isMountedRo`, `isMountedNoexec` | before every pull and push |
| Start and end of the mount (`main`, `initAdbncFs`, `adbnc_init`, `adbnc_destroy`) | temporary directory, adb port forwarding, netcat on the device, netcat on the host, mutexes | set up in order, tear down | the device, which other instances share |
| Child processes (`Spawn`, `Cpipe`, `execProg`) | two pipes and a pid per child | spawn, `sendEof`, `wait` | `adb` commands, netcat |
| Names and parsing (`makeLocalPath`, `parent`, `tokenize`, stat, df, id, mount) | none | pure functions | everywhere |
| `adbnc_statfs` | none | two commands and a conversion | remote shell |

What is hard in this code, and what correctness means there:

* **Write-back.** Whether `flush` pushes a file hangs on two flags per *path* that
  every read, write, flush, fsync and rename on any handle and thread overwrites,
  while pull and push take seconds without a lock on the file. Correct means: what
  was written and flushed without an error is on the device; the device never goes
  back to an older content; a local copy that is used without a pull is not stale;
  every descriptor is closed.
* **Cache.** A lookup asks the device and stores the answer in two steps; a change
  invalidates before or after it runs. Correct means: the cache does not answer
  with what a finished change has replaced, and what is not invalidated expires.
* **Remote shell.** All threads share one stream of lines, and commands are put together
  as text. Correct means: a call gets the output of its own command, whole, and leaves
  nothing for the next one; nobody waits for a marker that does not come; the mutex is
  released even when netcat ends.
* **Permission checks.** They repeat, on the host, what the device's kernel would
  decide, from a table of mounts that was read once and the bits of the file alone.
  Correct means: nothing is granted that the device refuses, and nothing refused that it
  grants, as long as that table is current.
* **Start and end.** Every instance on a device shares one netcat and one forwarded
  port, which each looks for, starts and finally removes without a lock. Correct means:
  who is mounted is connected; the last one leaves nothing behind, also after a crash;
  a tear-down ends.
* **Child processes.** Descriptors are numbers that all threads share; `~Cpipe` closes
  its numbers a second time, and children inherit the ends of each other's pipes.
  Correct means: a call gets its own output, ends, and leaks nothing.
* **Listings.** One listing per path is shared by all handles without a count, and
  read without the mutex. Correct means: a handle reads the listing its opendir
  retrieved; nobody waits for ever.

Every hazard, at its line, with the properties about it, is in `PROJECT.json`.

## 2. Modules

| Module | Models | Built on |
|---|---|---|
| `WriteBack` | the ten file callbacks, `FileStatus`, local copies, device | |
| `WriteBackProofs` | type correctness, `LocalNotStale`, `NoRollback`, proved | `WriteBack` |
| `WriteBackDelivery` | `Delivered`, proved | `WriteBackProofs` |
| `FileCache` | `FileCache`, `doStat`, `adbnc_readlink`, the invalidations of the nine changing callbacks | |
| `FileCacheProofs` | type correctness, `Coherent`, proved | `FileCache` |
| `RemoteShell` | what a callback relies on when it runs a command (abstract) | |
| `NetCat` | `execCommandViaNetCat`, the pipes, the shell on the device | implements `RemoteShell` (`INSTANCE ... WITH`) |
| `NetCatProofs` | type correctness, `OwnOutput`, `PipesEmpty`, `MarkerComes`, the implementation of `RemoteShell`, proved | `NetCat` |
| `OpenDirs` | `adbnc_opendir`, `readdir`, `releasedir` | |
| `OpenDirsProofs` | type correctness, `ReadsOwnListing`, `NobodyWaits`, proved | `OpenDirs` |
| `AccessCheck` | `adbnc_access`, `UserInfo`, `MountInfo` as operators; what the device would answer | |
| `AccessCheckProofs` | `adbnc_access` answers what the device would, proved | `AccessCheck` |
| `Lifecycle` | `main`, `initAdbncFs`, `adbnc_destroy` for several instances | `AccessCheck` |
| `LifecycleProofs` | type correctness, `AccessAgrees`, `MountedConnected`, `CleanedUp`, proved | `Lifecycle`, `AccessCheckProofs` |
| `Spawn` | `Spawn`, `Cpipe`, `execProg`: descriptors, pipes, children | |
| `SpawnProofs` | type correctness, `NoLeak`, `FilesKept`, `SoundOutput`, proved | `Spawn` |
| `MCWriteBack`, `MCFileCache`, `MCNetCat`, `MCOpenDirs`, `MCLifecycle`, `MCSpawn` | model values, symmetry sets and constant functions for TLC | their module |

### WriteBack

Contents are version numbers: every write, truncation and creation makes a new
one, `NoFile` (0) is "no such file". `device` and `local` map paths and local
names to versions; `status` is `FileStatus::m_Entries` (`known` says whether the
map has the entry); `handle` is what a caller holds: where its callback is (`pc`),
its path, which local name its descriptor refers to (`loc`, `None` once a pull has
replaced that file or `unlink` has removed it: `Detached`) and the version a transfer
carries (`buf`). `fresh` is a
history variable: the version a handle wrote last. It is dropped when another
callback touches the path or the local copy, when the file is renamed, when the
handle reads, when its `pwrite` or `fsync` of the local copy fails, and when a push
of its own stores nothing (`Unstored`), whether the program notices or not.

A callback that calls `adb` is two actions, `...Begin` (it reads the source of the
transfer) and `...End` (the target is stored and the rest of the callback runs);
between them any other thread may step. `Mknod` is one action although it pushes: the
kernel holds the lock of the directory until `mknod` has returned, so no callback on
the new path, and no rename to it, can run while the push does, and what runs on other
paths changes nothing of what it reads or writes. `OpenStale`, `OpenFail`, `FlushFail`
and the outcomes `denied` and `unnoticed` of a push are the error paths:
`execProg` recognises two error texts, and everything else counts as success.
`write` is two steps because the flags are set before `pwrite`. `release` follows
the last `flush` of a handle: it is the only thing a handle in `closing` does.

From libfuse (external, in `CanStart`, `Unused`, the guards of `Rename`): with
`-s` one callback runs at a time; `rename` and `unlink` of a file wait for the
callbacks that run on it, an open file that is unlinked or replaced is hidden
under another name first, and handles of a renamed file get its new path. A path
without handles (`Unused`) may have a local copy that a descriptor still refers to,
that of a file renamed away from it.

Abstractions: `doStat` answers from the device; the device is changed through this
mount only; single operations on the `std::map`s are atomic (the code has no lock
there, which is undefined behaviour when threads meet in them); `LocalOf`
(`makeLocalPath`) is injective on the paths of the model.

### FileCache

`attrs` is what `stat` and `readlink` would print about a path, as a version
number; `cache` is `m_Entries` with the age of its time stamp instead of the stamp
(it saturates at `Ttl`, the 120 seconds); `thread` says which callback a thread
runs and how far it is. A lookup that misses is `Lookup`, `Fetch` (the command runs
on the device), `Put`. A changing callback is `ChangeBegin`, `Change` and, for
those that invalidate last, `Invalidate`; `rename` has `InvalidateTo` before it.
The callbacks that push a file (`Pushing`) first ask for the attributes of its
directory (`Looked`), through the same cache, so they run `Fetch` and `Put` between
`ChangeBegin` and `Change`; `truncate` looks at the file itself and then runs `Cut`,
since it cuts the local copy only and leaves the device as it is.
What the code invalidates is written in `ChangeBegin`, `InvalidateTo` and
`Invalidate`: the paths the callback was given. `Affected` and `Named` serve the
history variable `quiet`, the paths whose last change overlapped no other callback:
`Affected` says what the device changes besides these paths, the directories and what
is in a renamed directory. A command prints nothing about a path that does not exist
(`NoOutput`), and nothing when the connection breaks (`Lost`): the code cannot tell
these apart and takes both for ENOENT, the model can, so that `Coherent` allows the
second only.
`readlink` renews the time stamp that the stat output of the same path is judged by,
and the other way round (`PutStat`, `PutReadLink`).

### RemoteShell and NetCat

`RemoteShell` has three steps: a thread asks, it gets all lines of its own command
in order (or a beginning of them once the connection is broken), the connection
breaks. `NetCat` has the pipes as sequences, `ncCmdMutex` as `holder`, one action
per line read, and a netcat that may end between any two steps and lose what is on
its way. Only the text of the marker matters of a line: `MarkerText` lets a
command print it. No run sets it: `OwnOutput` and `PipesEmpty` need an output without
the marker, since `Read` ends at any line that holds it, and the rest would go to the
next caller.

The callbacks put paths between apostrophes without escaping them. A path that holds
one leaves a quote open at the end of the command (`OpenQuotes`): the shell takes the
echo, whose own two apostrophes close that quote and open the next, for a part of it,
prints nothing and waits for more (`Swallow`, `quoteOpen`). The call then waits in
`getline` with the mutex held, until netcat ends. The run has this, and `MarkerComes` and
`MutexReleased` except it by name. What a quote could make the shell run is not
modelled: the path of the model is one that leaves it open.

### OpenDirs

`listing` is what `ls` would print about a directory, as a version; `openDirs` is
the map; `mutex`, `inReleaseDir` and the handles in `waiting` are the mutex and the
condition. `opendir` is `OpenBegin`, `OpenLock` (which waits on the condition when
the flag is set), `OpenEnd`; `releasedir` is `CloseBegin`, `CloseLock`,
`CloseErase`, `CloseEnd` (`NobodyWaits` shows that the wait is never taken); `readdir` is `ReadBegin`, `ReadEnd`, and reads `Garbage`
when the entry it iterates over is erased in between. Renaming or removing a
directory that is open changes the path libfuse later passes to `releasedir`, so the
listing stays under the old path (`leftover`).

### AccessCheck and Lifecycle

`AccessCheck` has no state. A path is a sequence of names, permission bits are sets of
rights, and `id` and `mount` are represented by what `UserInfo` and `MountInfo` parse
out of their lines. `UserAccess` tests the owner's, the group's or the others' bits
(what the code first says of root is overwritten), `MountTable` keeps the first line
of a mount point as `std::map::insert` does, `MountPoint` walks up the parents, and
`Access` is `adbnc_access`, which looks neither at the type of the file nor at the
directories above it.

`DeviceAccess` is written independently, as the device's kernel decides. Every directory
above the path must be one the user may search (`Searchable`). The mount that was made
last at or above the path counts, `noexec` for regular files only and `ro` for all but
devices, pipes and sockets (`MountRefuses`). Root needs no permission bits, except that
some x bit must be set on a file it executes. `EACCES` stands for the kernel's EROFS as
well: the program has one word for a refusal. The two differ, by
what the code leaves out, in these cases: below a directory the user may not search the
code grants what the device refuses, since the netcat that runs `stat` for it is root's;
on a directory of a `noexec` mount, on a special file of a `ro` mount, and for root
whenever the bits do not name it, the code refuses what the device grants.
`AccessAgrees` is what remains. `NothingHidden` says of a list of mounts that no mount
hides an earlier one; otherwise `MountTable` has options that are not in effect.

In `Lifecycle` an instance is a record of how far it is (`pc`), its own netcat process
(`nc`) and what the set-up read; `forwarded` and `remote` are the forwarded port and
the netcat on the device. Each `adb` command is one action: `FindForward`, `Forward`,
`CheckForward`, `FindRemote`, `StartRemote`, `CheckRemote`, `QueryUser`, `QueryMount`,
`SpawnNetCat`, `Mount` for the set-up, and `Down`, `Wait`, `FindRemotePid`,
`KillRemote`, `FindForwarded`, `RemoveForward`, `CleanUp` for `adbnc_destroy`. The
commands of all instances interleave. A query that fails prints nothing, which the code
reads as "not there". `Start` also goes to the tear-down or the end directly (`-h`,
`-V`, no temporary directory), and `Unmount` may lead to a second tear-down, because
`main` calls `adbnc_destroy` again when `fuse_main` reports an error. The instance may
be killed (`Crash`) at any step; its netcat goes with it, the one on the device stays.

External: taking away the port or the netcat on the device may cut the connections of
others (`Taken`); `stays` says that a netcat does not end when its input does, which
differs between the programs of that name; a netcat that was started before libfuse
made the process a daemon is not its child, so `Wait` does not wait for it. History:
`disturbed` (instances another one took the netcat or the port from after they had
checked it), `spoiled` (a command of the tear-down failed, or it was killed), `asOf`
(the mounts the mount table was made of).

### Spawn

`fd` maps descriptor numbers to what they are open on; `pipe` and `open` take the lowest
free ones. `caller` is a thread's call of `execProg` with the four numbers it was given,
`child` what its process inherited, `piped` the output that waits in a pipe. The steps
are the two `pipe`s and `fork` (each may fail, and then closes what was made), the
closing of the child's ends, reading, `sendEof`, `wait`, the deletion of the buffers and
the two `~Cpipe`. On this path every number has been closed before `~Cpipe` closes it
again: its second close can only hit somebody else. The destructors are needed on the
paths where a constructor fails.

`MakeBufs` makes the two buffers: `fdopen` takes an open number of the right direction
(`Opens`), and a buffer that was not opened is at its end at once and closes nothing
later. A read is on what is under the number when it starts; that may be another call's
pipe or a file. `ReadLines` takes what is there, and may leave at the text of an error
that `execProg` knows, with the rest lost; `ReadEnd` is the end of the input; `ReadFails`
is a read of a number that was closed or is no input. A failed read sets `badbit` and
never `eofbit`, so that `while (!getline(...).eof())` does not end: the call is in `spin`
for ever, although the number may be given out again. Between any two steps the other
threads run, and one of them opens and releases a local file. `intact` and the field
`sound` are history: opened, or made its pipes, while nobody else was in a call.

## 3. Runs

Every run finishes within three minutes with two workers.

| Run | Instance | Shows |
|---|---|---|
| `WriteBack_threads` | 2 files, 2 handles, 3 versions, all callbacks, threads, all three outcomes of a push, local errors | `TypeOK`; `Delivered`: after the last flush an undisturbed write is on the device, unless a transfer of the handle's own failed |
| `WriteBack_serial` | the same with `-s`, 4 versions, all three outcomes of a push, a path that exists on the host, no rename | `LocalNotStale`, `NoRollback` |
| `WriteBack_read` (violation) | 1 file, 1 handle, all pushes succeed | `ClosedMeansStored` fails: write, read, flush loses the write |
| `WriteBack_leak` (violation) | 1 file, 1 handle | `NoDescriptorLeak` fails: open, close |
| `FileCache_threads` | a file and a link, 2 threads, six kinds of changes, 2 versions, broken connections | `TypeOK`, `Coherent` |
| `FileCache_expiry` | a directory, its file and another entry, 2 threads, rename and flush, a connection that works, fairness | `EventuallyCurrent` |
| `NetCat_threads` | 3 threads, commands of 0 to 2 lines, paths that leave a quote open, netcat may end, fairness | `TypeOK`, `OwnOutput`, `PipesEmpty`, `MarkerComes`, `MutexReleased`, `ImplementsShell` |
| `OpenDirs_threads` | 2 directories, 2 handles, 4 opens, a change, renames, removals, fairness | `TypeOK`, `ReadsOwnListing`, `NobodyWaits`, `CallsReturn` |
| `OpenDirs_shared` (violation) | 1 directory, 2 handles, `-s` | `ListingHeld` fails: the second handle loses its listing |
| `Lifecycle_two` | 2 instances, 2 states of the mount table, 4 paths, 6 files of three types, below directories the user may search or not, all failures, crashes, fairness | `TypeOK`, `MountedConnected`, `CleanedUp`, `TearDownEnds`, `AccessAgrees` |
| `Spawn_threads` | 2 threads, 3 calls, 7 descriptors, 1 file, `fork` and `pipe` may fail, fairness | `TypeOK`, `NoLeak`, `SoundOutput`, `FilesKept`, `CallsReturn` |
| `Spawn_overlap` (violation) | 2 threads, 2 calls, enough descriptors | `OwnOutput` fails: the second close hits the other call's pipe before it has its buffer |

Bounds. Every hazard of the write-back needs at most two parties on a file and a
second file to rename to or to be mistaken for; a third version lets one write
overtake another. The proofs of section 4 remove the bounds for every safety property.
An entry of the cache depends on one path, its directory and its children, and on
one callback that overlaps another; one tick of `Ttl` suffices to expire. Three threads at the netcat are a
reader, one that waits and one that comes and goes. Four calls of `opendir` let each
of two handles be used twice, so that a second generation can meet what the first
left behind. Two instances race for the netcat and the port, and either can be the one
that was killed before the other starts; every instance runs once, so `lastPid` is
bounded by their number. Two calls and a file fight over descriptor numbers; the third
call meets what the first two left. Seven numbers are one too few for two calls, so that
`pipe` fails as well; nine give the same results. `MaxVersion`, `MaxOpens`, `MaxCalls`
and `MaxLines` are the only bounds on counters; with the first three the workload ends,
as it does when all instances have ended, so the runs that reach them do not check
deadlock.

Restrictions that the properties need. `Delivered` is about writes after which none of
the five things above happened: that a concurrent callback, a rename or a read in
between may lose a write is what the code does, and `WriteBack_read` shows one case of
it. `LocalNotStale` and `NoRollback` hold with
`-s` only: with threads, an `open` that pulls may replace a local copy another
handle is writing to. Both exclude `rename`, which leaves local copies of other
files behind. `Coherent` is about paths whose last change overlapped no other
callback on them, and allows the output of a broken connection (`Lost`), which the code
caches as ENOENT; for overlaps and for what no callback invalidates there is
`EventuallyCurrent`, which does not cover links, since `readlink` keeps their stat
output alive beyond the 120 seconds.
`ReadsOwnListing` is about a handle that has its directory to itself.
`MountedConnected` is about instances from which no other took the port or the netcat:
`adbnc_destroy` of another instance, even one started with `-h`, does take them.
`MarkerComes` and `MutexReleased` except a quote that a path with an apostrophe left
open over a connection that works (`adbncfs.cpp:548` and every other command with a
path): there the code waits for ever.
`AccessAgrees` is about mounted instances, since only they are asked, and leaves out
paths below directories the user may not search, the memory card, whose mount line is
made up, mounts that changed since the start or hide one another, and instances whose
`id` or `mount` was not understood: these grant too much. It allows refusing too much
for root (`UserInfo::access` computes "root has all permissions" and overwrites it) and
where the mount's options do not apply to the type of the file. `TearDownEnds` leaves out a netcat that is a child and does not end
with its input: `destroyNetCat` waits for it before `androidKillNetCat` would end it,
and hangs. `SoundOutput`, `CallsReturn` and `FilesKept` are about calls that made their
pipes, and files that were opened, while no other call ran and no file had lost its
descriptor; `Spawn_overlap` shows why, and a call that did not may also read for ever
(`spin`).

Fairness. Weak fairness of the steps of running callbacks, of the shell on the
device and of the clock: the scheduler runs every thread, the device answers, time
passes; for `Lifecycle` that `adb` commands end (`SetUp`, `TearDown` of each instance),
for `Spawn` that programs do. Nothing is assumed about when callbacks start, netcat ends or a mutex is
handed over; `CallsReturn` is checked for finitely many calls of `opendir`, since
mutexes of pthreads are not fair.

This fairness hides two hazards that the code has, since there are no timeouts. A command
that never ends on the device keeps `ncCmdMutex` (`adbncfs.cpp:320`), and `MutexReleased`
assumes that a command ends. `opendir` keeps `inReleaseDirMutex`, and `open` `openMutex`,
while they wait for the device (`adbncfs.cpp:1266`), and one slow command stops every
other such call. The third way to wait for ever, the apostrophe, is in `NetCat` and not
hidden by fairness: no step of the model ends it but the end of netcat.

## 4. Theorems

Every safety property that a passing run checks, invariants and action properties, and
the refinement of `RemoteShell`, are proved with TLAPS for every value of the constants
(files, handles, threads, descriptors, instances, paths, mount lists, bounds). Each proof
is by an inductive invariant that TLC checked on the instances of the runs first.

**WriteBack**

* `TypeCorrect` (`WriteBackProofs`): `Spec => []TypeOK`. `TypeOK` alone is not
  inductive: a callback indexes `status` and `local` with the path of its handle, so
  `TypeInv` adds that a handle in use is on a path.
* `DeliveredCorrect` (`WriteBackDelivery`): `Spec => []Delivered`, for every set of
  outcomes of a push. The inductive
  invariant says where the version is that a handle wrote and nobody disturbed
  (`HoldsFresh`): first in the `pwrite` in progress, with the file marked; then in the
  local copy under the path's own name, and either the file is still marked or the
  device has it; during the push in the transfer as well; and no callback of another
  handle runs on the file or its local copy. A step of another handle on the same file
  clears `fresh`, a step elsewhere changes none of this (`Bystander`); the one case
  that needs more is the end of a pull, which is stored in the local copy of *its*
  path: `OpenInv` relates the two, and the injectivity of `LocalOf` tells the copies
  of two files apart. The clearing of the marks by `flush`, whatever `adbncPush` returned, is harmless because
  `fresh` is kept only when the push was stored.
* `LocalNotStaleCorrect` and `NoRollbackCorrect` (`WriteBackProofs`): `[]LocalNotStale`
  and `NoRollback`, assuming `-s` (`~MultiThreaded`) and no `rename`, for all outcomes of
  transfers. `SerialInv` says that at most one callback runs; that neither the device nor
  a local copy has a version that was not made, and a local copy that exists is not older
  than the device (`FileAt`); and that what the callback in progress transfers is still
  what its source holds (`Transfers`): the pull the device's content, the push the local
  copy's. The last part is why `-s` is needed, and `FileAt` also says that no entry was
  renamed, so that `flush` pushes the file's own local copy.

**FileCache**

* `TypeCorrect` (`FileCacheProofs`): `[]TypeOK`, from `TypeInv`, which adds which
  callbacks can be at which step (`RunOK`): only those that invalidate last reach
  `invalidating1`, only `rename` reaches `invalidating2`.
* `CoherentCorrect` (`FileCacheProofs`): `[]Coherent`. `QuietInv` says of a quiet path that
  what is cached and what a lookup is about to put is what the device has, or the output
  of a broken connection, and that no callback in progress will change it. A path becomes quiet at the end of a
  callback that nothing overlapped: `AloneInv` says that no other callback concerns its
  paths then, `EmptyInv` that nothing has been cached about a path it invalidated first,
  although it looks the directory up in between.

**NetCat**

* `TypeCorrect` (`NetCatProofs`): `[]TypeOK`, which includes that the mutex is held by
  the one thread that sends or reads (`MutexInv`), whatever the commands print and the
  paths hold.
* `OwnOutputCorrect` and `PipesEmptyCorrect` (`NetCatProofs`): `[]OwnOutput` and
  `[]PipesEmpty`, assuming that no output holds the end marker (`~MarkerText`).
  `NetCatInv` says that the thread that holds the mutex is the one that sends or reads,
  that what is on its way belongs to that thread's call, continues what it has read, and
  ends with the marker (`Continues`), at each of the stages of a command (`Sent`, `Ran`,
  `Echoed`, and `Swallowed` when an open quote has taken both lines) or after netcat has
  ended, and that the pipes are empty while nobody reads.
* `MarkerComesCorrect` (`NetCatProofs`): `[]MarkerComes` under the same assumption, from
  the same invariant: at every stage of a command but `Swallowed` its marker, or the echo
  that prints it, is on its way. It is the safety half of `MutexReleased`: nothing but an
  open quote makes a call wait for what cannot come.
* `ShellImplemented` (`NetCatProofs`): `Spec => ImplementsShell` under the same
  assumption. Entering a call maps to `Ask`, giving up the mutex to the return of the
  first lines of the call's own output (`FirstLines`), and everything else to a stutter or
  the end of the connection.

**OpenDirs**

* `TypeCorrect` (`OpenDirsProofs`): `[]TypeOK`, which includes that `inReleaseDirMutex` is
  owned by exactly the handle in a critical section. `MutexInv` adds that the flag of the
  condition is set exactly while `releasedir` has it, `PathInv` that a directory keeps its
  name while `opendir` or `readdir` runs on it.
* `ReadsOwnListingCorrect` (`OpenDirsProofs`): `[]ReadsOwnListing`. `AloneInv` says that
  the map has no listing of the directory before a lone handle inserts one, and keeps that
  one until the handle erases it. That there is none before needs `EraserInv`: a
  listing in the map is left over from a rename or removal or belongs to a handle that will
  erase it.
* `NobodyWaitsCorrect` (`OpenDirsProofs`): `[]NobodyWaits`. `adbnc_releasedir` sets and
  resets the flag of the condition within one critical section, so by `MutexInv` an
  `opendir` that has got the mutex never finds it set: the wait of `OpenLock` is never
  taken, although the model has it, and `pthread_cond_signal` has nobody to miss.

**AccessCheck and Lifecycle**

* `AccessCorrect` (`AccessCheckProofs`): for every user, every file, every path outside the
  memory card below directories the user may search, and every list of mounts in which
  none hides an earlier one, what `Access` grants `DeviceAccess` grants; for a user other
  than root, where the options of the mount apply to the type of the file, and when the
  file does not exist, the two are equal. The bits are compared case by case
  (`SameRights`).
  For the options (`SameOptions`), the code walks up to the deepest mount point and
  takes its first line; the device takes the last line at or above the path. The
  deepest mount point exists because lengths are bounded (`Greatest`,
  `DeepestMountPoint`), and under `NothingHidden` no later line is at or above it and
  also at or above the path: both choose the same line. The line of the memory card
  that the program adds is never at or above the path.
* `TypeCorrect` (`LifecycleProofs`): `Spec => []TypeOK`, from `TypeInv`, which also says
  that a mount table is one made from a possible mount list.
* `AccessAlwaysAgrees` (`LifecycleProofs`): `Spec => []AccessAgrees`. `ReadInv` says that
  what an instance has read is the user of the device and the table of the mounts in
  `asOf`; both parts of `AccessAgrees` follow with `AccessCorrect`.
* `MountedStaysConnected` (`LifecycleProofs`): `Spec => []MountedConnected`.
  `MountedConnected` speaks of the last step only; `ConnInv` says what each step of the
  set-up has established: from `remote` on the port is forwarded, from `user` on the
  netcat runs, too, from `mounting` on the instance is connected (`Checked`), and there
  is no netcat before (`NoneYet`), unless the instance is in `disturbed`. A step that
  takes the port or the netcat away puts every instance into `disturbed` for which
  that makes `Checked` false (`TakenChecked`); all other steps keep both
  (`OthersChecked`).
* `LastCleansUp` (`LifecycleProofs`): `Spec => CleanedUp`. While several instances run, one
  may leave a netcat that another has started after it looked. `CleanInv` says that it then
  leaves it to somebody: if an instance whose tear-down worked so far is past killing the
  netcat that runs (`Past`: also when it is about to kill an earlier one, by its pid), there
  is an instance that is not, and the same of the port and its removal. An instance
  that is killed or whose command fails puts all that tear down into `spoiled`.

**Spawn**

* `TypeCorrect` (`SpawnProofs`): `[]TypeOK`. `CallInv` adds which numbers a call in
  progress has been given.
* `NoLeakCorrect` (`SpawnProofs`): `[]NoLeak`. `OwnedInv`: an end of a pipe that is open is
  so under the number the pipe was made with, and its call has not given that number back.
* `FilesKeptCorrect` (`SpawnProofs`): `[]FilesKept`. `IntactInv`: the number of a file that
  was opened while no call ran is open on it, and is neither one of a call in progress nor
  that of another file; a later call gets other numbers, since this one is not free.
* `SoundOutputCorrect` (`SpawnProofs`): `[]SoundOutput`. `SoundInv` says of a call that made
  its pipes while no other ran that the numbers it has not given back are open on the ends of
  its pipes and are nobody else's, so that both its buffers open and its reads do not
  fail, and where the output of its program is at each step;
  `FreshInv` that nothing is in the pipes of calls that have not been made.

The assumptions are the named `ASSUME`s of the modules, which TLC evaluates in their
runs: `WriteBack` (`NamesAssumption`, `ParametersAssumption`), `FileCache`
(`PathsAssumption`: among others, a directory is another path than what is in it;
`WorkloadAssumption`), `NetCatAssumption`, `OpenDirsAssumption`, `SpawnAssumption` (`None`
is no number, file or end of a pipe), `AccessCheck` (`PathsAssumption`: the memory card is a
path, and `None` is not) and `LifecycleAssumption`; and the hypotheses named above, each of
which a run satisfies.

Model-checked only, because a proof of liveness under fairness needs `ENABLED`, which is
out of reach of TLAPS as it is used here: `EventuallyCurrent`, `MutexReleased`, `CallsReturn` of `OpenDirs` and of `Spawn`, and
`TearDownEnds`. The properties of the runs that expect a violation do not hold.

## 5. Plan

Done: every module of section 2, and a theorem for every safety property of section 3.
What is left is the safety half of `CallsReturn` of `Spawn`: a read in progress has output
to read, or a program that will end.

## 6. Not modelled

`adbnc_statfs` and the parsing of what `stat`, `df`, `id` and `mount` print are
conversions without state. `makeLocalPath` is a constant function that the models assume
to be injective; in the code `/a-b` and `/a/b` share a local copy, and no property here
holds for such a pair. Log output and the debug option have no properties. The
bytes of a file, its attributes and offsets within it are abstracted to versions; a
partial transfer is a failed one. Changes of the device from elsewhere are left out of
`WriteBack` (its properties would not hold) and are `Change` in `OpenDirs`. See
`components` in `PROJECT.json` for every part and its reason.
