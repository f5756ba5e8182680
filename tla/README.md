# wiscAFS in TLA+

wiscAFS is a distributed file system after AFS.  Its clients are FUSE file
systems that fetch whole files from a server, work on local copies, and send a
file back when it is closed.  This directory holds specifications of it in
TLA+, the TLC configurations that check them on small instances, and theorems
about them that TLAPS has proved.  `PROJECT.json` maps every definition to the
lines it models, and lists the runs, the mutants, the hazards and the theorems.

- [The system](#the-system)
- [The modules](#the-modules)
- [The runs](#the-runs)
- [Where the code departs from its documentation](#where-the-code-departs-from-its-documentation)
- [The theorems](#the-theorems)
- [What is not modelled](#what-is-not-modelled)
- [Plan](#plan)

## The system

    application --(FUSE)--> wiscAFS_ops.cc --> wiscAFSClient --(gRPC)--> wiscAFSImpl --> file system
                                                   |                      (server)
                                               DiskCache, <inode>.tmp

| component | source | state | operations | modelled in |
|---|---|---|---|---|
| server, file contents | `wiscAFS/wiscAFS_server.cc` | none of its own: names, inodes and descriptors of the file system below | OpenFile and CloseFile (streams of 1024-byte messages), CreateFile, RenameFile, DeleteFile | `AfsServer` |
| server, names and attributes | the same | none of its own: directories, permissions | GetAttr, AccessFile, ReadDir (a stream of entries), CreateDir, RemoveDir, Chmod; GetXAttr, StatFS | `AfsNames`, but for the last two |
| client library | `wiscAFS/wiscAFS_client.cc`, `.hh` | `clientSem`; the local copies `/tmp/afs/<inode>.tmp` | OpenFile, CloseFile, CreateFile, WriteFile, RenameFile, DeleteFile, TruncateFile, GetAttr; CreateDir, RemoveDir, OpenDir, ReadDir, AccessFile, Chmod | `AfsClient`, `AfsNames` |
| client cache | `wiscAFS/cache/ClientCache.h` | a map from path to inode, dirty bit, descriptor; a file it is saved to | add, get, update, delete, rename, load, save | `AfsClient` |
| FUSE operations | `unreliablefs/unreliablefs/wiscAFS_ops.cc` | `wiscOPSem`; `fi->fh` of each open file | open, create, read, write, flush, release, rename, unlink, truncate; getattr, mkdir, rmdir, opendir, readdir, access, chmod | `AfsClient`, `AfsNames` |
| error injection | `unreliablefs_errinj.c` | a queue of injections, a mutex | error_inject, config_init, config_delete | `ErrInj` |
| pass-through operations | `unreliablefs_ops.c` | none | ask error_inject, then one system call each | partly, `ErrInj` |
| configuration parser (inih) | `conf.c` | section and name while it reads | ini_parse, conf_option_handler | partly, `ErrInj` |
| errno tables | `unreliablefs_errno_linux.h` | none | | as names, `ErrInj` |
| wrapper, demo, tests | | | | no |

What makes it hard:

- **The server's handlers run on a thread pool and take no lock.**  What
  orders them is the file system: an upload is collected under a temporary
  name and published by `rename()`, and a download holds a descriptor of an
  inode that may lose its name at any time.
- **Streams end for several reasons** (their end, a client that crashes, a
  server that goes away, a local failure), and neither end tells them apart:
  the results of `Finish()` are not looked at.
- **Paths are looked up by every system call anew.**  An upload makes its
  temporary file and renames it by path, while other handlers rename and remove
  the directories on that path; a listing goes on in a directory that changes.
- **Refusals and failures are not told apart from success.**  A create that the
  server refuses comes back as a Status that is OK; `chmod`, `rename`,
  `access` and `opendir` report success whatever happened.
- **Crashes.**  The server leaves temporary files behind.  A client loses its
  open files and gets back part of its cache.
- **A client has two semaphores and a table of returns** that must post them;
  `wiscAFS_write` and `wiscAFS_read` take neither.
- **A local copy is named by an inode number of the server.**  Every upload
  gives its file a new inode, and the numbers of old ones are used again.
- **The error injection reloads its configuration while it is asked.**  An
  operation on the configuration file frees the queue that other threads walk,
  and a thread may sleep in the middle of its walk.

What should be true of it, component by component: an upload is atomic and a
download is a snapshot (server); what a close leaves on the server is what the
application wrote, and an open finds what the last close left (client, with
the server); an operation on names changes the tree at one moment, and no
directory disappears with files in it (names); one operation is in the library at a time and each returns
(semaphores); the dirty bit says whether the application has written, and a
cache entry leads to the local copy that is in use (cache); an operation is
decided by one configuration, the queue says what the file said when it was
loaded, and nobody walks a freed queue (error injection).

## The modules

| module | what it is |
|---|---|
| `FileData` | a file as a sequence of chunks; `write()` and `truncate()` on it |
| `FileStore` | abstract: what the server promises its clients |
| `AfsServer` | the server, one action per system call that other handlers can see |
| `MCAfsServer` | instances for TLC |
| `AfsServerProofs` | the theorems about `AfsServer` |
| `CloseToOpen` | abstract: what the whole system promises applications |
| `AfsClient` | the clients above a `FileStore`, one action per step that another thread can see |
| `MCAfsClient` | instances for TLC |
| `AfsClientProofs`, `AfsSessionProofs`, `AfsConsistencyProofs` | the theorems about `AfsClient`: for all faults, for files that are not shared, and the refinement |
| `Namespace` | abstract: what the server promises about directories, names and permissions |
| `AfsNames` | the handlers for names, with the uploads and their temporary files, and what the client tells its caller |
| `MCAfsNames` | an instance for TLC |
| `AfsNamesProofs` | the theorems about `AfsNames`, the refinement among them |
| `ConfFile` | the configuration file, and what it says by the positions of its lines |
| `Injector` | abstract: what the error injection promises, by the manual's rules or by what the code keeps of them |
| `ErrInj` | the error injection and the operations that ask it, one action per step under the mutex |
| `MCErrInj` | an instance for TLC |
| `ErrInjProofs` | that the mutex protects the queue |
| `ParserProofs` | that the parser reads every file as `ConfFile` says |
| `ErrInjRulesProofs` | that `ErrInj` implements `Injector`, and that its mutex is given back |

`AfsServer` implements `FileStore`; `AfsClient` uses a server that is a
`FileStore` and implements `CloseToOpen`.  The two fit where `AfsServer`
needs no fault: uploads of one path do not overlap.  `AfsNames` implements
`Namespace`; it looks at the same server from the side of its directories, and
leaves contents to the other two.  `ErrInj` implements
`Injector`; it stands alone, for the operations that applications notice most
(`open`, `read`, `write`, `release`, ...) are served by `wiscAFS_ops.cc`, which
asks for no errors.

### AfsServer

`dir` and `tmp` are the two names of a path (`path` and `path.ttmmpp`), `data`
the contents of inodes, `file` and `off` the descriptors of the server
process, `call` what each thread of the pool is doing (its local variables:
descriptor, `sz`, messages written), and `got` what the last OpenFile stream
of a thread has carried.  A chunk is the contents of one message.  `sz` is
kept in chunks; since it is counted down only by whole messages of 1024, a
short last chunk leaves it at 1 (`SendChunk`), and the loop then ends by
`StopAtEndOfFile` and not by `SendEmptyChunk`.

| action | code |
|---|---|
| `OpenFile`, `OpenFileFails` | lines 143-187, up to the loop |
| `SendChunk`, `SendEmptyChunk`, `StopAtEndOfFile`, `ReadFails` | one turn of the loop, 187-242 |
| `CloseFile` | the first message, 327-349: `open(tempPath, O_TRUNC)` |
| `WriteChunk`, `WriteFails` | `write()`, 351-365 |
| `EndOfStream` | `close(fd); rename(tempPath, path)`, 370-384 |
| `UnlinkTemp` | `unlink(tempPath)`, 387 |
| `StrayClose` | a stream without messages: `close()` of an uninitialised `fd` |
| `CreateFile`, `CreateOverExisting`, `RenameFile`, `DeleteFile` | 402-531 |
| `Crash` | the end of the process; names and contents survive |

`Faults` selects what may happen beyond that: `"overlap"` (uploads of one path
at the same time), `"cut"` (a stream cut by its client), `"clobber"` (a create
with O_TRUNC of a path that exists), `"stray"`, `"wronly"`.  Failing writes and
crashes of the server are always possible.

The close of the stray descriptor is the choice of any descriptor that is
open; closing one that is not changes nothing.  The same in `AfsClient`: the
uninitialised `fileDescriptor` of an open without messages is -1 (`NoFd`), or
any descriptor, open for another file or closed.  `pwrite()` fails on a closed
one, and `WriteFile` marks the entry dirty all the same; with -1 it does not
get there.

### AfsClient

`dir` and `data` are the server; `cache`, `local`, `file`, `opSem` and
`clientSem` belong to each client, and `app` says for each application which
call it is in or which file it has open.  The descriptor in a cache entry is
left out: nothing but the request field `filedescriptor` is made of it, and
the server does not read that.  `wrote` is a history variable.

| action | code |
|---|---|
| `OpenFile`, `OpenLocalCopy`, `StoreMessage`, `EndOpen`, `OpenVanished` | `wiscAFS_open`, `wiscAFSClient::OpenFile` |
| `OpenNoCopy`, `StoreFails` | the same, when `open()` or `write()` of the local copy fails |
| `CreateFile`, `EndCreate`, `CreateNoCopy` | `wiscAFS_create`, `CreateFile`: the RPC, then the local copy and the cache |
| `CreateOverExisting`, `CreateRefused`, `CreateLost` | the RPC of a create that finds a file, that the server refuses, that fails |
| `PWrite`, `PWriteFails`, `WriteFile` | `wiscAFS_write`: `pwrite`, then the dirty bit, with no semaphore held |
| `ReadBadFd` | `wiscAFS_read` with the descriptor -1: a `sem_post` without a wait |
| `CloseUnsent`, `CloseFile`, `SendMessage`, `EndClose`, `CloseNoCopy`, `SendFails`, `CloseLost` | `wiscAFS_flush` and `wiscAFS_release`, `CloseFile(release = false)` |
| `RenameFile`, `RenameDirectory`, `EndRename`, `RenameLost` | the cache first, then the server |
| `DeleteFile`, `DeleteLost`, `TruncateFile` | one step each |
| `Crash` | the client process ends and a new one calls `loadCache` |

Operations that hold both semaphores and touch nothing in between that another
thread of the client can reach are one step.  Flush and release are one step
as well: `wiscAFS_release` only closes the descriptor.  With `"dup"` in
`Faults` a flush without a release is possible (an application that closes one
of two descriptors of an open file).

What is taken from the FUSE library, and appears as guards: it looks a path up
before it opens or creates it (`Exists`); it locks a path while it is renamed
or removed, so that no write of it is in progress (`Renaming`, the guards of
`RenameFile`); and it renames files that are open instead of removing them.

`Faults` is what may happen beyond an application at a time per file:

| fault | what happens, and what the client makes of it |
|---|---|
| `"shared"` | two applications of one client have one file open, or one local copy |
| `"moved"` | an open file is renamed by another application |
| `"dup"` | a flush without a release |
| `"vanish"` | a download without messages: the open succeeds without a descriptor |
| `"down"` | the server goes away in the middle of a stream |
| `"crash"` | the client crashes; it starts again only after the server has seen that its streams have ended |
| `"truncate"` | truncation, of the local copy alone |
| `"late"` | a create finds a file that another client has made since the lookup: the server opens it with the client's flags, and sends what it holds as a C string |
| `"refused"` | the server refuses a create, and the client goes on with inode 0 (`Zero`), whose copy `0.tmp` all refused creates share |
| `"lost"` | an RPC without a stream fails, before or after the server has carried it out |
| `"disk"` | a local copy cannot be opened, read or written |

A call that fails before the server has it, and whose only effect is the answer
(a create, say), is a stuttering step; one that fails after it is `CreateLost`,
or, where the client does the same as after a success, the action of the
success (`EndRename`, `DeleteFile`).

Descriptors that the error paths of OpenFile and CloseFile do not close: those
of `StoreFails` stay open in the model, so that `Fd` runs out and
`OpenLocalCopy` gives way to `OpenNoCopy`; the one CloseFile opens for reading
is not counted.

A directory that is renamed has no entry in the cache, and the entries of the
files below it keep their old paths: `RenameDirectory` is that for one file of
the directory.

A write starts in the file or at its end (`PWrite`); one behind the end, which
leaves a hole, does not occur.  Two paths of one client come to share a local
copy also when the server uses the inode number of an open file again; the
guard `InUse` counts that as `"shared"`, whose consequences are those of a
second open.

A lost close (`CloseLost`) may leave the server as it was or not: the second is
`EndClose`, for the client returns the same.

### AfsNames

`dir` leads from the name of a directory to its inode, or to `None`; `file` and
`temp` are its entries, a file `n` and the temporary file `n.ttmmpp` of its
uploads, each with its permissions and its author, by whom the properties tell
one version of a file from another.  `call` is the stream each client has with
the server, and `answer` what the operation that was decided last says to its
caller: the client overwrites statuses and does not look at others, so that the
answer is part of what is modelled.

| action | code |
|---|---|
| `CreateDir`, `RemoveDir`, `RenameDir` | `mkdir()`, `rmdir()`, `rename()` in the handlers, and the client's reading of the reply |
| `RenameFile`, `CreateFile`, `DeleteFile`, `Chmod` | the same for files; contents are left to `AfsServer` and `AfsClient` |
| `GetAttr`, `GetAttrCached`, `GetAttrDir`, `AccessFile`, `OpenDir` | what is reported of a path |
| `CloseFile`, `CloseRefused` | an upload makes its temporary file, or finds no directory for it (327-349) |
| `EndUpload`, `UnlinkTemp`, `WriteFails` | `rename()`, `unlink()`, and a `write()` that fails (358-387) |
| `ReadDir`, `SendEntry`, `EndListing`, `CutListing` | `opendir()`, one turn of the loop of `readdir()`, its end, a stream that is cut |
| `Crash`, `CutReturns` | the server crashes, and the clients of its streams notice |

A handler of one system call is one step together with the client's answer:
the server's state at that system call is all that the answer depends on.
`"lost"` makes it possible that the answer is that of a call that failed,
whether the server has carried it out or not.

`readdir()` is taken to return, one after the other in a fixed order (`Place`),
the entries that are there when their turn comes.  The history variables `ever`
and `always` of a listing are what the directory held at some time, and all the
time, since it was opened; `ListingWhole` compares what was sent with them.

An upload keeps `id`, the directory its temporary file was made in, for the
properties; the handler knows only the path, and looks it up again in
`EndUpload` and `UnlinkTemp`.  With `"moved"` another directory may have come
to that name by then.  Two uploads with one temporary file are left to
`AfsServer` (`Overlaps`).

`Namespace` has one step per operation.  What it concedes: a file that is put
back has all permissions (`Close`), whatever `chmod` had set; a create is not
exclusive, and one that is refused succeeds; `access()` and `opendir()` never
fail; `rmdir()` may refuse a directory that looks empty (a temporary file is in
it); a cached file is reported with all permissions, whether it is there or not
(`GetAttr`); a call that is lost has an error for its caller, whether or not the
server has carried it out (`LostOnFile` and its like); with `"moved"`, `"crash"` or `"disk"`, a close may leave nothing on
the server (`CloseGone`), or, with `"moved"`, an older version (`CloseOther`).
The first of these is not what the slides say of permissions: `PermissionsKept`
states that, and `names_chmod` shows where it fails.

### ErrInj

`file` is the contents of the configuration file, which somebody edits below
the mount point; `errors` and `mutex` are the fields of `conf`; `call` is what
each process's operation is doing (its local variables: `at`, the position of
`TAILQ_FOREACH`, `rc`, and whether it has slept); `killed` are the processes
that got the signal.  `loaded` is a history variable, the contents
`config_init` read last.

| action | code |
|---|---|
| `Call` | an operation of the FUSE table begins; only the sixteen in `Hooked` go on to `error_inject` |
| `Lock` | `unreliablefs_errinj.c`, 173-183: `pthread_mutex_lock`, the test for the configuration file and the test for NULL |
| `ConfigDelete`, `ConfigInit` | 175-176, the reload |
| `NotTriggered`, `InjectNoop`, `InjectErrno`, `KillCaller`, `Slowdown` | one turn of the loop, by the type of its entry |
| `Wake` | `nanosleep` returns |
| `Unlock` | `cleanup` |
| `ReturnNoop`, `ReturnErrno`, `SystemCall`, `RefuseFallocate` | what the operation in `unreliablefs_ops.c` does with the answer |

`config_init` applies `ini_parse_line` to one line of the file after the other
(`ini_parse`, a recursive function), and that `conf_option_handler` to each
option; `Meaning` of `ConfFile` says the same by positions (which header is the
last above a line, which name an indented line continues, which line is the
last that sets an option).  An indented line below a name is another value of
that name, its whole text, whatever it looks like (`conf.c:173-178`): an
indented `100` sets a probability, an indented `/b` a regular expression, and
an indented header or `key = value` is taken for neither.  A text is what
each option would make of it: the set of paths and the set of operations it
matches as a regular expression, `{}` if `regcomp` refuses it, and what `atoi`
returns.  An errno is the table it is in.
`rand_range(0, n)` has `n + 1` values, so that `RANDOM_ELEMENT` may read the
element behind a table: `PastEnd` is what can be found there, and `"pass"`
among it is a 0, which lets the operation through.  The result of the system
call is left open (`"system"`).

`Injector` has one step for a decision, which takes any set of injections that
includes the certain ones and lets the last of noop and errno in the file
decide.  A reload takes effect at `ConfigInit`, a decision at `Unlock`, or at
`Lock` when there is no queue.  `Injector` is instantiated twice.  `Manual` is
what the manual (`unreliablefs.conf.5`) says: `AtZero` is FALSE, so that an
injection of probability 0 never happens, and `PastEnd` is empty, so that
an errno comes from its table.  `Rules` is what the code keeps of it: `AtZero`
is TRUE (`p <= 0` holds for one number in 101), and `PastEnd` is that of
`ErrInj`.  `ErrInj` implements `Rules` (`ImplementsInjector`), does not
implement `Manual` (`errinj_manual`), and does so where neither difference can
show (`ManualIsKept`).  What an operation cannot know from one decision, that
one in 101 is injected or that a probability of 30 means about 30, is not
stated.

## The runs

All runs finish: the bounds below and the guards on `MaxLen`, `MaxSem` and
`MaxReply` make the state spaces finite.  Deadlock is checked in all of them.

| run | instance | shows |
|---|---|---|
| `server_store` | 2 paths, 2 threads, 4 inodes, 2 descriptors, uploads `ab` and `c`, no faults | `PublishedWhole`, `OpensAnswered`, the inductive invariant `IInv`, and that the server implements `FileStore` |
| `server_cut` | the same, with `"cut"` and `"clobber"` | `PublishedPrefix`, `TempOwned`, `DescriptorsHeld`, `DownloadsUnmixed`, `NamesDistinct`, `PathsPersist` |
| `server_faults` | 1 path, 2 threads, 2 inodes, uploads `aa` and `a`, all faults, fairness | `TypeOK`, `NamesDistinct`, `PathsPersist`, `CallsReturn` |
| `client_session` | 2 clients with an application each, 2 paths, 3 inodes; `"late"`, `"refused"` | `IInv`, `WritesWrittenBack`, and that the clients implement `CloseToOpen` |
| `client_apart` | 1 client, 2 applications, 2 paths, 3 inodes, 2 descriptors; `"down"`, `"crash"`, `"truncate"`, `"lost"`, `"disk"` | `IInv`, and the same for the weakened `CloseToOpen` |
| `client_faults` | 1 client, 2 applications, 1 path, 2 inodes, 2 descriptors, copies of up to 2 chunks, all faults of one client but `"moved"`, fairness | `TypeOK`, `OneLibraryCall`, `OperationsReturn` |
| `names` | 2 clients, 3 directories, 1 file name, 2 inodes, 2 permissions, all faults | `IInv`, `ListingWhole`, and that the handlers implement `Namespace` |
| `errinj` | 2 processes, operations `fsync`, `fallocate` and `release`, a path and that of the configuration, 7 contents of the file; fairness | `TypeOK`, `WalkProtected`, `QueueInForce`, `MutexComesFree`, and that the error injection implements `Injector` |
| `server_overlap`, `client_reopen`, `names_chmod`, `errinj_manual` | | counterexamples, see below |

**Why the bounds are enough for the cases that matter.**  Two threads are what
a race of handlers takes; with two paths a file can be renamed over another;
files of two chunks have a state in which half of one has been sent.  4 inodes
are 2 names of 2 paths; fewer than that makes an open
wait until a number is free, and 3 in the client runs make sure that numbers
are used again while the local copies of their old files are there.  In
`server_faults` an unwritten hole is taken to be the chunk `a`: none of the
properties of that run looks at contents.  `MaxReply` bounds the messages of
one stream, which overlapping uploads and a growing file could make endless; it
is 3 there, one more than a file has.  `CallsReturn` excepts a download that has
reached the bound while no upload is as long, and one whose descriptor a stray
`close()` has taken and that reads another file (`Astray`).
`MaxSem` bounds how often `wiscAFS_read` may post a semaphore.

In `client_faults` a copy has up to two chunks, so that an upload sends more
than one message and others can write to, truncate and refill the copy between
two of them.  An upload reads to the end of its copy
(`wiscAFS_client.cc:179-220`), and a writer that stays ahead of it would keep it
going for ever, and every other call of the client waiting for the
semaphores: `OperationsReturn` holds because a copy stops growing at `MaxLen`,
and says no more than that.  With one path nothing is renamed in that run; the
returns of the rename are in `client_session` and `client_apart`, and for the
semaphores in `OneCallAtATime`, which is about all faults.

In `names`, three names for two directories let a directory be renamed away
and another one come to its name while an upload or a listing is in progress,
and an inode is used again as soon as its directory is removed and closed; a
file and its temporary file make a listing of two entries, in which each order
of what is passed and what is still to come occurs.  With one file name,
renames of files go from directory to directory.

In `errinj`, `fsync` stands for the operations that only ask, `fallocate` for
the one with a refusal of its own, and `release` for those that do not ask.
The contents of the file (`MCErrInj`) are chosen so that noop and errno compete
for an operation, a walk sleeps and kills, a section is repeated, a
probability is negative, and each line the parser treats in a way of its own
occurs: an option before the first header; a continuation that is a number, a
regular expression, a header, an option, or a text without "="; an indented
line with nothing to continue; an option with an empty key; an unclosed header
or a line without "="; an unknown section and key.  Besides, the file may be
absent or unreadable.
`MaxProbability` 2 gives a probability that never, sometimes and always
triggers besides 0; `Width` 8 stands for 2^32 and only has to be above it;
`MaxNsec` 1 separates the durations `nanosleep` takes from those it refuses.

**Symmetry and views.**  Paths, threads, inodes, descriptors and chunks are
symmetric where no constant tells them apart.  Of the runs with fairness only
`client_faults` uses symmetry, of paths, inodes and descriptors: its property
and its fairness are about one application each, and say the same of a
behaviour whatever the names of those are (`LiveSym`; applications are not
exchanged).  The same run's `LengthView` drops what files hold but not how
much, what has been written, and copies that nothing leads to: no guard looks
at any of it when `"late"` is not among the faults, nor does the property.  `LiveView` of
`MCAfsServer` drops the data of free inodes and the answers of calls that have
returned, on which no step and no property of that run depends.  `NoAnswer` of
`MCAfsNames` drops `answer`, which no step reads: the steps that differ only in
it are all checked, for TLC checks a step before it looks the state up.  `LiveView` of
`MCAfsClient` drops the data of inodes without a path, local copies no
descriptor leads to (every way to such a copy, `OpenLocalCopy` and `EndCreate`,
empties it first), and, without truncation, which inode an entry names and
whether it is dirty while nobody has its path open (`OpenLocalCopy` replaces
both; what `Exists` and `Added` see of it, that it is there, is kept).

**Fairness.**  `FairSpec` says that a step of a call that has begun is taken
if it stays possible (`WF_vars(Proceed(...))`): gRPC's and FUSE's threads run,
and the other end of a stream keeps sending or is seen to be gone.  No fairness
is assumed of requests, crashes, lost streams or new calls.  In `ErrInj`
fairness is for a thread inside `error_inject` and behind it: `nanosleep`
ends, and the walk goes on.  None is assumed of who gets a free mutex, so that
`MutexComesFree` is about the ways out of the critical section alone.

**Mutants.**  Each property of a passing run has a mutant in `PROJECT.json`: a
definition with a plausible mistake (its comment begins "Deliberately wrong"),
under which TLC finds the property violated.

**CloseToOpen weakened.**  `CloseToOpen` says in actions of their own what is
left when something fails: after `"down"`, an application may have got the
front part of its file (`OpenCut`), and what it closes may be lost
(`CloseLost`); after `"crash"`, the front part of a file that was being put
back may be in the store; with `"truncate"`, a truncation is seen by whoever
has the file open but does not count as a write, and an empty file is never put
back (`CloseEmpty`).  With `"late"` a create may get
the file it finds, or empty it (`CreateOver`, `CreateFound`); with `"refused"` it
gets a new file whatever is there, whose close replaces that; with `"lost"` a
create that failed may have left a file (`CreateLost`); with `"disk"` a write
that failed counts as one, and a close may be lost or leave the front part of
the file.  Only `"late"` and `"refused"` are there in `client_session`: what is
opened is what was closed last.  A
truncation acts on the copy the cache entry of its path names, and that entry
may be an old one whose inode number another path uses by now: `Truncate` of
the abstract module is therefore not tied to a path.

## Where the code departs from its documentation

| run | what TLC shows |
|---|---|
| `server_overlap` | Two overlapping closes of a file share `path.ttmmpp` (line 339): what is published mixes their chunks.  The report says that the last closer's data is retained. |
| `client_reopen` | A second open on the same client empties the local copy under the first application and clears its dirty bit (`wiscAFS_client.cc:69`, 90): what the first one wrote is lost. |
| `names_chmod` | A close publishes its temporary file with permissions 0777; the calls that would restore the mode are commented out (`wiscAFS_server.cc:371`, 390).  The slides say "Permission on server should match the permission locally cached files". |
| `errinj_manual` | A noop of probability 0 replaces an operation (`unreliablefs_errinj.c:185-186`).  The manual says "Probability equal to 0 means that error injection will never happen". |

Without a run of their own, but allowed for in the models, where they are what
an action does:

- `open(O_WRONLY)` of a file that is not empty: the server reads from the
  write-only descriptor, sends nothing and leaks it (216-223); the client uses an
  uninitialised descriptor (`"wronly"` in `server_faults`, `"vanish"` in
  `client_faults`).
- A truncation never reaches the server (`wiscAFS_client.cc:481`), so that the
  next open undoes it: `CloseToOpen` concedes it (`Truncate`).
- A rename of an open file onto a name the cache knows has the same consequence
  as `client_reopen`: `renameCacheValue` keeps the old entry
  (`ClientCache.h:230`), and what was written is not uploaded.  That takes
  `"moved"`, which no run has; `TypeCorrect` and `OneCallAtATime` are proved with
  it.
- A create with O_EXCL succeeds for two clients at once, and a listing that is
  cut is passed on as a complete one: `Namespace` concedes both.
- A duration of a second or more gives no slowdown at all (`Slow` of `Injector`),
  an errno may be read behind its table (`PastEnd`), and the operations of
  `wiscAFS_ops.cc` neither ask for errors nor reload the configuration.

## The theorems

### AfsServerProofs

`AfsServerProofs` proves, for every value of the constants that satisfies the
assumptions of `AfsServer` (`NoIno` is no inode, `NoReply` no file, `Content`
consists of non-empty sequences, `Faults` of fault kinds):

| theorem | assumes of `Faults` | states |
|---|---|---|
| `TypeCorrect` | nothing | `[]TypeOK` |
| `NamesAreDistinct` | nothing | `[]NamesDistinct` |
| `TempsAreOwned` | no overlap, no stray close | `[]TempOwned` |
| `UploadsAreWhole` | none of overlap, stray, cut | `[]PublishedWhole` |
| `UploadsArePrefixes` | no overlap, no stray close | `[]PublishedPrefix` |
| `ServerInvariant` | no fault | `[]IInv` |
| `ServerIsFileStore` | no fault | `Spec => Store!Spec` |
| `DownloadsAreUnmixed` | no overlap, no stray close | `[]DownloadsUnmixed` |
| `NoDescriptorIsLeaked` | no write-only opens, no stray close | `[]DescriptorsHeld` |
| `PathsAreKept` | nothing | `PathsPersist` |
| `OpensAreAnswered` | none of stray, wronly, clobber | `OpensAnswered` |
| `CallsComeToAnEnd` | no overlap, no stray close | each step of a call lowers a bound on the steps it has left, and no other step raises it |

`NamesDistinct` is inductive with the types: all handlers that give an inode a
name either take a free one or move a name.  `TempOwned` is not: a step that
ends an upload must not be a step of another upload of the path, which takes
`UploadsApart`, and a write must not go to another upload's file, which takes
`FdsApart`; `UploadInv` adds `Collected`, what is in a temporary file in terms
of what was sent.  `PublishedWhole` follows step by step from `UploadInv`,
because the only step that changes what a path names is the rename of a file
with `sent = Len(src)`; `PublishedPrefix` in the same way for any `sent`.
`IInv` adds what a download knows of its file (`Carried`), which needs
`TempsUnread`: no temporary name leads to a file that is being streamed, so
that no upload writes to it.  `TempsUnread` by itself is kept in more cases: it
needs only `NamesDistinct` and `FdsApart`, and that a temporary name is given to
nobody else's inode (`TempsAreNew`); but with overlapping uploads it does not
say that nobody writes to the file, for the first rename of two gives the
inode the second is writing its name.  What a reader wants is
`DownloadsUnmixed`, that a stream never carries chunks of two uploads, and it
holds as long as uploads of one path do not overlap, with cut streams, crashes
and creates that empty the file in place: what a file holds only ever was the
front part of one upload, and a file that has been emptied is not filled again.
The refinement maps `SendChunk`, `WriteChunk` and the rest of an upload to
stuttering, and `EndOfStream` to `Upload` of the whole of `src`.

`PathsPersist` needs the types alone: `EndOfStream` gives a path the file under
its temporary name, and takes no name away when there is none.
`OpensAnswered` is about what the client depends on, for an open without a
message leaves its descriptor uninitialised.  `OpensInv` says that a download
that has sent nothing yet stands at the beginning of its file, with `sz` above
0 only if the file is not empty; with `DownloadInv`, that nobody takes the file
from it, the loop ends in its first turn only through `SendEmptyChunk`.  Its
three assumptions are what the code does not rule out and the property does
not survive: an `O_WRONLY` descriptor (`"wronly"`), a create with
O_TRUNC of the file that is being sent (`"clobber"`), and a stray `close()` of
its descriptor.  Overlapping uploads do no harm to it.

`CallsComeToAnEnd` is the safety half of `CallsReturn`: `StepsLeft` counts the
chunks between a download's place and the end of its file, or those an upload
has still to write.  The first is not bounded by `sz`, which a short chunk
does not count down; that the file does not grow is
`TempsUnread` again, and with overlapping uploads it may.

### AfsNamesProofs

Under the assumptions of `AfsNames` (`None` is neither inode nor file, `Full` a
mode, `Place` injective, `Faults` of fault kinds), and for every value of
`Faults`:

| theorem | states |
|---|---|
| `NamesInvariant` | `[]IInv` |
| `NoFileIsLost` | `[]DirsNamed`: a directory without a name is empty |
| `UploadsStayInPlace` | `[]UploadsInPlace`: without `"moved"`, an upload finds its own temporary file at its path |
| `ListingsAreWhole` | `ListingWhole` |
| `NamesAreANamespace` | `Spec => Names!Spec`, the refinement |

The invariant has one part for each way in which the tree could surprise a call
in progress.  `DirsNamed` needs only the types: a system call changes what a path leads to, and
`rmdir()` and `rename()` refuse a directory with anything in it.
`UploadsInPlace` rests on it, for the temporary file is what keeps the directory
of an upload where it is, and on `UploadsApart`, for a temporary file is taken
away only by an upload of its own path.
`ListingsSound` says that a listing has sent what it went past of `always`, and
that the directory lies between `always` and `ever`; a free inode being one that
no listing has open (`FreeId`) keeps an inode from being used again under it.
`TempsFull` is what the refinement needs to map `EndUpload` to `Close` with all
permissions.  The lemmas first say what each action does to the tree
(`TreeGoesOn`) and to one call (`Begins`, `GoesOn`), and the invariant is then
kept call by call.

### AfsClientProofs, AfsSessionProofs, AfsConsistencyProofs

The three build on each other.  They use the assumptions of `AfsClient`
(`NoIno` and `Zero` are no inodes, `NoFd` no descriptor, `NoIno` is not the
contents of a file, the bounds are numbers, `Faults` of fault kinds), and two
conditions on `Faults`: `Private`, none of `"shared"`, `"moved"`, `"vanish"`
and `"dup"`; and `NoEmptying`, neither `"truncate"` nor `"disk"`.

| theorem | assumes of `Faults` | states |
|---|---|---|
| `TypeCorrect` | nothing | `[]TypeOK` |
| `OneCallAtATime` | nothing | `[]OneLibraryCall` |
| `SessionsRight` | `Private` | `[]IInv` |
| `OperationsComeOut` | `Private` | each step of an operation lowers a bound on the steps it has left, and no other step raises it |
| `WritesReachServer` | `Private`, `NoEmptying`, no `"down"` | `WritesWrittenBack` |
| `ClientsImplementCloseToOpen` | `Private` | `Spec => Consistency!Spec` |

`OneLibraryCall` is kept by each return of each operation, and its proof is about
little else: `SemInv` says that `clientSem` is 0 exactly while an application is
inside, and what is posted to `wiscOPSem` without a wait stays within the
model's bound.  A thread that enters finds `clientSem` above 0, and so
nobody inside.

`IInv` is not inductive.  That an open or a create does not take a local copy
away from an open file depends on what it found before it began, so that the
copies and paths it is going to use must stay out of the others' hands in
between; the same goes for the path that is being renamed.  `SessionInv` says
all of it as `Right(a)`, about one application and the rows of its client, and
`Apart(a, b)`, about two on one client.  A step is taken apart in the same way:
`Same(b)` says what it leaves alone, `SameRight` and `SameApart` carry the
invariant over, and each action adds its own application.  `SemsAgree`, that
nobody has posted `wiscOPSem` without waiting, is what keeps a truncation, which
waits for nothing else, out of a download.

`OperationsComeOut` is the safety half of `OperationsReturn`.  While a close
reads its copy, `wiscAFS_write` may write to any open file of the client, and
`wiscAFS_truncate` waits for `wiscOPSem` alone; what keeps the copy from
growing is that nobody else has it (`Apart`), and that the two semaphores agree
(`SemsAgree`).  Where an application shares the copy, or goes on writing after
a flush (`"dup"`), a writer that is fast enough keeps the upload from its end:
in the model only `MaxLen` stops it.

`WriteInv`, that a copy with writes in it is not empty, is what a close needs,
for the client uploads nothing of an empty copy; a truncation, or a write
that fails on an empty copy and counts nevertheless, breaks it.
`WritesWrittenBack` counts every return of a close, that of `CloseLost`
among them: a server that goes away in mid-stream (`"down"`) leaves the client
with a close that succeeds and nothing on the server
(`wiscAFS_client.cc:223-230`), so the theorem assumes that it does not.  For the
refinement it is needed without those two faults only: with them,
`CloseToOpen` concedes the lost close.

The refinement maps an open to its first step and a create to its RPC, where
the session gets its contents; a close to its last step; a download that is cut
to `OpenCut` at its end.  `CopyRight` is why the streams in between are
stuttering: what has been received, or sent, is the front part of the file,
and all of it when the stream ends.

### ErrInjProofs

`WalkIsProtected` states `[]WalkProtected` for any processes, operations,
paths, contents of the file and numbers; it uses that `Nobody` is no process
and that `Freed` is no queue.  `WalkProtected` is not inductive: a thread that
locks the mutex must find a queue that is not freed, which takes
`FreedInside`, that a freed queue means that some thread is between
`ConfigDelete` and `ConfigInit` and so holds the mutex.  `WalkInv` adds that
and the type of `call`.  The lemmas sort the actions by what they do to the
critical section: stay outside, take a turn inside, go on to the way out,
leave.

### ParserProofs

`ParserIsRight` states `ParserRight`: for every contents of the file, of any
length, `config_init` returns a queue that says what the file says
(`QueueSays`), or NULL if the file cannot be opened.  It uses
`FileAssumption`, that a file is a sequence of lines and the numbers in it are
ints (`atoi`), `NumbersAssumption`, that the numbers that count fit an unsigned
int, and `QueueAssumption`, that NULL and a freed queue are no queues.

The proof goes through the lines as the parser does.  `Agrees` says that
the parser's section and name after `n` lines are what `SectionAt` and `KeyAt`
find by looking back from there, where an indented line goes on with the name
above it and neither opens a section nor sets an option of its own, `Built` that its queue has one entry for each
injection that occurs so far, in the order of their first lines, with the last
value of each option.  The library's induction theorem takes an operator, and
cannot be used; `SetInduction` gets the same from `WFMin` and
`NatLessThanWellFounded`, about the set of the numbers for which the statement
holds.  This is why `ini_parse` is a recursive function and not a fold.

### ErrInjRulesProofs

| theorem | states |
|---|---|
| `InjectorTypes` | `[]TypeOK` |
| `QueueStaysInForce` | `[]QueueInForce` |
| `InjectionFollowsRules` | `Spec => Rules!Spec`: what the code keeps of the manual's rules |
| `ManualIsKept` | `Spec => Manual!Spec`, the manual's own, if no file configures a probability of 0 and `PastEnd` is empty |
| `HolderIsReady` | a thread that has the mutex is between its lock and its unlock, a finite number of steps from that, and the guard of its next step is true |
| `HolderComesOut` | each of its steps unlocks the mutex or lowers that number; nobody else's raises it |

With `ParserIsRight`, none of them but `ManualIsKept` assumes more than the
assumptions of `ErrInj`: besides those above, that no errno is `-ERRNO_NOOP`
(`ErrnoAssumption`).

`RuleInv` adds to `WalkInv` what a thread has made of the entries it has seen:
there is a set `fired` of injections such that each certain one among the
entries seen and concerned is in it, and `rc`, the sleep and the kill are what
`Injector` makes of `fired`.  `WalkOn` extends the set by the entry of a turn.
That the last of noop and errno wins takes that the entries come in the order
of their places in the file; that an injection of a negative probability is
certain takes `UnsignedLimit`.  When the walk is over the entries seen are all
of the queue, and the unlock maps to `Decide` with `fired` as its witness; a
reload maps to `Load`, and the turns, the sleep and the freeing of the queue to
stuttering.

The last two theorems are the safety half of `MutexComesFree`.  `HoldInv` adds
to `RuleInv` that the mutex belongs to a thread inside (`Held`).  The steps
left are two for each entry of the queue still to come; the queue they are
counted by is the one the thread walks, which nobody can replace while the
mutex is held.

### How the proofs are checked

All leaves are proved by Z3 (SMT), Zenon or LS4 (PTL).  Zenon 1.4.5 was
seen to accept goals of the form `S \subseteq A \cap B` without a proof of
them; no statement or step here has that form, the two inclusions are stated
separately.

### Model-checked only

Liveness (`CallsReturn`, `OperationsReturn`, `MutexComesFree`): the step from
the bounds that `CallsComeToAnEnd`, `OperationsComeOut` and `HolderComesOut`
give to a return needs WF and ENABLED, which are out of TLAPS's reach.
`CallsReturn` is checked with overlapping uploads and stray closes too, where
`CallsComeToAnEnd` does not hold.  What happens to files that clients do share
has its counterexample in `client_reopen`.  `names` states no liveness: its steps are those of handlers
that `AfsServer` shows to end, and its symmetry would not allow it.

## What is not modelled

- Server: short writes, failing `fstat`, `open()` or `close()` in CloseFile,
  times.
- GetXAttr and StatFS, on both sides: they read one value and change nothing.
  Chown, Fcntl, and Truncate of a path that is not cached, which do not reach the
  server.  Modes and nesting of directories (`AfsNames` has one level).
- Clients: uploads of one path by two clients at once (`server_overlap` shows
  what the server does then, so an open or a close that meets one has no promise
  to be checked against); the data race of `getCacheValue`; the names and sizes
  that GetAttr and the cache file carry besides the inode.
- `CloseFile(release = true)`, called only by the stand-alone demo.
- Attributes, links and locks that go to the local file system through
  `unreliablefs_ops.c`; the stream of ReadDir is taken to reach its caller entry
  by entry (`filler` does not fill up).
- Error injection: allocations that fail; the reading of characters in
  `conf.c` (comments, blank lines, lines longer than its buffer); values of errno; the
  directory stream that `unreliable_fsyncdir` does not close when `fsync`
  fails; the system calls behind the pass-through operations.
- The stand-alone demo and the wrapper, which nothing else uses.

## Plan

In this order; 1 to 8 are done.

1. `FileStore`, `AfsServer`: the server and its promise; runs `server_*`.
2. `AfsServerProofs`: type correctness, names, uploads, refinement.
3. `CloseToOpen`, `AfsClient`: the clients and the system's promise, with
   refused creates, lost calls and failing disks; runs `client_*`.
4. `ConfFile`, `Injector`, `ErrInj`, `ErrInjProofs`, `ErrInjRulesProofs`: the
   error injection and its promise; run `errinj`.
5. `Namespace`, `AfsNames`: directories, permissions and listings; run `names`.
6. `AfsNamesProofs`: the invariant, listings, refinement.
7. `AfsClientProofs`, `AfsSessionProofs`, `AfsConsistencyProofs`: semaphores for
   all faults; the invariant and the refinement for files that are not shared.
8. `ParserProofs`, and the bounds of `CallsComeToAnEnd`, `OperationsComeOut`
   and `HolderComesOut`.
9. A composition of `AfsClient` with `AfsServer` in place of the atomic store,
   for one path.
