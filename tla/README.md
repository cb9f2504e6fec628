# A verification project for the CS537 operating-system assignments

The repository holds three assignments: a pipe and file table for xv6 (`p3b`), a log-structured
network file server with its client library (`P4`, `P4-test`), and a parallel run-length compressor
(`p3a`). This directory has TLA+ models of them, TLC runs that check the models on small instances,
and TLAPS proofs about the pipe, about `fileread` and `filewrite`, about the file table, about the
file server's image, and about the client library.

## 1. Inventory

| Part | Source | State it keeps | Operations | What is hard about it |
|---|---|---|---|---|
| Pipe | `p3b/pipe_part1.c`, `pipe_part2.c` | lock, ring of `PIPESIZE` bytes, `nread`, `nwrite`, two open flags | `pipealloc`, `pipewrite`, `piperead`, `pipeclose` | sleep and wakeup between processes, kill, counters that wrap, the page freed by the last close |
| File table | `p3b/file_part2.c` | `ftable`: count, type, pipe or inode of each file | `filealloc`, `filedup`, `fileclose` | counts shared by processes, work done after the lock is released, error paths of `pipealloc` |
| File read and write | `p3b/file_part2.c` | `f->off`, the inode, open log transactions | `fileread`, `filewrite` | offset shared after `dup` and `fork`, a write in several transactions |
| File server | `P4-test/server.c`, `mfs.h` | the image: checkpoint region, map pieces, inodes, blocks; copies `CR`, `inode_locs` | LOOKUP, STAT, READ, WRITE, CREAT, UNLINK, SHUTDOWN | several writes per call and no transaction; killed and started again between any two |
| Client library | `P4-test/libmfs.c`, `udp.c` | the message of the call in progress | `MFS_*`, each one request and its retries | lost datagrams, timeouts, requests executed more than once, no sequence numbers |
| Earlier server and library | `P4/server.c`, `P4/libmfs.c` | as above | as above; UNLINK does nothing | log addresses computed twice, a parent inode read from nowhere, a reply on a socket nobody opened |
| Compressors | `p3a/pzip.c`, `p3a/wzip.c` (one thread) | per thread an output, in `main` the run that is open | `process`, `thread_zip`, `thread_zip_effi`, `merge`, `merge_effi` | chunks, threads in any order, runs over chunk and file boundaries, entries nobody wrote |
| Other | `p3a/unzip.c`, clients, Makefiles, compiled tests | | | `unzip.c` is commented out from end to end; the clients and tests call the above; the tests and the report `p3b/p3b.pdf` serve as documentation |

How the parts interact: `read`, `write` and `close` on a descriptor reach `fileread`, `filewrite` and
`fileclose`, which call the pipe; `pipealloc` takes files from the table and gives them back through
`fileclose`. The client library and the server exchange datagrams and share nothing. The processes of
xv6 share the pipe, the table and the inode under spinlocks and sleeplocks. The threads of `pzip`
share only the input, and `main` joins them.

What makes each part correct: the pipe is a bounded byte stream on which no call waits for something
that is already there, and its page is freed exactly once; the table counts references on every path;
a shared offset is never used for the same position twice; the image is a tree after every write; a
call of the library has the effect of one execution; the output of `pzip` expands to its input.

`PROJECT.json` lists each hazard of this code with its line and the properties that catch it, or why
none does.

## 2. Modules

| Module | Models | Extends or instantiates |
|---|---|---|
| `ByteStream` | abstract: the bounded byte stream a pipe promises | |
| `Pipe` | pipe and the two files of its ends, from `pipealloc` to `kfree` | instantiates `ByteStream` |
| `PipeProofs` | theorems about `Pipe`: lock, wakeups, ends and page | extends `Pipe` |
| `Wrap` | lemmas about counters that wrap | |
| `PipeStreamProofs` | theorems about `Pipe`: the bytes, results, and the refinement of `ByteStream` | extends `PipeProofs`, `Wrap` |
| `FileTable` | the table under `pipe`, `open`, `dup`, `fork`, `close` | |
| `FileIO` | `fileread` and `filewrite` on an inode | |
| `FileIOProofs` | the theorems about `FileIO` and their proofs | extends `FileIO` |
| `FileTableProofs` | the theorems about `FileTable` and their proofs | extends `FileTable` |
| `MFSLog` | the image, and what each handler computes from it: a reply and a sequence of writes | |
| `MFSImage` | lemmas: what holds of the image at every write, and what each kind of write does to it | extends `MFSLog`, `Wrap` |
| `MFSTree` | abstract: a tree of named directories and files | |
| `MFSServer` | the server process, write by write, with crashes | extends `MFSLog`, instantiates `MFSTree` |
| `MFSServerProofs` | the theorems about `MFSServer` and their proofs | extends `MFSServer`, `MFSImage` |
| `MFSRpc` | clients, network and server, handler by handler | extends `MFSLog` |
| `MFSRpcProofs` | the theorems about `MFSRpc` and their proofs | extends `MFSRpc` |
| `MFSEarly` | the server and library of `P4`, with one client, losses and crashes | extends `MFSLog` |
| `PZip` | `pzip` and `wzip` from `argv` to stdout | |
| `MCPipe`, `MCMFSRpc`, `MCFileTable`, `MCMFSServer`, `MCMFSEarly` | for TLC: symmetry, the clients' requests, what file data reads as to a search | |

### Pipe

A step is what a process does between two points at which another can affect it. `p->lock` is a
variable; `sleep` gives up the lock and sleeps in one step, as xv6's does under `ptable.lock`; `kill`
may come at any moment. `pc` names the place in the code: `w_loop` is the `for` of `pipewrite` with
the lock held, `w_sleep` the point between `wakeup(&p->nread)` and `sleep`, `w_asleep` asleep,
`w_woken` on the way to the lock again; `r_wait` and `r_copy` are the two loops of `piperead`. The
bytes are nondeterministic; `sent` and `rcvd` are histories of what was stored and copied. `WORD`
stands for 2^32, and the counters wrap at it. The counter `lock_num` and the `cprintf` calls of
`pipe_part1.c` are left out. A killed process makes no further calls, and closes its descriptors.

### FileTable

A section under `ftable.lock` or `p->lock` is one step, so that what `fileclose` does with its copy
`ff` after the release (`pipeclose`, `kfree`, `iput`) interleaves with everything else. `filealloc`
leaves the type of a file as it finds it, as the code does. The system calls are external, modelled
from xv6's by what they do to the table; a call that fails half way closes what it has.

### FileIO

`begin_op` waits while `OPS` transactions are open, `ilock` while another has the inode. `writei` and
`readi` are external and refuse what lies outside the file. `i`, `n`, `r` are the variables of the
call; `done` and `got` are histories of positions copied.

### MFSLog and MFSServer

The image is a function from addresses to cells: a checkpoint region, a map piece and an inode are one
cell each, a directory entry is one cell and a block is `DIRENTS` of them. A handler is an operator
that returns the answer and the writes in the order of the code; `MFSServer` takes a request (`Serve`),
makes its writes one by one (`DiskWrite`) and answers (`Answer`). `Crash` kills the process between
any two writes; the image stays as it is (writes survive in the page cache) and the next process loads
it. `CR` and `inode_locs` need no variables: every call that uses them loads them from the image.
Odd behaviours are modelled as they are: the search that runs past the blocks of a directory,
`del_inode_imap` called with a location, the two units of the size of a directory, the map read from
a piece that was never written. `tree` is the image read as a tree (`TreeOf`), from which clients know
inode numbers. Inode number 4096, which `server_create` and `server_unlink` let pass, is not among them,
nor is the -1 with which CREAT stores a name when the map has no number left: LOOKUP of that name returns
-1. `server_unlink` of such a name would read the word before `inode_locs`, and is not modelled. No client
uses the name `x`, with which the server marks an unused entry (`LogAssumption`), nor a name with a `%`:
`server_create` hands the name to `sprintf` as the format.

*Data read as entries.* `server_lookup` compares the name with whatever bytes are in the blocks it reaches,
those of files, inodes and map pieces included. The constant `AsEntry` gives the name and number that a cell which
is no entry reads as (`EntryAt`); the theorems hold for any such function, and the runs let one datum read as
a name with a number and one as a name with a negative number. Two things are coarser than the code: the cells of a
data block all read alike, and clients use the numbers of entries only, not those that data reads as. A CREAT that meets
such a lookalike (`Lookalike`), or the entry of another directory, answers 0 and creates nothing:
`AnsweredIsDone` excepts it by name, and `CreatIsDone` is false, as `MCMFSServer_shared` shows.

*The words `del_inode_imap` writes.* It indexes `CR.imap` with a location over 16, which is a word of
`inode_locs` (the globals lie as the Makefile links them). What it does depends on that word.

- It is -1, as in the unused part of `inode_locs`: `lseek` fails, `read` and `write` go on behind the inode
  that was just read, and the start of the first block of that inode is overwritten (`Overwrite`); or no word there
  is positive and CR is written back as it is (`Rewrite`).
- It is the location of an inode in use: locations are 4 modulo 16, so that word `WORD` (4, which is
  `block_loc[2]`) of that inode becomes -1. The first inode this can happen to is number `FAR` (64). When a crash has left
  that location without an inode, the write hits what is there instead.
- It is 0, as behind `inode_locs`, for locations of 69,760 and more: the checkpoint region is read as the piece and
  `CR.imap[WORD]` becomes -1, the place of the piece with inodes 64 to 79; with fewer inodes it is -1 already, and nothing
  changes (`Rewrite`). Further on, behind the page, the server faults, which is a `Crash`.

What the last two change are the stray writes (`StrayWrites`, `StrayUnlink`). An UNLINK may make one in the model as soon as
there is something for it to destroy, without asking which location leads to which word, so that the model errs on the side of
the fault; with at most 64 inodes the code makes none. After
it numbers shift and cells are shared in ways the model does not follow: it ends with that write (`Stray`), and the
properties of the server speak of what is before it.

What is left over in the free part of the log and read as a map piece after a crash (`Piece`) is read word by word
where it is an inode; of an entry the last word counts, and of text and data every word is taken for a location at
which there is no inode.

`server_unlink` sets the size of a directory to its number of blocks, and `server_create` takes the
size for the slot of the next entry: from then on entries overwrite each other, which
`MCMFSServer_dotdot` shows. So that the rest can be checked together with UNLINK, two histories say when this
has happened: `shrunk` holds the directories in which an UNLINK was made, or which one was to remove,
and `spoiled` becomes true when a CREAT, or the UNLINK of a directory, relies on the size of one of them (`Sized`).
`NamesResolve`, `Disjoint`, `UniqueNames` and `ContentKept` hold spoiled or not, before a stray write. `TreeSpec`, the
refinement of `MFSTree`, also excepts the steps after which some entry has no number (`Numberless`): a tree
has no such entries, and two of them are not told apart.

### MFSRpc

The network is a bag of datagrams, which may be dropped and overtake each other. `Call` sends the
first request, `Timeout` is `select` returning 0, `Receive` takes any datagram for the answer, `Serve`
is one turn of the server's loop, and `Crash` leaves a prefix of the writes and no answer. `seq` is
not in the code: it tells the properties to which call a copy belongs. `expect` is a history of what
the call would return, and leave behind, if it were executed once when it is made; `others` of the
requests of other clients that overlap it. `shrunk` and `spoiled` are those of `MFSServer`, for the
root. `Late` says whether the timeout may expire while the request or its answer is still under way.
`Requests` gives each client the requests it makes, and `Loads` the combinations of calls and crashes
that an instance allows.

Two promises: a call that overlaps no other is as if executed once (`OnceAtReturn`), and calls that
overlap and are about different names or blocks do not disturb each other, although they share the
directory, the map and the inode (`OwnAtReturn`). For the same name or block nothing can be promised:
the second execution of a repeated call undoes what the other client did in between. Nor when the other client
stores data that reads as an entry of the name, or writes or removes files while the image holds such data: `Disturbs` says so.
What clients see (`Seen`) are the names of the root and what is behind them, not the size of the root: an UNLINK that is
killed before it writes that size, and is repeated, finds no name and leaves the size as it was.

The error returns of `sendto`, `select` and `recvfrom` are left out, and the network does not duplicate a datagram (the
library does). Images are small: no UNLINK makes a stray write here.

### MFSEarly

The handlers of `P4/server.c` on the image of `MFSLog`; what `P4-test` has kept word for word is taken
from there. In `server_Creat` the seek before the parent inode is read goes to `index`, a function of the C
library, where the image has long ended: `parentInode` is what the stack holds, and `Leftovers` are the
values it may have. `server_Write` enters a new block at the old end of the log and writes it
at the new one. The answer to a shutdown goes to a socket nobody opened (`Shutdown`). UNLINK does
nothing and answers 0.

### PZip

A thread touches only its chunk and its output, so that it is one step. What `merge` reads of an entry
nobody wrote is the zeros of a fresh mapping, or an entry of an earlier file once `free` has put its
output back on the heap. `program` says which of the two programs runs: `wzip` is `pzip` with one
thread and one size of output, which tests `argv[1]` for the first file even when that file could not be
opened (its run then starts from an uninitialised `ch`), and which says so on stdout, between the
runs. An output has room for `SMALL` or `LARGE` runs (1,000,000 and 50,000,000; in `wzip` 100,000,000). When the runs of
a chunk do not fit the behaviour is undefined, and the model ends there.

## 3. Runs

Passing runs:

| Run | Instance | What it shows |
|---|---|---|
| `MCPipe_safety` | 3 processes, ring of 3, `WORD` 4, 1 call each of up to 2 bytes, all dups, closes and kills | `TypeOK`, `LockDiscipline`, `NoMissedWakeup`, `EndOpenWhileHeld`, `NoUseAfterFree`, `NoLeak`, `FifoUntilWrap` |
| `MCPipe_stream` | 2 processes, 1 call each of up to 5 bytes, fair | `Fifo`; the pipe implements `ByteStream`; `EofMeansDrained`, `WriteFailsOnlyIfStuck`; four liveness properties |
| `MCMFSServer_crash` | 2 names, 2 data that read as entries, blocks of 4 entries, 2 blocks, 8 inodes in pieces of 2, stray writes from inode 2 on; 5 calls CREAT, WRITE or UNLINK and crashes together, 2 of them crashes | `NamesResolve`, `Disjoint`, `DotsPointUnspoiled`, `SizeCoversEntries`, `UniqueNames`, `AnsweredIsDone`, `RepeatIsHarmless`, `ContentKept`; the image implements `MFSTree` |
| `MCMFSRpc_calls` | 2 clients, 2 datagrams of each in flight, fair: 4 calls of any kind by one and 2 crashes, or 3 beside 1 CREAT or WRITE of the other and 1 crash | `NoneStale`, `Repeatable`, `OnceAtReturn`, `OwnAtReturn`, `CallsReturn` |
| `PZip_zip` | both programs, 2 threads, up to 3 files cut from 5 bytes of an alphabet of 3 with NUL, any of them missing | `ExpandsToText`, `RunsAreMaximal` |
| `MCFileTable_table` | 2 processes, 3 files, 3 descriptors each, 1 page | `RefsCounted`, `EndHasOwner`, `FreedOnce`, `PagesAccounted`, `InodeAccounted`, `Steady`, no deadlock |
| `FileIO_calls` | 3 processes, 2 files, 2 transactions, pieces of 2, file of at most 3, fair | `NoOverlap`, `WriteReturnsWhatItDid`, `CallsReturn` |

Runs that find a violation, each of something the repository says:

| Run | Property | What happens |
|---|---|---|
| `MCPipe_killed` | `KilledReturns` | a process killed between its test of `killed` and its sleep stays asleep |
| `MCMFSServer_dotdot` | `DotsPoint` | `unlink` resets the size of the directory, the next `creat` overwrites `..` |
| `MCMFSServer_shared` | `CreatIsDone` | `creat` answers 0 and creates nothing, because another directory uses the name (or a file's data reads as it) |
| `MCMFSRpc_late` | `UnlinkedIsGone` | the second answer to one call is taken for the answer to the next |
| `MCMFSEarly_readback` | `ReadsBack` | CREAT, WRITE of a new block, READ of it: the read is one block before the write (`P4/server.c:260`) |

The bounds and why they are enough:

- *Pipe.* Two processes are a reader and a writer; the third gives a second sleeper on the same channel
  and a close or dup during somebody else's call. A write longer than the ring sleeps several times.
  In `MCPipe_stream` `WORD` is a multiple of `PIPESIZE`, as 2^32 is of 512, and with `WORD` 4 and five
  bytes both counters wrap during one call. In `MCPipe_safety` it is none, as 2^32 is none of 3, the `PIPESIZE`
  of `pipe_part2.c`: two writes fill the ring and reach the wrap. Beyond it `Fifo` is false for
  `PIPESIZE` 3, which takes 4 GB through one pipe; `FifoUntilWrap` is what remains.
- *Server.* In `MCMFSServer_crash` five calls start further pieces of the map, use a name in two directories, store
  data that reads as a name and search past it, and have room for an UNLINK and a call that meets what it left. The
  first block of a directory fills with the two names and the slots lost by calls that a crash cuts off, and a further call
  opens the second. `FAR` is 2, for
  the 64 of the code, so that stray writes happen, and `WORD` is the last word of an inode of two blocks. There
  are more inodes than calls: what happens when the map is full, with a name stored without a number, is in
  the model and covered by the theorems only (`MFSServerProofs`).
- *Client library.* Alone: one call, its retries and a second call that could meet a copy of the
  first; one more for each crash. With a second client: a file made and written by the first
  while the second makes another in the same directory, or writes another block of it, and either is cut
  off and repeated. The second client has one call, with a name or block of its own, and what it writes
  reads as an entry of its name.
- *Earlier server.* Three calls are enough for the counterexample; the run allows four and a crash.
- *File table.* Three files are one too few for two pipes, three descriptors one too few for a pipe and
  two dups, one page one too few for two pipes: every failing path is taken.
- *Compressor.* The five bytes give empty chunks, chunks of NULs, a last chunk longer than the others,
  runs across chunks and across files, and files above and below the threshold.

Fairness. xv6's scheduler goes round the runnable processes, so that each takes its steps in the end:
weak fairness of what the kernel does for a process, none of its calls, kills and closes
(`Pipe!FairSpec`, `FileIO!FairSpec`). Every process makes finitely many calls there, so that weak
fairness is enough for locks too. In `MFSRpc` the clock runs (weak fairness of `Timeout`), and a
datagram that is sent again and again arrives in the end (strong fairness of `Serve` and `Receive`).
For `Serve` the formula has its ENABLED written out.

## 4. Proofs

### PipeProofs

`PipeProofs` proves for every finite set of processes and slots, every `PIPESIZE` below `WORD` and
calls of any length, from the assumption `PipeAssumption` alone, that each of the six invariants of
`MCPipe_safety` holds in every reachable state (`TypeCorrect`, `LockCorrect`, `NoLostWakeup`,
`EndsOpenWhileHeld`, `FreedSafely`, `Reclaimed`).

None of them but `TypeOK` and `LockDiscipline` is inductive. The invariant `IInv` adds

- `RefCount`: `f->ref` is the number of descriptors, so that the process that counts down to zero
  is the one that removes the last;
- `CallersHold`: a process in a read or write has a descriptor on that end, so that nobody closes the
  end under it;
- `OneCloser` and `OneFree`: at most one process is on the way to close an end, or to free the page,
  and exactly one while the end is open without descriptors, or the page allocated with both ends closed;
- `MinusOne`: a call returns -1 only when the read end is closed, or to a process that was killed and
  is out of the pipe for good;
- `Sleepers`: `NoMissedWakeup` in the states in which the lock is held. Whoever has ended the condition
  of a sleeper is still in its loop, with its wakeup ahead and the lock in its hands.

There is one lemma per action that `IInv` is kept, with one step per part, and `Invariance` puts them
together. The exception `Aborted` in `NoMissedWakeup` cannot be dropped: the killed writer leaves its
bytes without a wakeup.

### PipeStreamProofs

What the pipe does to the bytes, from `PipeAssumption`, for any number of processes and calls of any length.
When `PIPESIZE` divides `WORD` (`Divides`, true of 512 and 2^32): `Fifo` (`BytesInOrder`), `EofMeansDrained`
(`ZeroIsEof`), and the pipe implements `ByteStream` (`ImplementsStream`). Without that hypothesis:
`WriteFailsOnlyIfStuck` (`FailureIsFinal`) and `FifoUntilWrap` (`BytesInOrderUntilWrap`), which is what
there is to say of the 3 of `pipe_part2.c`. The invariant `SInv`, on top of `IInv`, has the parts

- `Counters`: `nwrite` and `nread` are the lengths of the histories modulo `WORD`, and at most `PIPESIZE` apart.
  As `PIPESIZE` is less than `WORD`, a test of the counters is a test of the lengths (`RingTests`), wrapped or not;
- `Contents`: every byte in transit is in its cell. Two of them never share a cell (`CellsDiffer`), so
  that a store does not touch the others;
- `ReaderHasReason`: a reader in its second loop was let into it by a byte, or by the end of the stream, and it
  holds the lock since. This is what a return value of 0 means.

`Wrap` has the arithmetic: remainders of numbers less than `WORD` apart, and of a multiple of `PIPESIZE`.
For the refinement, `WriteByte` is the `Put` of the stream, `ReadByte` its `Take`, `PipeClose` its
`Close`, and every other step of the pipe is a stutter.

### FileIOProofs

For any number of processes and struct files, calls of any length and any `MAX`, `OPS` and `MAXFILE`,
from the assumption `IOAssumption` alone: at most one process is between `ilock` and `iunlock`
(`OneInside`), `NoOverlap` (`OffsetsNotShared`), and `WriteReturnsWhatItDid` (`ResultIsHonest`).
`NoOverlap` speaks of steps, and follows from what is true before them. The invariant `IInv` has the parts

- `Inside`: the process between `ilock` and `iunlock` is the owner of the lock;
- `Frontier`: a position copied through a file is behind its offset, or the process that has copied it has
  still to advance the offset and will pass it. With `Inside`, whoever is about to copy at the offset finds
  everything copied before it;
- `WithinSize`: an offset is never beyond the end of the inode, so that `writei` can fail for
  want of room only;
- `Progress`: `i` counts whole pieces, and the piece that fails has no room. That stays true until the
  call returns, because offsets only grow, whoever else uses the file in between;
- `Copies`: a write has copied exactly as many positions as it counts. Here the disjointness of the pieces
  is needed, by `Frontier`, to add up their cardinalities (`GrowsBy`).

### FileTableProofs

For any finite number of processes and any numbers of files, descriptors and pages, from the assumption
`TableAssumption` alone, all that `MCFileTable_table` checks: `RefsCounted` (`RefCounts`), `EndHasOwner`
(`EndsOwned`), `FreedOnce` (`PageFreedOnce`), `PagesAccounted` (`PageNotLost`), `InodeAccounted`
(`InodeRefs`) and `Steady` (`DescriptorsSteady`). The invariant `IInv` has, besides `RefsCounted` and
`InodeAccounted`, the parts

- `Frames`: what a process has at each place of its call;
- `Blank`: a file that `pipealloc` or `sys_open` has not filled in has one reference and no type, which is
  why `bad` can call `fileclose` on it. With `RefsCounted` it is the process's alone (`Mine`), so that
  filling it in is seen by nobody;
- `OneOwner`: an end of a pipe is open exactly when it has an owner, and never has two;
- `OnePage`: a page is allocated exactly as long as an end of it is open or one process has it to itself,
  in `pipealloc` before the ends are open or in `pipeclose` after both are closed.

The counts are cardinalities of sets of references. `HandChange` says what a step of one process does to
them, in terms of what that process has in hand before and after and of the descriptors; each action
then has to show the difference of one or two elements (`OneElement`, `TwoElements`), and `fork` that of the
parent's descriptors. `Sole` is what `fileclose` needs: whoever has the last reference is alone with the file.

### MFSServerProofs

For any number of names, blocks, entries, map pieces and inodes, any number of calls and of crashes, each
between any two writes, and whatever data reads as to a search, from `LogAssumption` alone, all that `MCMFSServer_crash` checks: `NamesResolve`
(`NamesAlwaysResolve`), `Disjoint` (`NamedDisjoint`), `SizeCoversEntries` (`SizesCover`), `UniqueNames`
(`NamesUnique`), the action property `ContentKept` (`NamedContentKept`), `DotsPointUnspoiled` (`DotsRight`),
`AnsweredIsDone` (`AnsweredDone`), `RepeatIsHarmless` (`RepeatsHarmless`), and the image implements `MFSTree`:
`TreeSpec` (`TreeImplemented`). Names may be used in several directories, directories may be
spoiled by UNLINK, and the map may run out of numbers. Each speaks of what happens up to the first stray write of an
UNLINK, which needs an image of more than 64 inodes, and not of what follows it: there they are false. `AnsweredDone` says
nothing of a CREAT that meets a lookalike, of which it would be false (`MCMFSServer_shared`). None of the properties is inductive: they say
nothing of the inode and the map piece that a call has written half. `MFSImage` calls an image *sound* for a set
K of inodes (`Sound`) when

- `Shaped`: the checkpoint region points to map pieces below the end of the log, each once;
- `InPlace`, for each of K: the map leads to the inode, which lies with its blocks below the end of the log,
  and the blocks of a directory hold entries, so that `server_create` never takes another cell for a slot;
- `Separate`: no two of K, their blocks and the map pieces share a cell;
- every name on the image, in whatever cell, is that of one of K (`Live`).

It is *well* (`Well`) for a set U of inodes when it is sound for those that have a name, and fine (`Fine`):

- `Covers`: the size of each directory among them, save the U, is above every slot that an entry uses;
- `Unique`: no two entries that clients made, of directories among them, have the same number, nor the same
  name if the directory is the same;
- `Settled`: every name on the image has a number, or no number is left and none ever will be;
- `Proper`, unless U says that a call has relied on a size that UNLINK has reset (with -1 among U): every
  name on the image lies in a block of a directory that has a name itself, no inode has two, the first two
  entries of a directory are its dots, the second is the directory that names it, and nothing names the root
  (`Placed`, `Dots`);
- `JunkBeyond`: no data lies beyond the end of the log, so that a block that enters a file holds nothing
  before it is written.

U is `shrunk` in the invariant, and UNLINK adds the directory and the inode it removes to it before its writes
begin: it sets the size of the directory to the number of its blocks. This is what makes CREAT take a free slot:
`server_create` finds the slot by the size, and writes the new size before the entry, so that a crash between
the two loses a slot and never an entry.

`Settled` is what `Unique` needs when the map runs out. `server_create` then stores the name with number -1, and
`LOOKUP` returns -1 at the first entry with the name: it takes the name for one that does not exist, even if a
later slot had it with a number. What saves uniqueness is that a name without a number comes only when none is
left, and then none is ever left again (`Full`, `FullStays`): every later CREAT stores -1 as well. A map can be
full in two ways, with every number used, or with the first number that is left at the start of a piece that a
crash left written but empty (`EmptyPiece`): it asks for a new piece, and the checkpoint region has no room. The
writes of any call that fills no cell with a new name keep `Unique` (`UniqueStays`); that of CREAT adds the name
only where LOOKUP has not found it, for a number that no directory has (`NotNamed`, `NewIsNewcomer`,
`UniqueWith`).

Nothing is asked of the rest of the image, where crashes leave inodes without a name, pieces the checkpoint
region points to that were never written, and blocks half entered. There are five kinds of write: to the
checkpoint region (`WriteCR`), to a map piece (`WritePiece`), beyond the end of the log (`WriteFree`), to a
block (`WriteBlock`) and to an inode (`WriteInode`); one lemma each says when it keeps the image sound, and
which files keep what they hold (`Keeps`): all of them, or all but the block that is written.

A sequence of writes *leads* from one image to another (`Leads`) when every image on the way is well, and each
write *goes* from one to the next (`Goes`): it changes nothing a file with a name holds, but for a given set of
blocks, and it *shows* as one step of a tree at most (`Shows`): it is not seen (`Still`), it changes a block of
one file (`Changes`), it enters one name for an inode that had none (`Enters`), or it takes one name away
(`Leaves`). `WriteLeads`, `CreateLeads` and `UnlinkLeads` show it of the writes of each call on any sound image:
the set of blocks is empty for CREAT, the block that WRITE names, and the first block of what UNLINK has found,
which only its first write may touch (`Removes`). They also say what the last image has: the name, the data, or
no such name (`Did`). The invariant `IInv` is that the model has ended in a stray write (`Stray`) or what is left of the
writes of the current call leads in this way from `disk` to some image where the call has done what it was asked
(`Orderly`, with `Onward` and `LeadOn`), so that a crash, which drops them, leaves a sound one, and an answer, when none are left, is
true. A search that finds what it meets outside the directory is no obstacle: it makes CREAT do nothing, and
when it finds nothing the directory has no such name either (`ScanAt`, `ScanBefore`, `ScanFinds`).

`RepeatsHarmless` follows from `Did` too. A CREAT sent again finds its name (`NotThere`), an UNLINK finds none;
a WRITE puts the inode and the data where they are, for which `Did` says of the block not only that it reads the
data but that all its cells hold it, and that the file ends with it (`Wrote`).

`NewNumber` is the step that depends on how the map is filled: the first free number is either in a piece that
is on the image or the first of a piece that is not entered.

For the refinement, `Shows` speaks of cells, and the tree of entries and contents. The entries of the tree are
the names in the directories that have one (`HasRow`, `RowHas`), its contents the blocks of the files that have
one (`ContentOf`). `StillTree`, `ChangesTree`, `EnterTree` and `LeaveTree` turn each of the four into a step of
`MFSTree` or a stutter. The entry is the last write of CREAT and names an inode that is complete, so that a file
or directory is seen at once, empty; a directory goes only when it has no entries, so that nothing that hangs
below it goes with it. The exceptions of `TreeSpec` are those of `Shown`.

### MFSRpcProofs

For any number of clients and calls, and a network that loses datagrams and lets them overtake each
other: when no answer comes later than the timeout (`~Late`), what `communicate` receives answers the call that
waits for it (`RepliesNotStale`), although messages carry no number. By `OneEach` a client has one datagram on
its way at most, the request or its answer, and only while it waits; by `Control` it waits exactly during a call. `MCMFSRpc_late` shows that
the hypothesis is needed.

### What is model-checked only

Of `MFSRpc`, `Repeatable`, `OnceAtReturn` and `OwnAtReturn`: what the whole of a call does to the image is a fold over
its writes there, of any requests and not only of those that were answered. `RepeatsHarmless` is what `MFSServerProofs`
has of `Repeatable`: it is about the call that was executed last, write by write. `PZip`, which is folds from end to end: what a fold
computes for every input cannot be proved with the provers at hand. All liveness, which is out of the
prover's reach.

## 5. What is not modelled

`unzip.c` (commented out), the clients and the build files. Of the parts that are modelled: the INIT
message, `MFS_Init`, the lengths of names, `filestat`, the readable and writable flags beyond which end
a file is, devices, and memory ordering inside spinlocks; of `P4-test`, UNLINK of a name without a number,
and a file that a client calls `x` or by a name with a `%`, the image after a stray write of UNLINK,
the error returns of the socket calls and a network that duplicates datagrams; of `P4`, block numbers 14 to 16, which index behind
the inode. `main1` of `wzip.c` is never called. A crash is the death of the process, not of the machine.

Behaviours seen while modelling that no run asserts anything about, because nothing in the repository
promises otherwise or because they follow from one above: an unlinked inode is never freed
(`server.c:270`); with more than 64 inodes UNLINK takes a block from another file or a piece from the map, and on
a larger image it faults (`server.c:298`); a directory can be removed with entries in it after an unlink in it
(`server.c:266`; `TreeSpec` excepts what follows), writing a block in the middle of a file makes it shorter (`server.c:216`),
`MFS_Shutdown` waits without a timeout (`libmfs.c:145`), and for ever in `P4` (`P4/server.c:172`), two
clients whose retries about the same name cross, a chunk of NULs in the third file of `pzip` or the second
of `wzip` (`pzip.c:60`), an output of `pzip` overrun (`pzip.c:202`).

## 6. Plan

Written so far, in this order, the most important behaviour first: the pipe and its proofs, the
server's image and process, the client library, the compressor, the file table, file I/O; then
UNLINK together with everything else in the server, the second client, `wzip`, the earlier server, and
the proofs about file I/O, the file table, the stream of the pipe, the client library and the image of the
server.

Next:

1. The promises of `MFSRpc` from the lemmas about the image: what the whole of a call does, where `MFSServerProofs`
   speaks of each of its writes.
2. A run with the inode map at its last number.
3. `MFSRpc` composed with the steps of `MFSServer`, so that a crash is one between the writes of the
   server rather than a prefix of them.
