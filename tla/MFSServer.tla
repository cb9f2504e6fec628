----------------------------- MODULE MFSServer -----------------------------
(***************************************************************************)
(* The server process of P4-test/server.c.  It serves one call at a time:  *)
(* a call is taken, its writes reach the image one after the other, and it *)
(* is answered.  The process may be killed between any two writes; what it *)
(* wrote stays and the next server starts from the image.                  *)
(*                                                                         *)
(* LOOKUP, STAT and READ change nothing: they are the operators            *)
(* server_lookup, server_stat and server_read, used by the properties in   *)
(* the states in which the server would execute them.  What the server     *)
(* keeps in memory between calls, CR and inode_locs, is reloaded from the  *)
(* image by every call and at the start.                                   *)
(***************************************************************************)
EXTENDS MFSLog, TLC

CONSTANTS Libs,        \* the calls clients make: subset of {"CREAT", "WRITE", "UNLINK"}
          MaxCalls,    \* bound: calls served and crashes
          MaxCrashes   \* bound: crashes

ASSUME ServerAssumption ==
  /\ Libs \subseteq {"CREAT", "WRITE", "UNLINK"}
  /\ MaxCalls \in Nat /\ MaxCrashes \in Nat

VARIABLES
  disk,     \* the image
  tree,     \* history: the tree the image holds, always TreeOf(disk)
  call,     \* the call being served, or Idle
  todo,     \* its writes that have not been made yet
  ret,      \* what it will be answered
  shrunk,   \* history: directories an UNLINK was made in, or was to remove
  spoiled,  \* history: a call has relied on the size of such a directory
  calls,    \* calls taken so far (bounded by MaxCalls)
  crashes   \* crashes so far (bounded by MaxCrashes)

vars == <<disk, tree, call, todo, ret, shrunk, spoiled, calls, crashes>>

Idle == [lib |-> "IDLE"]

\* The entries clients made: those in the blocks of directory p, save `.', `..'
\* and the unused ones.
Entries(d, p) ==
  LET addr == OwnAddr(Inode(d, p))
      used == {m \in DOMAIN addr : /\ IsEntry(d, addr[m])
                                   /\ d[addr[m]].name \notin {".", "..", Free}}
  IN  {d[addr[m]] : m \in used}

\* The image as a tree: the entries of the root and of the directories that
\* have a name, and the blocks of the files that have one.
TreeOf(d) ==
  LET ents  == UNION {{[dir |-> p, name |-> e.name, inum |-> e.inum,
                        isdir |-> IsDir(d, e.inum)] : e \in Entries(d, p)} :
                      p \in {p \in Inums : IsDir(d, p)}}
      named == {e \in ents : e.dir = 0 \/ \E f \in ents : f.inum = e.dir}
      files == {e.inum : e \in {e \in named : IsFile(d, e.inum)}}
      blks  == UNION {{<<k, b>> : b \in {b \in Blocks : Inode(d, k).block_loc[b] # None}} :
                      k \in files}
  IN  [entries |-> named,
       content |-> [x \in blks |-> BlockAt(d, Inode(d, x[1]).block_loc[x[2]])]]

\* Inode numbers a client can have learnt from LOOKUP, which returns -1 for a
\* name that CREAT stored when no number was left.
Known == {0} \cup ({e.inum : e \in tree.entries} \ {None})

Init ==
  /\ disk = Image /\ tree = TreeOf(Image)
  /\ call = Idle /\ todo = <<>> /\ ret = 0
  /\ shrunk = {} /\ spoiled = FALSE
  /\ calls = 0 /\ crashes = 0

\* CREAT takes its slot from the size of the directory, and UNLINK of a
\* directory takes it for empty by its size.
Sized(c) ==
  CASE c.lib = "CREAT"  -> {c.inum}
    [] c.lib = "UNLINK" -> {e.inum : e \in {e \in tree.entries : e.dir = c.inum /\ e.name = c.name}}
    [] OTHER            -> {}

\* UDP_Read returned a call: set_return_number executes it.
Serve(c, r) ==
  /\ call = Idle /\ calls + crashes < MaxCalls
  /\ call' = c
  /\ ret' = r.ret
  /\ todo' = r.writes
  /\ spoiled' = (spoiled \/ Sized(c) \cap shrunk # {})
  /\ shrunk' = IF c.lib = "UNLINK" /\ r.writes # <<>> THEN shrunk \cup {c.inum} \cup Sized(c) ELSE shrunk
  /\ calls' = calls + 1
  /\ UNCHANGED <<disk, tree, crashes>>

Creat(p, type, nm) ==
  /\ "CREAT" \in Libs
  /\ Serve([lib |-> "CREAT", inum |-> p, type |-> type, name |-> nm],
           server_create(disk, p, type, nm))

Write(k, v, b) ==
  /\ "WRITE" \in Libs
  /\ Serve([lib |-> "WRITE", inum |-> k, block |-> b, data |-> v],
           server_write(disk, k, v, b))

\* UNLINK of a name without a number reads the word before inode_locs: what it
\* does then is not modelled.
HasNumber(p, nm) == \A e \in tree.entries : e.dir = p /\ e.name = nm => e.inum # None

Unlink(p, nm) ==
  /\ call = Idle /\ "UNLINK" \in Libs /\ HasNumber(p, nm)
  /\ \E h \in server_unlink(disk, p, nm) :
       Serve([lib |-> "UNLINK", inum |-> p, name |-> nm], h)

\* An UNLINK whose del_inode_imap writes elsewhere.  The model ends with that
\* write: what the server does with the image afterwards is not modelled.
Stray == call.lib = "STRAY"
StrayUnlink(p, nm) ==
  /\ call = Idle /\ "UNLINK" \in Libs /\ HasNumber(p, nm)
  /\ \E h \in server_unlink(disk, p, nm) : h.writes # <<>>
  /\ \E w \in StrayWrites(disk) :
       Serve([lib |-> "STRAY", inum |-> p, name |-> nm], [ret |-> 0, writes |-> <<w>>])

\* lseek and write of the next piece of data.
DiskWrite ==
  /\ todo # <<>>
  /\ disk' = Put(disk, Head(todo)[1], Head(todo)[2])
  /\ tree' = TreeOf(disk')
  /\ todo' = Tail(todo)
  /\ UNCHANGED <<call, ret, shrunk, spoiled, calls, crashes>>

\* UDP_Write of the answer.
Answer ==
  /\ call # Idle /\ todo = <<>> /\ ~Stray
  /\ call' = Idle
  /\ UNCHANGED <<disk, tree, todo, ret, shrunk, spoiled, calls, crashes>>

\* The process dies and is started again: init_image finds the image.
Crash ==
  /\ call # Idle /\ ~Stray /\ crashes < MaxCrashes
  /\ crashes' = crashes + 1
  /\ call' = Idle /\ todo' = <<>>
  /\ UNCHANGED <<disk, tree, ret, shrunk, spoiled, calls>>

Next ==
  \/ \E p \in Known :
       \/ \E type \in {MFS_DIRECTORY, MFS_REGULAR_FILE}, nm \in Names : Creat(p, type, nm)
       \/ \E v \in Data, b \in Blocks : Write(p, v, b)
       \/ \E nm \in Names : Unlink(p, nm) \/ StrayUnlink(p, nm)
  \/ DiskWrite \/ Answer \/ Crash

Spec == Init /\ [][Next]_vars

-----------------------------------------------------------------------------
(* Properties                                                              *)
(* All but CreatIsDone speak of what is before the first stray write of an *)
(* UNLINK.                                                                 *)

Dirs == {p \in Known : IsDir(disk, p)}
Files == {k \in Known : IsFile(disk, k)}

\* Every inode number in the map of names has its inode on disk, below the end
\* of the log, whatever call a crash interrupted.
NamesResolve ==
  Stray \/ \A k \in Known : IsInode(disk, k) /\ InodeLoc(disk)[k] < CR(disk).end

\* What two named inodes occupy does not overlap, nor do a named inode and a
\* piece of the map: the log never gives out the same cells twice to live data.
Extent(k) ==
  LET ino == Inode(disk, k)
  IN  {InodeLoc(disk)[k]} \cup
      UNION {ino.block_loc[b] .. (ino.block_loc[b] + DIRENTS - 1) :
               b \in {b \in Blocks : ino.block_loc[b] # None}}
MapCells ==
  {CR(disk).imap[m] : m \in {m \in 0..(IMAPS - 1) : CR(disk).imap[m] # None}}
Disjoint ==
  Stray \/ /\ \A k, l \in Known : k # l => Extent(k) \cap Extent(l) = {}
           /\ \A k \in Known : Extent(k) \cap (MapCells \cup {0}) = {}

\* A directory has a name once, and an inode has one name; those without a
\* number aside.
UniqueNames ==
  Stray \/ \A e, f \in {e \in tree.entries : e.inum # None} :
             (e.dir = f.dir /\ e.name = f.name) \/ e.inum = f.inum => e = f

\* What a named file holds changes only by a WRITE of that block, or when the
\* file itself is being unlinked.
ContentKept ==
  [][\A x \in DOMAIN tree.content \cap DOMAIN tree'.content :
       tree'.content[x] # tree.content[x] =>
         \/ call.lib = "WRITE" /\ x = <<call.inum, call.block>>
         \/ call.lib = "UNLINK" /\ \E e \in tree.entries :
              e.dir = call.inum /\ e.name = call.name /\ e.inum = x[1]
         \/ Stray]_vars

\* `.' is the directory and `..' the directory that names it.
DotsPoint ==
  \A p \in Dirs :
    /\ server_lookup(disk, p, ".") = p
    /\ LET up == server_lookup(disk, p, "..")
       IN  IF p = 0 THEN up = 0
           ELSE up \in Dirs /\ \E e \in Entries(disk, up) : e.inum = p

\* `.' and `..' are right in every directory until a call relies on a size that
\* UNLINK has reset: neither a crash nor any other call breaks them.
DotsPointUnspoiled == Stray \/ spoiled \/ DotsPoint

\* The size of a directory counts its entries, so that the next entry created
\* goes to a slot that is free: never below the slots in use, until the first
\* UNLINK in the directory, or of it.
SizeCoversEntries ==
  Stray \/ \A p \in Dirs \ shrunk :
    LET addr == OwnAddr(Inode(disk, p))
    IN  \A m \in DOMAIN addr :
          disk[addr[m]].name # Free => m < Inode(disk, p).size

\* The search for a name in directory p meets something outside the blocks of p
\* that reads as an entry of that name: one of another directory, a deleted one
\* or the data of a file.
Lookalike(p, nm) ==
  LET ino == Inode(disk, p)
  IN  Matches(disk, ScanAddr(ino), nm) \ DOMAIN OwnAddr(ino) # {}

\* A call answered 0 has done what it was asked: the directory has the name, the
\* block reads back, the directory no longer has the name; as long as no call
\* relied on a size that UNLINK has reset.  Only a CREAT that meets a lookalike
\* may do nothing.
HasName(p, nm) == \E e \in Entries(disk, p) : e.name = nm
Done(c) ==
  CASE c.lib = "CREAT"  -> HasName(c.inum, c.name) \/ Lookalike(c.inum, c.name)
    [] c.lib = "WRITE"  -> server_read(disk, c.inum, c.block) = [ret |-> 0, data |-> c.data]
    [] c.lib = "UNLINK" -> ~HasName(c.inum, c.name)
AnsweredIsDone ==
  ~Stray /\ ~spoiled /\ call # Idle /\ todo = <<>> /\ ret = 0 => Done(call)

\* A CREAT answered 0 has created the name, whatever else the image holds.
CreatIsDone ==
  call.lib = "CREAT" /\ ~spoiled /\ todo = <<>> /\ ret = 0 => HasName(call.inum, call.name)

\* The image implements the tree of module MFSTree, at every write and crash,
\* until a call relies on a size that UNLINK has reset, or CREAT stores a name for
\* which the map had no number left.
Tree == INSTANCE MFSTree WITH entries <- tree.entries, content <- tree.content
Numberless == \E e \in tree.entries : e.inum = None
TreeSpec == Tree!Init /\ [][Tree!Next \/ spoiled \/ Numberless' \/ Stray]_(Tree!treevars)

\* The library sends a request again when it gets no answer, and the server does
\* not know that it has served it: the second time it answers 0 again, and what it
\* writes is on the image already. So until a call relies on a size that UNLINK has
\* reset; and a CREAT as long as every name has a number, for it does not find a
\* name without.
Again(c) ==
  CASE c.lib = "CREAT"  -> {server_create(disk, c.inum, c.type, c.name)}
    [] c.lib = "WRITE"  -> {server_write(disk, c.inum, c.data, c.block)}
    [] c.lib = "UNLINK" -> server_unlink(disk, c.inum, c.name)
Harmless(d, h) ==
  h.ret = 0 /\ \A j \in DOMAIN h.writes : Put(d, h.writes[j][1], h.writes[j][2]) = d
RepeatIsHarmless ==
  ~Stray /\ ~spoiled /\ call # Idle /\ todo = <<>> /\ ret = 0 /\ (call.lib = "CREAT" => ~Numberless) =>
    \A h \in Again(call) : Harmless(disk, h)
=============================================================================
