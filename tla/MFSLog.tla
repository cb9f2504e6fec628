------------------------------- MODULE MFSLog -------------------------------
(***************************************************************************)
(* The disk image of the file server P4-test/server.c and what each of its *)
(* calls computes from it: a reply and the sequence of write()s it issues. *)
(*                                                                         *)
(* The image is a function from addresses to cells.  A directory entry is  *)
(* one cell, as it is one 32-byte unit of the file; the checkpoint region, *)
(* a piece of the inode map and an inode are one cell each, a block is     *)
(* DIRENTS cells.  Sizes are in units of 4096: every size the server       *)
(* computes is a multiple of it.                                           *)
(***************************************************************************)
EXTENDS Integers, SequencesExt, FiniteSetsExt

CONSTANTS Names,      \* names clients use: without `%', as sprintf stores them
          Data,       \* contents of a block
          AsEntry(_), \* the name and the number a cell that is no entry reads as
          DIRENTS,    \* entries of a directory block (128 in the code)
          BLOCKS,     \* block pointers of an inode (14)
          IMAPS,      \* pieces of the inode map (256)
          INODES,     \* inodes of a piece (16)
          WORD,       \* the word of 16 that del_inode_imap sets to -1 (4)
          FAR         \* the first inode whose location it can take for a piece's (64)

ASSUME LogAssumption ==
  /\ BLOCKS \in Nat \ {0} /\ DIRENTS \in Nat /\ DIRENTS >= 4 /\ BLOCKS < DIRENTS
  /\ IMAPS \in Nat \ {0} /\ INODES \in Nat \ {0} /\ INODES <= BLOCKS + 2
  /\ WORD \in 2..(BLOCKS + 1) /\ FAR \in Nat \ {0}
  /\ {".", "..", "x"} \cap Names = {}

Inums  == 0..(IMAPS * INODES - 1)
Blocks == 0..(BLOCKS - 1)

MFS_DIRECTORY    == 0
MFS_REGULAR_FILE == 1

None == -1      \* the -1 of imap, inode_loc, block_loc, inum and replies
Free == "x"     \* the name of an unused directory entry
Junk == "junk"  \* a block nobody has written: uninitialized heap, or a hole

CRCell(m, e)       == [kind |-> "cr", imap |-> m, end |-> e]
ImapCell(l)        == [kind |-> "imap", inode_loc |-> l]
InodeCell(t, s, b) == [kind |-> "inode", type |-> t, size |-> s, block_loc |-> b]
EntCell(nm, k)     == [kind |-> "ent", name |-> nm, inum |-> k]
DataCell(v)        == [kind |-> "data", val |-> v]

FreeBlock == [j \in 0..(DIRENTS - 1) |-> EntCell(Free, None)]
DataBlock(v) == [j \in 0..(DIRENTS - 1) |-> DataCell(v)]
DirBlock(self, parent) ==
  [FreeBlock EXCEPT ![0] = EntCell(".", self), ![1] = EntCell("..", parent)]
One(cell) == [j \in {0} |-> cell]

\* lseek(fd, at); write(fd, cells)
Put(d, at, cells) ==
  LET new == {at + j : j \in DOMAIN cells}
  IN  [a \in DOMAIN d \cup new |-> IF a \in new THEN cells[a - at] ELSE d[a]]

\* Address `at' is before the end of the file.
InFile(d, at) == at \in DOMAIN d \/ \E a \in DOMAIN d : a > at

-----------------------------------------------------------------------------
(* init_image of a file that does not exist                                *)

Image ==
  LET cr    == CRCell([m \in 0..(IMAPS - 1) |-> IF m = 0 THEN 1 ELSE None], 3 + DIRENTS)
      imap  == ImapCell([j \in 0..(INODES - 1) |-> IF j = 0 THEN 2 ELSE None])
      root  == InodeCell(MFS_DIRECTORY, 2, [b \in Blocks |-> IF b = 0 THEN 3 ELSE None])
      start == [a \in 0..2 |-> CASE a = 0 -> cr [] a = 1 -> imap [] a = 2 -> root]
  IN  Put(start, 3, DirBlock(0, 0))

-----------------------------------------------------------------------------
(* load_inode_loc                                                          *)

CR(d) == d[0]

\* The piece m of the inode map as load_inode_loc reads it.  CR points to a new
\* piece before the piece is written, so that after a crash the read may find
\* the end of the file (imap_copy is still the piece read before), or what an earlier
\* crash left in the free part of the log: an inode, whose words are taken for
\* locations (a piece and an inode are 16 words), entries, whose last word is a
\* number, or other bytes.  0 stands for a location that is not -1 and holds no
\* inode; text and data are taken to be such.
Piece(d, m) ==
  LET imap == CR(d).imap
      at   == imap[Max({l \in 0..m : InFile(d, imap[l])})]
  IN  [j \in 0..(INODES - 1) |->
         CASE at \in DOMAIN d /\ d[at].kind = "imap" -> d[at].inode_loc[j]
           [] at \in DOMAIN d /\ d[at].kind = "inode" ->
                IF j < 2 \/ d[at].block_loc[j - 2] # None THEN 0 ELSE None
           [] at \in DOMAIN d /\ d[at].kind = "ent" ->
                IF j > 0 /\ j = INODES - 1 /\ d[at].inum = None THEN None ELSE 0
           [] OTHER -> 0]

\* inode_locs.inode_loc.  Pieces are entered in CR.imap in order and stay.
InodeLoc(d) ==
  [k \in Inums |->
     IF CR(d).imap[k \div INODES] = None THEN None
     ELSE Piece(d, k \div INODES)[k % INODES]]

\* Inodes in use whose location holds an inode (a crash may leave others).
IsInode(d, k) == k \in Inums /\ InodeLoc(d)[k] \in DOMAIN d /\ d[InodeLoc(d)[k]].kind = "inode"
Inode(d, k) == d[InodeLoc(d)[k]]
IsDir(d, k) == IsInode(d, k) /\ Inode(d, k).type = MFS_DIRECTORY
IsFile(d, k) == IsInode(d, k) /\ Inode(d, k).type = MFS_REGULAR_FILE

-----------------------------------------------------------------------------
(* Searching a directory                                                   *)

\* Addresses of the entries in the blocks of directory inode `ino', by their
\* position in the search.
OwnAddr(ino) ==
  [m \in {m \in 0..(BLOCKS * DIRENTS - 1) : ino.block_loc[m \div DIRENTS] # None}
     |-> ino.block_loc[m \div DIRENTS] + (m % DIRENTS)]

\* server_lookup does not skip the unused block pointers: lseek to -1 fails and
\* read goes on where the last block ended, to the end of the file.
ScanAddr(ino) ==
  [m \in 0..(BLOCKS * DIRENTS - 1) |->
     LET last == Max({b \in 0..(m \div DIRENTS) : ino.block_loc[b] # None})
     IN  ino.block_loc[last] + (m - last * DIRENTS)]

IsEntry(d, a) == a \in DOMAIN d /\ d[a].kind = "ent"

\* The 32 bytes at address a as a search compares them: whatever they were
\* written as, the data of a file included.
EntryAt(d, a) == IF IsEntry(d, a) THEN d[a] ELSE AsEntry(d[a])

Matches(d, addr, nm) ==
  {m \in DOMAIN addr : addr[m] \in DOMAIN d /\ EntryAt(d, addr[m]).name = nm}

\* The inode number of the first match, None if there is none.
Find(d, addr, nm) ==
  LET found == Matches(d, addr, nm)
  IN  IF found = {} THEN None ELSE EntryAt(d, addr[Min(found)]).inum

server_lookup(d, p, nm) ==
  IF IsDir(d, p) THEN Find(d, ScanAddr(Inode(d, p)), nm) ELSE None

-----------------------------------------------------------------------------
(* The calls.  Each yields its return value and its writes, in order; a    *)
(* write is a pair of an address and the cells written there.              *)

Reply(r) == [ret |-> r, writes |-> <<>>]

\* The image after the first k writes.
After(d, writes, k) ==
  FoldLeft(LAMBDA e, w : Put(e, w[1], w[2]), d, SubSeq(writes, 1, k))

Whole(d, h) == After(d, h.writes, Len(h.writes))

server_stat(d, k) ==
  IF IsInode(d, k) THEN [ret |-> 0, type |-> Inode(d, k).type, size |-> Inode(d, k).size]
  ELSE [ret |-> None]

\* The content of block b, Junk when the read is short or hits a hole.
BlockAt(d, a) ==
  IF a \in DOMAIN d /\ d[a].kind = "data" THEN d[a].val ELSE Junk

server_read(d, k, b) ==
  IF IsInode(d, k) /\ b \in Blocks /\ Inode(d, k).block_loc[b] # None
    THEN [ret |-> 0, data |-> BlockAt(d, Inode(d, k).block_loc[b])]
    ELSE [ret |-> None]

\* Where server_write puts the data: in the block the inode points to.
DataAtNewEnd(loc, grow) == IF grow THEN loc + DIRENTS ELSE loc   \* variant: CR.end after the addition
DataAt(loc, grow) == loc

server_write(d, k, v, b) ==
  IF ~IsFile(d, k) \/ b \notin Blocks THEN Reply(None)
  ELSE
    LET ino  == Inode(d, k)
        at   == InodeLoc(d)[k]
        end  == CR(d).end
        grow == ino.block_loc[b] = None
        loc  == IF grow THEN end ELSE ino.block_loc[b]
        cr   == CRCell(CR(d).imap, end + DIRENTS)
        ino2 == [ino EXCEPT !.size = b + 1, !.block_loc[b] = loc]
    IN  [ret    |-> 0,
         writes |-> (IF grow THEN << <<0, One(cr)>> >> ELSE <<>>)
                    \o << <<at, One(ino2)>>, <<DataAt(loc, grow), DataBlock(v)>> >>]

\* CR.end after an inode and its first block were appended at `at'.
EndWithoutBlock(at) == at + 1          \* variant: the block is not counted
EndAfterInode(at) == at + 1 + DIRENTS

\* create_inode_imap: the number of the new inode, the checkpoint region in
\* memory afterwards, and the writes.
create_inode_imap(d, p, type) ==
  LET empty == {k \in Inums : InodeLoc(d)[k] = None}
      k     == Min(empty)
      new   == k % INODES = 0
      slots == {m \in 0..(IMAPS - 1) : CR(d).imap[m] = None}
      m     == Min(slots)
      end   == CR(d).end
      cr1   == IF new THEN CRCell([CR(d).imap EXCEPT ![m] = end], end + 1) ELSE CR(d)
      at    == cr1.end
      piece == IF new THEN [j \in 0..(INODES - 1) |-> None] ELSE Piece(d, k \div INODES)
      cr2   == CRCell(cr1.imap, EndAfterInode(at))
      block == [b \in Blocks |-> IF b = 0 THEN at + 1 ELSE None]
      isDir == type = MFS_DIRECTORY
  IN  IF empty = {} \/ (new /\ slots = {}) THEN [inum |-> None, cr |-> CR(d), writes |-> <<>>]
      ELSE [inum   |-> k,
            cr     |-> cr2,
            writes |->
              (IF new THEN << <<0, One(cr1)>>, <<end, One(ImapCell(piece))>> >> ELSE <<>>)
              \o << <<cr1.imap[k \div INODES], One(ImapCell([piece EXCEPT ![k % INODES] = at]))>>,
                    <<at, One(InodeCell(type, IF isDir THEN 2 ELSE 0, block))>>,
                    <<at + 1, IF isDir THEN DirBlock(k, p) ELSE DataBlock(Junk)>>,
                    <<0, One(cr2)>> >>]

\* The slot of the next entry in its block, and the size with it.
SlotOfLast(ino) == (ino.size - 1) % DIRENTS     \* variant: off by one
NextSlot(ino)   == ino.size % DIRENTS
SizeKept(ino)   == ino.size                     \* variant: the size is not updated
SizeAfter(ino)  == ino.size + 1

\* The inode is on disk before the entry that names it.
NameFirst(inode, name) == name \o inode         \* variant: the entry first
NameLast(inode, name)  == inode \o name

AlwaysNew(d, p, nm) == FALSE                    \* variant: no lookup before
Exists(d, p, nm)    == server_lookup(d, p, nm) >= 0

server_create(d, p, type, nm) ==
  IF p \notin Inums \/ ~IsInode(d, p) THEN Reply(None)
  ELSE IF Exists(d, p, nm) THEN Reply(0)
  ELSE IF ~IsDir(d, p) \/ Inode(d, p).size >= BLOCKS * DIRENTS THEN Reply(None)
  ELSE
    LET new  == create_inode_imap(d, p, type)
        ino  == Inode(d, p)
        b    == ino.size \div DIRENTS
        j    == NextSlot(ino)
        full == j = 0
        loc  == IF full THEN new.cr.end ELSE ino.block_loc[b]
        cr   == CRCell(new.cr.imap, new.cr.end + DIRENTS)
        ino2 == [ino EXCEPT !.size = SizeAfter(ino), !.block_loc[b] = loc]
    IN  [ret    |-> 0,
         writes |-> NameLast(new.writes,
                      (IF full THEN << <<loc, FreeBlock>>, <<0, One(cr)>> >> ELSE <<>>)
                      \o << <<InodeLoc(d)[p], One(ino2)>>,
                            <<loc + j, One(EntCell(nm, new.inum))>> >>)]

\* del_inode_imap is given the address of the inode for its number.  The word
\* of CR.imap it indexes lies beyond CR: in inode_locs, as the Makefile lays the
\* program out, or in what follows.  While the word is -1, as in the unused tail
\* of inode_locs, lseek fails, and the piece that is read, changed and written is
\* what follows the inode just read: the map keeps the inode, and the start of the
\* first block of the inode is overwritten.
Overwrite(d, at) ==
  IF d[at].type = MFS_DIRECTORY
    THEN <<at + 3, [j \in 0..1 |-> d[at + 1 + j]]>>
    ELSE <<at + 1, DataBlock(Junk)>>

\* Or nothing changes: no word of that block is positive and CR is written back, or
\* the word is 0, as behind inode_locs, and so is CR.imap[WORD] None already.
Rewrite(d) == <<0, One(CRCell(CR(d).imap, CR(d).end))>>

del_inode_imap(d, at) == {Overwrite(d, at), Rewrite(d)}

\* What it writes once the image is larger: when the word is 0, CR is read as the
\* piece and loses a piece of the map; when it is the location of an inode, that
\* inode loses a block; when it is one that a crash has left without an inode, what
\* is there, or anywhere if that location was itself read from something else.
StrayWrites(d) ==
  LET imap == CR(d).imap
      far  == {k \in Inums : k >= FAR /\ InodeLoc(d)[k] # None}
      hit  == {k \in far : IsInode(d, k) /\ Inode(d, k).block_loc[WORD - 2] # None}
      left == IF \E k \in far : ~IsInode(d, k) THEN DOMAIN d \ {0} ELSE {}
  IN  {<<0, One(CRCell([m \in DOMAIN imap |-> IF m = l THEN None ELSE imap[m]], CR(d).end))>> :
         l \in {l \in DOMAIN imap \cap {WORD} : imap[l] # None}}
      \cup {<<InodeLoc(d)[k], One([Inode(d, k) EXCEPT !.block_loc[WORD - 2] = None])>> : k \in hit}
      \cup {<<a, One(DataCell(Junk))>> : a \in left}

\* What UNLINK may do when del_inode_imap makes no stray write.
server_unlink(d, p, nm) ==
  IF ~IsDir(d, p) \/ nm \in {".", ".."} THEN {Reply(None)}
  ELSE
    LET ino   == Inode(d, p)
        found == Matches(d, OwnAddr(ino), nm)
        at    == OwnAddr(ino)[Min(found)]
        loc   == InodeLoc(d)[EntryAt(d, at).inum]
        dead  == d[loc]
        size  == Max({b \in Blocks : ino.block_loc[b] # None}) + 1
    IN  IF found = {} THEN {Reply(0)}
        ELSE IF dead.type = MFS_DIRECTORY /\ dead.size > 2 THEN {Reply(None)}
        ELSE {[ret    |-> 0,
               writes |-> <<w>> \o << <<at, One(EntCell(Free, None))>>,
                                     <<InodeLoc(d)[p], One([ino EXCEPT !.size = size])>> >>] :
              w \in del_inode_imap(d, loc)}
=============================================================================
