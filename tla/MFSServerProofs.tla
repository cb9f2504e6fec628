--------------------------- MODULE MFSServerProofs ---------------------------
(***************************************************************************)
(* Proofs about module MFSServer: for every number of names, blocks,       *)
(* entries, map pieces and inodes, every sequence of calls and a crash     *)
(* between any two writes, what has a name is in place on the image,       *)
(* nothing else has its cells, and it has no other name.                   *)
(*                                                                         *)
(* The writes of each call lead from a sound image to a sound one over     *)
(* sound ones (WriteLeads, CreateLeads, UnlinkLeads), and so do those that *)
(* are left at any point of the call; none changes what a file holds that  *)
(* the call is not about, each is one step of the tree or none, and after  *)
(* the last the call has done what it was asked, so that to execute it     *)
(* again changes nothing.                                                  *)
(*                                                                         *)
(* All of it but the content of the files that keep their blocks holds up  *)
(* to the first UNLINK whose del_inode_imap writes elsewhere than in the   *)
(* file it deletes: MFSServer ends with that write.  It takes an image of  *)
(* more than FAR inodes, 64 in the code.                                   *)
(***************************************************************************)
EXTENDS MFSServer, MFSImage

-----------------------------------------------------------------------------
(* WRITE                                                                   *)

\* An inode with another size and another block b.
Edit(ino, s, b, l) == [ino EXCEPT !.size = s, !.block_loc[b] = l]

\* It is an inode, and differs in nothing else.
LEMMA Edited ==
  ASSUME NEW ino \in InodeCells, NEW s \in Nat, NEW b \in Blocks, NEW l \in Int
  PROVE  /\ Edit(ino, s, b, l) \in InodeCells
         /\ Edit(ino, s, b, l).type = ino.type
         /\ Edit(ino, s, b, l).size = s
         /\ Edit(ino, s, b, l).block_loc = [ino.block_loc EXCEPT ![b] = l]
         /\ ino.block_loc \in [Blocks -> Int]
BY DEF InodeCells, Edit

\* Block b of file k reads v.
Reads(d, k, v, b) == server_read(d, k, b) = [ret |-> 0, data |-> v]

\* So it does once it has been written, from its first cell to its last, and the
\* file ends with it.
Wrote(d, k, v, b) ==
  /\ Reads(d, k, v, b) /\ k \in Live(d) /\ IsFile(d, k) /\ b \in Blocks
  /\ d[Loc(d, k)].size = b + 1 /\ Blk(d, k, b) # None /\ Filled(d, Blk(d, k, b), v)

\* The writes of WRITE, after which the block reads what was written.
LEMMA WriteLeads ==
  ASSUME NEW d, NEW U, Well(d, U), NEW k \in Live(d), NEW v \in Data, NEW b \in Blocks
  PROVE  \E e : /\ Leads(d, server_write(d, k, v, b).writes, e, Only(k, b), U)
                /\ server_write(d, k, v, b).ret = 0 => None \in U \/ Wrote(e, k, v, b)
<1> DEFINE K    == Live(d)
           ino  == d[Loc(d, k)]
           end  == CR(d).end
           grow == ino.block_loc[b] = None
           loc  == IF grow THEN end ELSE ino.block_loc[b]
           cr   == CRCell(CR(d).imap, end + DIRENTS)
           ino2 == [ino EXCEPT !.size = b + 1, !.block_loc[b] = loc]
           d1   == IF grow THEN Put(d, 0, One(cr)) ELSE d
           d2   == Put(d1, Loc(d, k), One(ino2))
           d3   == Put(d2, loc, DataBlock(v))
           w1   == IF grow THEN << <<0, One(cr)>> >> ELSE <<>>
           w2   == << <<Loc(d, k), One(ino2)>>, <<loc, DataBlock(v)>> >>
<1>0. Sound(d, K) /\ Fine(d, K, U)
  BY DEF Well
<1>1. CASE ~IsFile(d, k)
  <2>1. server_write(d, k, v, b).writes = <<>> /\ server_write(d, k, v, b).ret # 0
    BY <1>1 DEF server_write, Reply, None
  <2>2. QED BY <2>1, LeadsNone
<1>2. CASE IsFile(d, k)
  <2>1. InodeLoc(d)[k] = Loc(d, k) /\ Inode(d, k) = ino
    <3>1. InPlace(d, k) /\ Shaped(d)
      BY <1>0 DEF Sound
    <3>2. QED BY <3>1, LocIs
  <2>2. server_write(d, k, v, b).writes = w1 \o w2
    BY <1>2, <2>1 DEF server_write, DataAt
  <2>3. /\ ino \in InodeCells /\ ino.type = MFS_REGULAR_FILE /\ ~IsDirAt(d, k)
        /\ Loc(d, k) \in Nat /\ end \in Nat /\ end > 1 /\ b \in Nat
    BY <1>0, <1>2, <2>1, Facts, Constants DEF IsFile, IsDirAt, Blocks, MFS_DIRECTORY, MFS_REGULAR_FILE
  <2>4. /\ Sound(d1, K) /\ Fine(d1, K, U) /\ Leads(d, w1, d1, Only(k, b), U)
        /\ \A x \in K : MapAt(d1, x) = MapAt(d, x) /\ Loc(d1, x) = Loc(d, x) /\ d1[Loc(d, x)] = d[Loc(d, x)]
        /\ CR(d1).imap = CR(d).imap
        /\ CR(d1).end = IF grow THEN end + DIRENTS ELSE end
        /\ None \in U \/ k \in Live(d1)
        /\ grow => BlockAt(d1, end) = Junk
    <3>1. CASE grow
      <4>1. /\ CR(d).imap \in [Pieces -> Int]
            /\ \A m, n \in Pieces : m # n /\ CR(d).imap[m] # None => CR(d).imap[m] # CR(d).imap[n]
        BY <1>0 DEF Sound, Shaped
      <4>2. end + DIRENTS \in Nat /\ end + DIRENTS >= end
        BY <2>3, Constants
      <4>3. d1 = Put(d, 0, One(CRCell(CR(d).imap, end + DIRENTS)))
        BY <3>1
      <4>4. /\ Sound(d1, K) /\ Same(d, d1, K) /\ Keeps(d, d1, K, {}) /\ DirsStay(d, d1, K)
            /\ CR(d1).imap = CR(d).imap /\ CR(d1).end = end + DIRENTS /\ Stays(d, d1) /\ Calm(d, d1)
            /\ DOMAIN d1 = DOMAIN d /\ \A a \in DOMAIN d : a # 0 => d1[a] = d[a]
        <5> HIDE DEF d1
        <5>1. QED BY <1>0, <4>1, <4>2, <4>3, WriteCR
      <4>7. Fine(d1, K, U) /\ TreeStays(d, d1, U)
        BY <1>0, <4>4, FineSame
      <4>8. Shown(d, d1, U)
        BY <1>0, <4>4, <4>7, ShownSame
      <4>9. None \in U \/ k \in Live(d1)
        BY <4>7 DEF TreeStays, SameTree
      <4>10. BlockAt(d1, end) = Junk
        BY <1>0, <2>3, <4>4 DEF BlockAt, Fine, JunkBeyond
      <4>5. Leads(d, w1, d1, Only(k, b), U)
        <5>1. Leads(d, w1, d1, {}, U)
          BY <1>0, <3>1, <4>4, <4>7, <4>8, LeadsOne
        <5>2. QED BY <5>1, LeadsLess
      <4>6. QED BY <3>1, <4>4, <4>5, <4>7, <4>9, <4>10 DEF Same
    <3>2. CASE ~grow
      BY <1>0, <3>2, LeadsNone
    <3>3. QED BY <3>1, <3>2
  <2>5. loc \in Int /\ (grow => loc = end /\ b # 0) /\ (~grow => loc = Blk(d, k, b)) /\ loc # None
    <3>1. Blk(d, k, b) \in Int /\ Blk(d, k, b) = ino.block_loc[b]
      BY <2>3 DEF Blk, InodeCells
    <3>2. Blk(d, k, 0) # None
      <4>1. InPlace(d, k)
        BY <1>0 DEF Sound
      <4>2. QED BY <4>1 DEF InPlace, None
    <3>3. QED BY <3>1, <3>2, <2>3 DEF None
  <2>6. /\ ino2 \in InodeCells /\ ino2.type = ino.type /\ ino2.block_loc[b] = loc /\ ino2.size = b + 1
        /\ \A x \in Blocks : x # b => ino2.block_loc[x] = Blk(d, k, x)
    <3>1. b + 1 \in Nat
      BY <2>3
    <3>2. \A x \in Blocks : Blk(d, k, x) = ino.block_loc[x]
      BY DEF Blk
    <3>3. ino2 = Edit(ino, b + 1, b, loc)
      BY DEF Edit
    <3> HIDE DEF ino, loc, ino2
    <3>4. /\ ino2 \in InodeCells /\ ino2.type = ino.type /\ ino2.block_loc[b] = loc /\ ino2.size = b + 1
          /\ \A x \in Blocks : x # b => ino2.block_loc[x] = ino.block_loc[x]
      <4>1. ino \in InodeCells /\ loc \in Int
        BY <2>3, <2>5
      <4>2. Edit(ino, b + 1, b, loc) \in InodeCells
        BY <3>1, <4>1, Edited
      <4>7. Edit(ino, b + 1, b, loc).size = b + 1
        BY <4>1 DEF Edit, InodeCells
      <4>3. Edit(ino, b + 1, b, loc).type = ino.type
        BY <4>1 DEF Edit, InodeCells
      <4>4. Edit(ino, b + 1, b, loc).block_loc = [ino.block_loc EXCEPT ![b] = loc]
        BY <3>1, <4>1, Edited
      <4>5. ino.block_loc \in [Blocks -> Int]
        BY <3>1, <4>1, Edited
      <4>6. QED BY <3>3, <4>2, <4>3, <4>4, <4>5, <4>7
    <3>5. QED BY <3>2, <3>4
  <2>7. /\ \A x \in K, i \in Blocks : Blk(d1, x, i) = Blk(d, x, i)
        /\ \A x \in K : IsDirAt(d1, x) = IsDirAt(d, x)
    BY <2>4 DEF Blk, IsDirAt
  <2>8. grow => Below(d1, K, loc) /\ loc > 0 /\ loc + DIRENTS <= CR(d1).end
    <3>1. Below(d, K, end)
      BY <1>0, Facts
    <3>2. Below(d1, K, end)
      BY <3>1, <2>4, <2>7 DEF Below
    <3>3. QED BY <3>2, <2>3, <2>4, <2>5, Constants
  <2> HIDE DEF ino2, loc, grow, d1, K
  <2>9. /\ Sound(d2, K) /\ Fine(d2, K, U) /\ Keeps(d1, d2, K, Only(k, b)) /\ Shown(d1, d2, U)
        /\ None \in U \/ k \in Live(d2)
        /\ CR(d2) = CR(d1) /\ DOMAIN d2 = DOMAIN d1
        /\ \A x \in K : MapAt(d2, x) = MapAt(d1, x) /\ Loc(d2, x) = Loc(d1, x)
        /\ d2[Loc(d, k)] = ino2 /\ Loc(d2, k) = Loc(d, k)
    <3>1. k \in K /\ Loc(d1, k) = Loc(d, k) /\ d1[Loc(d, k)] = ino
      BY <2>4 DEF K
    <3>3. ~IsDirAt(d1, k)
      BY <2>3, <2>7, <3>1
    <3>2. \/ ino2.block_loc[b] = Blk(d1, k, b)
          \/ /\ b # 0 /\ ino2.block_loc[b] > 0 /\ Below(d1, K, ino2.block_loc[b])
             /\ ino2.block_loc[b] + DIRENTS <= CR(d1).end
             /\ IsDirAt(d1, k) =>
                  b * DIRENTS < ino2.size /\ \A j \in Slots : IsEntry(d1, ino2.block_loc[b] + j)
      BY <2>5, <2>6, <2>7, <2>8, <3>1, <3>3
    <3>4. \A x \in Blocks : x # b => ino2.block_loc[x] = Blk(d1, k, x)
      BY <2>6, <2>7, <3>1
    <3>5. ino2.type = d1[Loc(d1, k)].type /\ d2 = Put(d1, Loc(d1, k), One(ino2))
      BY <2>6, <3>1
    <3> HIDE DEF d2
    <3>6. /\ Sound(d2, K) /\ (Blk(d1, k, b) \in {None, ino2.block_loc[b]} => Keeps(d1, d2, K, {}))
          /\ CR(d2) = CR(d1) /\ DOMAIN d2 = DOMAIN d1
          /\ Same(d1, d2, Others(K, k)) /\ DirsStay(d1, d2, K)
          /\ \A x \in K : MapAt(d2, x) = MapAt(d1, x) /\ Loc(d2, x) = Loc(d1, x)
          /\ d2[Loc(d1, k)] = ino2 /\ Stays(d1, d2) /\ Calm(d1, d2)
          /\ \A a \in DOMAIN d1 : a # Loc(d1, k) => d2[a] = d1[a]
      BY <3>1, <3>2, <3>3, <3>4, <3>5, <2>4, <2>6, WriteInode
    <3>7. Blk(d1, k, b) \in {None, ino2.block_loc[b]}
      <4>1. ~grow => Blk(d1, k, b) = ino2.block_loc[b]
        BY <2>5, <2>6, <2>7, <3>1
      <4>2. grow => Blk(d1, k, b) = None
        BY <2>7, <3>1 DEF grow, Blk
      <4>3. QED BY <4>1, <4>2
    <3>8. Keeps(d1, d2, K, Only(k, b))
      BY <3>6, <3>7, KeepsLess
    <3>10. ~IsDirAt(d2, k)
      BY <2>3, <2>6, <3>1, <3>6 DEF IsDirAt, MFS_DIRECTORY, MFS_REGULAR_FILE
    <3>11. Fine(d2, K, U) /\ TreeStays(d1, d2, U)
      <4>1. Covered(d2, k) /\ NoNew(d1, d2, k)
        BY <3>10, NoNames DEF Covered
      <4>3. IsDirAt(d2, k) = IsDirAt(d1, k)
        BY <3>3, <3>10 DEF IsDirAt
      <4>2. QED BY <4>1, <4>3, <2>4, <3>1, <3>3, <3>6, FineInode
    <3>12. \A l \in K, c \in Blocks : <<l, c>> \in Only(k, b) \/ Blk(d2, l, c) = Blk(d1, l, c)
      <4>1. \A l \in K : l = k \/ l \in Others(K, k)
        BY DEF Others
      <4>2. \A l \in Others(K, k), c \in Blocks : Blk(d2, l, c) = Blk(d1, l, c)
        BY <3>6, OthersSame, SameKept
      <4>3. \A c \in Blocks : c # b => Blk(d2, k, c) = Blk(d1, k, c)
        BY <3>1, <3>4, <3>6 DEF Blk
      <4>4. QED BY <4>1, <4>2, <4>3 DEF Only
    <3>13. Blk(d2, k, b) = loc /\ loc # None
      BY <2>5, <2>6, <3>1, <3>6 DEF Blk
    <3>14. Shown(d1, d2, U)
      <4>1. CASE grow
        <5>1. BlockAt(d2, loc) = Junk
          <6>1. loc = end /\ loc # Loc(d1, k)
            BY <4>1, <1>0, <2>5, <3>1, Facts DEF K
          <6>2. QED BY <6>1, <4>1, <2>4, <3>6 DEF BlockAt
        <5>2. QED BY <5>1, <2>4, <3>3, <3>8, <3>11, <3>12, <3>13, ShownChange
      <4>2. CASE ~grow
        <5>1. Blk(d1, k, b) # None
          BY <4>2, <2>7, <3>1 DEF grow, Blk
        <5>2. \A l \in K, c \in Blocks : Blk(d1, l, c) = None => Blk(d2, l, c) = None
          BY <5>1, <3>12 DEF Only
        <5>3. QED BY <5>2, <2>4, <3>6, <3>7, <3>11, ShownStill
      <4>3. QED BY <4>1, <4>2
    <3>15. None \in U \/ k \in Live(d2)
      BY <2>4, <3>11 DEF TreeStays, SameTree
    <3>9. QED BY <3>1, <3>6, <3>8, <3>11, <3>14, <3>15
  <2>10. Blk(d2, k, b) = loc /\ IsDirAt(d2, k) = FALSE
    <3>1. d2[Loc(d2, k)] = ino2
      BY <2>4, <2>9 DEF K
    <3>2. QED BY <3>1, <2>3, <2>6 DEF Blk, IsDirAt, MFS_DIRECTORY, MFS_REGULAR_FILE
  <2>11. /\ Sound(d3, K) /\ Fine(d3, K, U) /\ Keeps(d2, d3, K, Only(k, b)) /\ Shown(d2, d3, U)
         /\ None \in U \/ Wrote(d3, k, v, b)
    <3>1. k \in K /\ d3 = Put(d2, Blk(d2, k, b), DataBlock(v))
      BY <2>10 DEF K
    <3>2. Blk(d2, k, b) # None /\ ~IsDirAt(d2, k)
      BY <2>5, <2>10
    <3> HIDE DEF d3
    <3>3. /\ Sound(d3, K) /\ Same(d2, d3, K) /\ Keeps(d2, d3, K, Only(k, b))
          /\ DirsStay(d2, d3, K) /\ Stays(d2, d3) /\ Calm(d2, d3)
          /\ BlockAt(d3, Blk(d2, k, b)) = v /\ Filled(d3, Blk(d2, k, b), v)
      BY <3>1, <3>2, <2>9, WriteData
    <3>5. Fine(d3, K, U) /\ TreeStays(d2, d3, U)
      BY <3>3, <2>9, FineSame
    <3>6. \A l \in K, c \in Blocks : Blk(d3, l, c) = Blk(d2, l, c)
      BY <3>3, SameKept
    <3>7. Blk(d3, k, b) # None /\ BlockAt(d3, Blk(d3, k, b)) = v /\ v \in Data
      BY <3>1, <3>2, <3>3, <3>6
    <3>8. Shown(d2, d3, U)
      BY <2>9, <3>2, <3>3, <3>5, <3>6, <3>7, ShownChange
    <3>9. Reads(d3, k, v, b)
      <4>1. InPlace(d3, k) /\ Shaped(d3)
        BY <3>1, <3>3 DEF Sound
      <4>2. IsInode(d3, k) /\ Inode(d3, k) = d3[Loc(d3, k)]
        BY <4>1, LocIs
      <4>3. QED BY <4>2, <3>7 DEF Reads, server_read, Blk
    <3>10. IsFile(d3, k) /\ d3[Loc(d3, k)].size = b + 1
      <4>1. InPlace(d3, k) /\ Shaped(d3)
        BY <3>1, <3>3 DEF Sound
      <4>2. IsInode(d3, k) /\ Inode(d3, k) = d3[Loc(d3, k)]
        BY <4>1, LocIs
      <4>3. d3[Loc(d3, k)] = ino2
        BY <3>1, <3>3, <2>9 DEF Same
      <4>4. QED BY <4>2, <4>3, <2>3, <2>6 DEF IsFile
    <3>11. None \in U \/ k \in Live(d3)
      BY <2>9, <3>5 DEF TreeStays, SameTree
    <3>12. None \in U \/ Wrote(d3, k, v, b)
      BY <3>3, <3>6, <3>7, <3>9, <3>10, <3>11, <3>1 DEF Wrote
    <3>4. QED BY <3>3, <3>5, <3>8, <3>12
  <2>12. Leads(d1, << <<Loc(d, k), One(ino2)>> >>, d2, Only(k, b), U)
    BY <2>4, <2>9, LeadsOne
  <2>13. Leads(d2, << <<loc, DataBlock(v)>> >>, d3, Only(k, b), U)
    BY <2>9, <2>11, LeadsOne
  <2>14. Leads(d1, w2, d3, Only(k, b), U)
    BY <2>12, <2>13, LeadsThen
  <2>15. Leads(d, w1 \o w2, d3, Only(k, b), U)
    BY <2>4, <2>14, LeadsOn
  <2>16. QED BY <2>2, <2>11, <2>15
<1>3. QED BY <1>1, <1>2

-----------------------------------------------------------------------------
(* CREAT: a new inode, and its entry                                       *)

\* The map leads to the end of the log for k.
Ready(d, k) ==
  /\ MapAt(d, k) # None /\ MapAt(d, k) \in DOMAIN d /\ d[MapAt(d, k)].kind = "imap"
  /\ d[MapAt(d, k)].inode_loc[0] # None /\ Loc(d, k) = CR(d).end

\* A new inode k at address at, and its first block; a directory is made in p.
Fresh(c, cells, at, k, p) ==
  /\ c \in InodeCells /\ \A b \in Blocks : c.block_loc[b] = IF b = 0 THEN at + 1 ELSE None
  /\ Run(cells, DIRENTS) /\ \A j \in Slots : Blank(cells[j])
  /\ c.type = MFS_DIRECTORY => c.size \in 1..DIRENTS /\ \A j \in Slots : cells[j].kind = "ent"
  /\ c.type = MFS_DIRECTORY => \A j \in Slots : cells[j].name = Free \/ j < c.size
  /\ c.type = MFS_DIRECTORY =>
       cells[0].name = "." /\ cells[0].inum = k /\ cells[1].name = ".." /\ cells[1].inum = p

\* Names stay unique with a directory that has none, or a file.
LEMMA UniqueMore ==
  ASSUME NEW d, NEW K, Unique(d, K), NEW k, Bare(d, k)
  PROVE  Unique(d, With(K, k))
BY DEF Unique, With, Bare

\* The inode at the end of the log, its block and the new end: the number that
\* the map has for it leads to it.
LEMMA PlaceInode ==
  ASSUME NEW d, NEW K, Sound(d, K), NEW U, Fine(d, K, U), NoNone(d), NEW k \in Inums,
         Ready(d, k), NEW c, NEW cells, NEW p, Fresh(c, cells, CR(d).end, k, p)
  PROVE  \E d4, d5, d6 :
           /\ Leads(d, << <<CR(d).end, One(c)>> >>, d4, {}, U)
           /\ Leads(d4, << <<CR(d).end + 1, cells>> >>, d5, {}, U)
           /\ Leads(d5, << <<0, One(CRCell(CR(d).imap, CR(d).end + 1 + DIRENTS))>> >>, d6, {}, U)
           /\ Sound(d6, With(K, k)) /\ Fine(d6, With(K, k), U) /\ Same(d, d6, K)
           /\ NoGain(d, d6, K) /\ TreeStays(d, d6, U) /\ Newborn(d6, k, p) /\ k \notin K /\ NoNone(d6)
           /\ CR(d6).imap = CR(d).imap /\ CR(d6).end = CR(d).end + 1 + DIRENTS
<1> DEFINE at == CR(d).end
           m  == MapAt(d, k)
           d4 == Put(d, at, One(c))
           d5 == Put(d4, at + 1, cells)
           d6 == Put(d5, 0, One(CRCell(CR(d).imap, at + 1 + DIRENTS)))
<1>1. /\ at \in Nat /\ at > 1 /\ DIRENTS \in Nat /\ DIRENTS >= 4 /\ BLOCKS \in Nat /\ 0 \in Blocks
      /\ PieceOf(k) \in Pieces /\ IndexOf(k) \in 0..(INODES - 1) /\ CR(d).imap \in [Pieces -> Int]
  BY Facts, Constants, Split DEF Sound, Shaped
<1>0. /\ c \in InodeCells /\ \A b \in Blocks : c.block_loc[b] = IF b = 0 THEN at + 1 ELSE None
      /\ Run(cells, DIRENTS) /\ \A j \in Slots : Blank(cells[j])
      /\ c.type = MFS_DIRECTORY => c.size \in 1..DIRENTS /\ \A j \in Slots : cells[j].kind = "ent"
      /\ c.type = MFS_DIRECTORY => \A j \in Slots : cells[j].name = Free \/ j < c.size
      /\ c.type = MFS_DIRECTORY =>
           cells[0].name = "." /\ cells[0].inum = k /\ cells[1].name = ".." /\ cells[1].inum = p
  BY DEF Fresh
<1> USE <1>0
<1>2. /\ Sound(d4, K) /\ Same(d, d4, K) /\ Keeps(d, d4, K, {}) /\ DirsStay(d, d4, K)
      /\ CR(d4) = CR(d) /\ at \in DOMAIN d4 /\ d4[at] = c /\ Stays(d, d4) /\ Calm(d, d4)
      /\ \A a \in DOMAIN d : a # at => a \in DOMAIN d4 /\ d4[a] = d[a]
  <2>1. at \in Nat /\ at >= CR(d).end /\ Blank(c) /\ d4 = Put(d, at, One(c))
    BY <1>1 DEF Blank
  <2> HIDE DEF d4, at
  <2>2. QED BY <2>1, WriteFreeCell
<1> HIDE DEF d4
<1>3. /\ Sound(d5, K) /\ Same(d4, d5, K) /\ Keeps(d4, d5, K, {}) /\ DirsStay(d4, d5, K)
      /\ CR(d5) = CR(d) /\ Stays(d4, d5) /\ Calm(d4, d5)
      /\ \A j \in Slots : at + 1 + j \in DOMAIN d5 /\ d5[at + 1 + j] = cells[j]
      /\ \A a \in DOMAIN d4 : a <= at => a \in DOMAIN d5 /\ d5[a] = d4[a]
  <2> DEFINE x == at + 1
  <2>1. x \in Nat /\ x >= CR(d4).end /\ d5 = Put(d4, x, cells)
    BY <1>1, <1>2
  <2>2. \A a \in DOMAIN d4 : a <= at => a < x
    BY <1>1, <1>2 DEF Sound, Shaped
  <2> HIDE DEF d5, x
  <2>3. /\ Sound(d5, K) /\ Same(d4, d5, K) /\ Keeps(d4, d5, K, {}) /\ DirsStay(d4, d5, K)
        /\ CR(d5) = CR(d4) /\ Stays(d4, d5) /\ Calm(d4, d5)
        /\ \A j \in Slots : x + j \in DOMAIN d5 /\ d5[x + j] = cells[j]
        /\ \A a \in DOMAIN d4 : a < x => a \in DOMAIN d5 /\ d5[a] = d4[a]
    BY <1>2, <2>1, WriteFreeBlock
  <2>4. QED BY <1>2, <2>2, <2>3 DEF x
<1> HIDE DEF d5
<1>4. /\ Sound(d6, K) /\ Same(d5, d6, K) /\ Keeps(d5, d6, K, {}) /\ DirsStay(d5, d6, K)
      /\ CR(d6).imap = CR(d).imap /\ CR(d6).end = at + 1 + DIRENTS
      /\ NoneStay(d5, d6) /\ Calm(d5, d6) /\ DOMAIN d6 = DOMAIN d5 /\ \A a \in DOMAIN d5 : a # 0 => d6[a] = d5[a]
  <2>1. at + 1 + DIRENTS \in Nat /\ at + 1 + DIRENTS >= CR(d5).end
    BY <1>1, <1>3
  <2>2. \A x, y \in Pieces : x # y /\ CR(d).imap[x] # None => CR(d).imap[x] # CR(d).imap[y]
    BY DEF Sound, Shaped
  <2>3. d6 = Put(d5, 0, One(CRCell(CR(d).imap, at + 1 + DIRENTS)))
    OBVIOUS
  <2>4. \A x \in Pieces : CR(d).imap[x] = CR(d5).imap[x]
    BY <1>3
  <2> HIDE DEF d6, at
  <2>5. QED BY <1>1, <1>3, <2>1, <2>2, <2>3, <2>4, WriteCR
<1> HIDE DEF d6
<1>5. m \in 1..(at - 1) /\ m = CR(d).imap[PieceOf(k)]
  BY <1>1, Facts DEF MapAt, Ready
<1>6. MapAt(d6, k) = m /\ m \in DOMAIN d6 /\ d6[m] = d[m]
  <2>1. MapAt(d6, k) = m
    BY <1>4 DEF MapAt
  <2>2. m \in DOMAIN d4 /\ d4[m] = d[m]
    BY <1>1, <1>2, <1>5 DEF Ready
  <2>3. m \in DOMAIN d5 /\ d5[m] = d[m]
    BY <2>2, <1>1, <1>3, <1>5
  <2>4. QED BY <2>1, <2>3, <1>1, <1>4, <1>5
<1>7. Loc(d6, k) = at /\ at \in DOMAIN d6 /\ d6[at] = c
  <2>1. Loc(d6, k) = at
    BY <1>6 DEF Loc, Ready
  <2>2. QED BY <2>1, <1>1, <1>2, <1>3, <1>4
<1>8. \A b \in Blocks : Blk(d6, k, b) = IF b = 0 THEN at + 1 ELSE None
  BY <1>7 DEF Blk
<1>9. Same(d, d6, K)
  BY <1>2, <1>3, <1>4 DEF Same
<1>10. InPlace(d6, k)
  <2>1. /\ MapAt(d6, k) # None /\ MapAt(d6, k) \in DOMAIN d6
        /\ d6[MapAt(d6, k)].kind = "imap" /\ d6[MapAt(d6, k)].inode_loc[0] # None
    BY <1>6 DEF Ready
  <2>2. /\ Loc(d6, k) \in 1..(CR(d6).end - 1) /\ Loc(d6, k) \in DOMAIN d6
        /\ d6[Loc(d6, k)].kind = "inode" /\ Blk(d6, k, 0) = Loc(d6, k) + 1
        /\ \A b \in Blocks : Blk(d6, k, b) # None => Blk(d6, k, b) \in 1..(CR(d6).end - DIRENTS)
    BY <1>1, <1>4, <1>7, <1>8 DEF InodeCells
  <2>3. ASSUME IsDirAt(d6, k)
        PROVE  /\ d6[Loc(d6, k)].size > 0
               /\ \A b \in Blocks : b * DIRENTS < d6[Loc(d6, k)].size => Blk(d6, k, b) # None
               /\ Gapless(d6, k)
               /\ \A b \in Blocks : Blk(d6, k, b) # None => \A j \in Slots : IsEntry(d6, Blk(d6, k, b) + j)
    <3>1. c.type = MFS_DIRECTORY
      BY <2>3, <1>7 DEF IsDirAt
    <3>2. c.size \in 1..DIRENTS
      BY <3>1
    <3>3. \A b \in Blocks : b * DIRENTS < c.size => b = 0
      <4> TAKE b \in Blocks
      <4>1. b \in Nat
        BY <1>1 DEF Blocks
      <4>2. b # 0 => b * DIRENTS >= DIRENTS
        BY <4>1, <1>1
      <4>3. QED BY <4>1, <4>2, <3>2, <1>1
    <3>4. \A j \in Slots : IsEntry(d6, at + 1 + j)
      <4> TAKE j \in Slots
      <4>1. at + 1 + j # 0
        BY <1>1 DEF Slots
      <4>2. QED BY <3>1, <4>1, <1>3, <1>4 DEF IsEntry
    <3>5. \A b \in Blocks : Blk(d6, k, b) # None => b = 0 /\ Blk(d6, k, b) = at + 1
      BY <1>8
    <3>6. Blk(d6, k, 0) # None
      BY <1>1, <1>8 DEF None
    <3>8. Gapless(d6, k)
      BY <3>5 DEF Gapless, Blocks
    <3>7. QED BY <3>2, <3>3, <3>4, <3>5, <3>6, <3>8, <1>7
  <2>4. QED BY <2>1, <2>2, <2>3 DEF InPlace
<1>11. Below(d6, K, Loc(d6, k))
  <2>1. Below(d, K, at)
    BY Facts
  <2>2. \A x \in K : Loc(d6, x) = Loc(d, x) /\ \A b \in Blocks : Blk(d6, x, b) = Blk(d, x, b)
    BY <1>9 DEF Same, Blk
  <2>3. QED BY <2>1, <2>2, <1>4, <1>7 DEF Below
<1>12. Sound(d6, With(K, k))
  BY <1>4, <1>8, <1>10, <1>11, AddLive DEF With
<1>17. /\ Fine(d4, K, U) /\ Fine(d5, K, U) /\ Fine(d6, K, U) /\ NoNone(d6)
       /\ TreeStays(d, d4, U) /\ TreeStays(d4, d5, U) /\ TreeStays(d5, d6, U)
  <2>1. NoNone(d4) /\ NoNone(d5) /\ NoNone(d6)
    BY <1>2, <1>3, <1>4 DEF Stays, NoneStay
  <2>2. Fine(d4, K, U) /\ TreeStays(d, d4, U)
    BY <2>1, <1>2, FineSame
  <2>3. Fine(d5, K, U) /\ TreeStays(d4, d5, U)
    BY <2>1, <2>2, <1>2, <1>3, FineSame
  <2>4. Fine(d6, K, U) /\ TreeStays(d5, d6, U)
    BY <2>1, <2>3, <1>3, <1>4, FineSame
  <2>5. QED BY <2>1, <2>2, <2>3, <2>4
<1>22. TreeStays(d, d6, U)
  <2>1. TreeStays(d, d5, U)
    BY <1>17, TreeOn
  <2>2. QED BY <2>1, <1>17, TreeOn
<1>23. Shown(d, d4, U) /\ Shown(d4, d5, U) /\ Shown(d5, d6, U)
  BY <1>2, <1>3, <1>4, <1>17, ShownSame
<1>20. NoGain(d, d6, K)
  <2>1. NoGain(d, d4, K) /\ NoGain(d4, d5, K) /\ NoGain(d5, d6, K)
    BY <1>2, <1>3, <1>4, SameNames
  <2>2. QED BY <2>1, GainNone
<1>21. Bare(d6, k)
  <2>1. ASSUME IsDirAt(d6, k), NEW b \in Blocks, NEW j \in Slots, Blk(d6, k, b) # None
        PROVE  d6[Blk(d6, k, b) + j].name \in {".", "..", Free}
    <3>1. c.type = MFS_DIRECTORY
      BY <2>1, <1>7 DEF IsDirAt
    <3>2. Blk(d6, k, b) = at + 1
      BY <2>1, <1>8
    <3>3. at + 1 + j # 0
      BY <1>1 DEF Slots
    <3>4. d6[at + 1 + j] = cells[j]
      BY <3>3, <1>3, <1>4
    <3>5. cells[j].kind = "ent" /\ Blank(cells[j])
      BY <3>1
    <3>6. QED BY <3>2, <3>4, <3>5 DEF Blank, InodeCells
  <2>2. QED BY <2>1, NoNames DEF Bare
<1>24. /\ Blk(d6, k, 0) = at + 1 /\ at + 1 \in DOMAIN d6
       /\ d6[at + 1] = cells[0] /\ d6[at + 1 + 1] = cells[1]
  <2>1. 0 \in Slots /\ 1 \in Slots /\ at + 1 + 0 = at + 1 /\ at + 1 # 0 /\ at + 1 + 1 # 0
    BY <1>1 DEF Slots
  <2>2. QED BY <2>1, <1>1, <1>3, <1>4, <1>8
<1>25. k \notin K
  <2>1. k \in K => Loc(d, k) < at
    BY <1>1, Facts
  <2>2. Loc(d, k) = at
    BY DEF Ready
  <2>3. QED BY <2>1, <2>2, <1>1
<1>26. Newborn(d6, k, p)
  <2>1. \A b \in Blocks : Blk(d6, k, b) # None <=> b = 0
    BY <1>1, <1>8 DEF None
  <2>2. BlockAt(d6, at + 1) = Junk
    <3>1. Blank(cells[0])
      BY <1>1 DEF Slots
    <3>2. QED BY <3>1, <1>24 DEF Blank, BlockAt, InodeCells
  <2>3. k # 0
    BY <1>25, Facts
  <2>4. IsDirAt(d6, k) => DotsAt(d6, k) /\ Parent(d6, k) = p
    BY <1>7, <1>24, <2>3 DEF DotsAt, Parent, IsDirAt
  <2>5. QED BY <2>1, <2>2, <2>4, <1>21, <1>24 DEF Newborn
<1>18. Covered(d6, k)
  <2> SUFFICES ASSUME IsDirAt(d6, k), NEW b \in Blocks, NEW j \in Slots, Blk(d6, k, b) # None
               PROVE  d6[Blk(d6, k, b) + j].name = Free \/ b * DIRENTS + j < d6[Loc(d6, k)].size
    BY DEF Covered
  <2>1. c.type = MFS_DIRECTORY
    BY <1>7 DEF IsDirAt
  <2>2. b = 0 /\ Blk(d6, k, b) = at + 1
    BY <1>8
  <2>3. at + 1 + j # 0 /\ b * DIRENTS + j = j
    BY <2>2, <1>1 DEF Slots
  <2>4. d6[at + 1 + j] = cells[j]
    BY <2>3, <1>3, <1>4
  <2>5. QED BY <2>1, <2>2, <2>3, <2>4, <1>7
<1>19. Fine(d6, With(K, k), U)
  <2>1. Covers(d6, With(K, k), U)
    BY <1>17, <1>18 DEF Fine, Covers, With
  <2>2. Unique(d6, With(K, k))
    BY <1>17, <1>21, UniqueMore DEF Fine
  <2>4. Proper(d6, With(K, k), U)
    <3>1. Live(d6) \subseteq K
      BY <1>4 DEF Sound
    <3>2. QED BY <3>1, <1>17, <1>25, <1>26, DotsMore DEF Fine, Proper
  <2>3. QED BY <2>1, <2>2, <2>4, <1>17 DEF Fine, Settled
<1>13. Leads(d, << <<at, One(c)>> >>, d4, {}, U)
  BY <1>2, <1>17, <1>23, LeadsOne DEF d4
<1>14. Leads(d4, << <<at + 1, cells>> >>, d5, {}, U)
  BY <1>2, <1>3, <1>17, <1>23, LeadsOne DEF d5
<1>15. Leads(d5, << <<0, One(CRCell(CR(d).imap, at + 1 + DIRENTS))>> >>, d6, {}, U)
  BY <1>3, <1>4, <1>17, <1>23, LeadsOne DEF d6
<1>16. QED BY <1>4, <1>9, <1>12, <1>13, <1>14, <1>15, <1>17, <1>19, <1>20, <1>22, <1>25, <1>26

\* The map with a new piece m at the end of the log, the piece, and the writes
\* that bring them: the piece is pointed to before it is written.
Entered(d, m) == [CR(d).imap EXCEPT ![m] = CR(d).end]
NoLocs        == [j \in 0..(INODES - 1) |-> None]
Point(d, m)   == <<0, One(CRCell(Entered(d, m), CR(d).end + 1))>>
Fill(d)       == <<CR(d).end, One(ImapCell(NoLocs))>>

\* The first two writes of an inode that needs a new piece of the map.
LEMMA NewPiece ==
  ASSUME NEW d, NEW K, Sound(d, K), NEW U, Fine(d, K, U), NoNone(d), NEW m \in Pieces, CR(d).imap[m] = None
  PROVE  \E e : /\ Leads(d, <<Point(d, m), Fill(d)>>, e, {}, U)
               /\ Sound(e, K) /\ Fine(e, K, U) /\ Same(d, e, K)
               /\ NoGain(d, e, K) /\ TreeStays(d, e, U) /\ NoNone(e)
               /\ CR(e).imap = Entered(d, m) /\ CR(e).end = CR(d).end + 1
<1> DEFINE end == CR(d).end
           map == Entered(d, m)
           q  == NoLocs
           d1 == Put(d, 0, One(CRCell(map, end + 1)))
           e  == Put(d1, end, One(ImapCell(q)))
<1>1. /\ end \in Nat /\ end > 1 /\ CR(d).imap \in [Pieces -> Int]
      /\ \A x \in Pieces : CR(d).imap[x] # None => CR(d).imap[x] \in 1..(end - 1)
      /\ \A x, y \in Pieces : x # y /\ CR(d).imap[x] # None => CR(d).imap[x] # CR(d).imap[y]
  BY Facts DEF Sound, Shaped
<1>2. /\ map \in [Pieces -> Int] /\ map[m] = end
      /\ \A x \in Pieces : x # m => map[x] = CR(d).imap[x]
      /\ \A x, y \in Pieces : x # y /\ map[x] # None => map[x] # map[y]
  <2>1. map \in [Pieces -> Int] /\ map[m] = end /\ \A x \in Pieces : x # m => map[x] = CR(d).imap[x]
    BY <1>1 DEF Entered
  <2>2. \A x, y \in Pieces : x # y /\ map[x] # None => map[x] # map[y]
    BY <2>1, <1>1 DEF None
  <2>3. QED BY <2>1, <2>2
<1> HIDE DEF map
<1>3. /\ Sound(d1, K) /\ Same(d, d1, K) /\ Keeps(d, d1, K, {}) /\ DirsStay(d, d1, K)
      /\ CR(d1).imap = map /\ CR(d1).end = end + 1 /\ NoneStay(d, d1) /\ Calm(d, d1)
  <2>1. end + 1 \in Nat /\ end + 1 >= end
    BY <1>1
  <2>2. \A x \in Pieces : map[x] = CR(d).imap[x] \/ (CR(d).imap[x] = None /\ map[x] >= end /\ map[x] < end + 1)
    BY <1>1, <1>2
  <2>3. d1 = Put(d, 0, One(CRCell(map, end + 1)))
    OBVIOUS
  <2> HIDE DEF d1
  <2>4. QED BY <1>2, <2>1, <2>2, <2>3, WriteCR
<1>4. \A k \in K : PieceOf(k) # m
  <2> TAKE k \in K
  <2>1. MapAt(d, k) # None /\ MapAt(d, k) = CR(d).imap[PieceOf(k)]
    BY Facts
  <2>2. QED BY <2>1
<1>5. /\ Sound(e, K) /\ Same(d1, e, K) /\ Keeps(d1, e, K, {}) /\ DirsStay(d1, e, K)
      /\ CR(e) = CR(d1) /\ NoneStay(d1, e) /\ Calm(d1, e)
  <2>1. q \in [0..(INODES - 1) -> Int]
    BY DEF None, NoLocs
  <2>2. PieceIs(d1, m, end)
    BY <1>1, <1>2, <1>3 DEF None, PieceIs
  <2>3. Says(d1, K, m, q)
    BY <2>1, <1>4 DEF Says
  <2>4. e = Put(d1, end, One(ImapCell(q))) /\ Sound(d1, K)
    BY <1>3
  <2> HIDE DEF e, q, d1, end
  <2>5. QED BY <2>2, <2>3, <2>4, WritePiece
<1>11. /\ Fine(d1, K, U) /\ Fine(e, K, U) /\ NoNone(e)
       /\ TreeStays(d, d1, U) /\ TreeStays(d1, e, U) /\ TreeStays(d, e, U)
  <2>1. NoNone(d1) /\ NoNone(e)
    BY <1>3, <1>5 DEF NoneStay
  <2>2. Fine(d1, K, U) /\ TreeStays(d, d1, U)
    BY <2>1, <1>3, FineSame
  <2>3. Fine(e, K, U) /\ TreeStays(d1, e, U)
    BY <2>1, <2>2, <1>3, <1>5, FineSame
  <2>4. QED BY <2>1, <2>2, <2>3, TreeOn
<1>13. Shown(d, d1, U) /\ Shown(d1, e, U)
  BY <1>3, <1>5, <1>11, ShownSame
<1>12. NoGain(d, e, K)
  <2>1. NoGain(d, d1, K) /\ NoGain(d1, e, K)
    BY <1>3, <1>5, SameNames
  <2>2. QED BY <2>1, GainNone
<1>6. Leads(d, <<Point(d, m)>>, d1, {}, U)
  BY <1>3, <1>11, <1>13, LeadsOne DEF Point, map
<1>7. Leads(d1, <<Fill(d)>>, e, {}, U)
  BY <1>3, <1>5, <1>11, <1>13, LeadsOne DEF Fill
<1>8. Same(d, e, K)
  BY <1>3, <1>5 DEF Same
<1> HIDE DEF d1, e
<1>9. Leads(d, <<Point(d, m), Fill(d)>>, e, {}, U)
  BY <1>6, <1>7, LeadsThen
<1>10. QED BY <1>3, <1>5, <1>8, <1>9, <1>11, <1>12 DEF map

\* The number create_inode_imap takes: none of K has it, the pieces before its
\* own are in the map, and in its own piece it is not the place of any of K.
LEMMA NewNumber ==
  ASSUME NEW d, NEW K, Sound(d, K), Unused(d) # {}, NEW k, k = Min(Unused(d))
  PROVE  /\ k \in Inums /\ k \notin K /\ InodeLoc(d)[k] = None
         /\ \A y \in Pieces : y < PieceOf(k) => CR(d).imap[y] # None
         /\ IndexOf(k) # 0 =>
              CR(d).imap[PieceOf(k)] # None /\ Piece(d, PieceOf(k))[0] # None
         /\ \A x \in K : PieceOf(x) = PieceOf(k) =>
              IndexOf(k) # 0 /\ IndexOf(x) # IndexOf(k)
<1>1. Inums \subseteq Nat /\ 0 \in 0..(INODES - 1)
  BY Constants DEF Inums
<1>2. k \in Inums /\ InodeLoc(d)[k] = None /\ \A y \in Inums : InodeLoc(d)[y] = None => k <= y
  <2>1. Unused(d) \subseteq Nat
    BY <1>1 DEF Unused
  <2>2. k \in Unused(d) /\ \A y \in Unused(d) : k <= y
    BY <2>1, Least
  <2>3. QED BY <2>2 DEF Unused
<1>3. ASSUME NEW x \in K PROVE InodeLoc(d)[x] = Loc(d, x) /\ InodeLoc(d)[x] # None /\ x \in Inums
  <2>1. InPlace(d, x) /\ Shaped(d)
    BY DEF Sound
  <2>2. InodeLoc(d)[x] = Loc(d, x)
    BY <2>1, LocIs
  <2>3. QED BY <2>1, <2>2, Facts DEF None
<1>4. k \notin K
  BY <1>2, <1>3
<1>5. \A x \in Inums : InodeLoc(d)[x] = IF CR(d).imap[PieceOf(x)] = None THEN None ELSE Piece(d, PieceOf(x))[IndexOf(x)]
  BY DEF InodeLoc, PieceOf, IndexOf
<1>6. PieceOf(k) \in Pieces /\ Pieces \subseteq Nat /\ IndexOf(k) \in 0..(INODES - 1)
  BY <1>2, Split, Constants DEF Pieces
<1>7. ASSUME NEW y \in Pieces, y <= PieceOf(k), y # PieceOf(k) \/ IndexOf(k) # 0
      PROVE  CR(d).imap[y] # None /\ Piece(d, y)[0] # None
  <2>1. y * INODES \in Inums /\ PieceOf(y * INODES) = y /\ IndexOf(y * INODES) = 0
    BY FirstOfPiece
  <2>2. y * INODES < k
    BY <1>2, <1>6, <1>7, FirstOfPiece
  <2>3. InodeLoc(d)[y * INODES] # None
    <3> DEFINE f == y * INODES
    <3>1. f \in Inums /\ f < k
      BY <2>1, <2>2
    <3> HIDE DEF f
    <3>2. InodeLoc(d)[f] # None
      BY <3>1, <1>1, <1>2
    <3>3. QED BY <3>2 DEF f
  <2>4. QED BY <2>1, <2>3, <1>5
<1>8. ASSUME NEW y \in Pieces, y < PieceOf(k) PROVE CR(d).imap[y] # None
  <2>1. y \in Nat /\ PieceOf(k) \in Nat
    BY <1>6
  <2>2. y <= PieceOf(k) /\ y # PieceOf(k)
    <3> DEFINE q == PieceOf(k)
    <3>1. y \in Nat /\ q \in Nat /\ y < q
      BY <2>1, <1>8
    <3> HIDE DEF q
    <3>2. y <= q /\ y # q
      BY <3>1
    <3>3. QED BY <3>2 DEF q
  <2>3. QED BY <2>2, <1>7, Zenon
<1>9. IndexOf(k) # 0 => CR(d).imap[PieceOf(k)] # None /\ Piece(d, PieceOf(k))[0] # None
  <2>1. PieceOf(k) <= PieceOf(k)
    <3>1. PieceOf(k) \in Nat
      BY <1>6
    <3>2. \A y \in Nat : y <= y
      OBVIOUS
    <3>3. QED BY <3>1, <3>2, Zenon
  <2>2. QED BY <2>1, <1>6, <1>7
<1>10. ASSUME NEW x \in K, PieceOf(x) = PieceOf(k)
       PROVE  IndexOf(k) # 0 /\ IndexOf(x) # IndexOf(k)
  <2>1. InPlace(d, x) /\ Shaped(d)
    BY DEF Sound
  <2>2. Piece(d, PieceOf(x)) = [j \in 0..(INODES - 1) |-> d[MapAt(d, x)].inode_loc[j]]
    BY <2>1, LocIs
  <2>3. Piece(d, PieceOf(k))[0] # None
    BY <2>1, <2>2, <1>10, <1>1 DEF InPlace
  <2>4. CR(d).imap[PieceOf(k)] # None
    BY <2>1, <1>10 DEF InPlace, MapAt
  <2>5. IndexOf(k) # 0
    BY <2>3, <2>4, <1>2, <1>5
  <2>6. x # k
    BY <1>4
  <2>7. QED BY <2>5, <2>6, <1>2, <1>3, <1>10, SameNumber
<1>11. QED BY <1>2, <1>4, <1>8, <1>9, <1>10

\* What load_inode_loc reads are numbers.
LEMMA PieceType ==
  ASSUME NEW d, Shaped(d), NEW m
  PROVE  Piece(d, m) \in [0..(INODES - 1) -> Int]
<1> DEFINE at == CR(d).imap[Max({l \in 0..m : InFile(d, CR(d).imap[l])})]
           word(j) == CASE at \in DOMAIN d /\ d[at].kind = "imap" -> d[at].inode_loc[j]
                        [] at \in DOMAIN d /\ d[at].kind = "inode" ->
                             IF j < 2 \/ d[at].block_loc[j - 2] # None THEN 0 ELSE None
                        [] OTHER -> 0
<1>1. Piece(d, m) = [j \in 0..(INODES - 1) |-> word(j)]
  BY DEF Piece
<1>2. ASSUME NEW j \in 0..(INODES - 1) PROVE word(j) \in Int
  <2> HIDE DEF at
  <2>1. CASE at \in DOMAIN d /\ d[at].kind = "imap"
    BY <2>1 DEF Shaped
  <2>2. CASE at \in DOMAIN d /\ d[at].kind = "inode"
    BY <2>2 DEF None
  <2>3. CASE ~(at \in DOMAIN d /\ d[at].kind = "imap") /\ ~(at \in DOMAIN d /\ d[at].kind = "inode")
    BY <2>3
  <2>4. QED BY <2>1, <2>2, <2>3
<1> HIDE DEF word
<1>3. QED BY <1>1, <1>2

\* The locations that go to the map with the new inode.
LEMMA SaysOld ==
  ASSUME NEW d, NEW K, Sound(d, K), NEW k \in Inums, NEW at \in Int, at # None,
         IndexOf(k) # 0, Piece(d, PieceOf(k))[0] # None,
         \A x \in K : PieceOf(x) = PieceOf(k) => IndexOf(x) # IndexOf(k),
         NEW q, q = [Piece(d, PieceOf(k)) EXCEPT ![IndexOf(k)] = at]
  PROVE  Says(d, K, PieceOf(k), q) /\ q[IndexOf(k)] = at /\ q[0] # None
<1> DEFINE old == Piece(d, PieceOf(k))
<1>1. old \in [0..(INODES - 1) -> Int] /\ IndexOf(k) \in 0..(INODES - 1) /\ 0 \in 0..(INODES - 1)
  BY PieceType, Split, Constants DEF Sound
<1>2. /\ q \in [0..(INODES - 1) -> Int] /\ q[IndexOf(k)] = at
      /\ \A j \in 0..(INODES - 1) : j # IndexOf(k) => q[j] = old[j]
  BY <1>1
<1>3. q[0] # None
  BY <1>1, <1>2
<1>4. ASSUME NEW x \in K, PieceOf(x) = PieceOf(k)
      PROVE  q[IndexOf(x)] = Loc(d, x)
  <2>1. InPlace(d, x) /\ Shaped(d) /\ IndexOf(x) \in 0..(INODES - 1)
    BY Facts DEF Sound
  <2>2. old = [j \in 0..(INODES - 1) |-> d[MapAt(d, x)].inode_loc[j]]
    BY <2>1, <1>4, LocIs
  <2>3. old[IndexOf(x)] = Loc(d, x)
    BY <2>1, <2>2 DEF Loc
  <2>4. QED BY <2>1, <2>3, <1>2, <1>4
<1>5. QED BY <1>2, <1>3, <1>4 DEF Says

\* The location of the new inode is written to the map.
LEMMA EnterPiece ==
  ASSUME NEW d, NEW K, Sound(d, K), NEW U, Fine(d, K, U), NoNone(d),
         NEW k \in Inums, NEW at, PieceIs(d, PieceOf(k), at),
         NEW q, Says(d, K, PieceOf(k), q), q[0] # None, q[IndexOf(k)] = CR(d).end,
         NEW e, e = Put(d, at, One(ImapCell(q)))
  PROVE  /\ Sound(e, K) /\ Fine(e, K, U) /\ Same(d, e, K) /\ CR(e) = CR(d) /\ Ready(e, k)
         /\ NoGain(d, e, K) /\ TreeStays(d, e, U) /\ NoNone(e)
         /\ Leads(d, << <<at, One(ImapCell(q))>> >>, e, {}, U)
<1>1. PieceOf(k) \in Pieces
  BY Split
<1>2. /\ Sound(e, K) /\ Same(d, e, K) /\ Keeps(d, e, K, {}) /\ DirsStay(d, e, K)
      /\ CR(e) = CR(d) /\ at \in DOMAIN e /\ e[at] = ImapCell(q) /\ NoneStay(d, e) /\ Calm(d, e)
  BY <1>1, WritePiece
<1>3. MapAt(e, k) = at /\ at # None
  BY <1>2 DEF MapAt, PieceIs
<1>4. e[at].kind = "imap" /\ e[at].inode_loc = q
  BY <1>2 DEF ImapCell
<1>5. Ready(e, k)
  BY <1>2, <1>3, <1>4 DEF Ready, Loc
<1>6. NoGain(d, e, K) /\ NoNone(e)
  BY <1>2, SameNames DEF NoneStay
<1>7. Fine(e, K, U) /\ TreeStays(d, e, U)
  BY <1>2, <1>6, FineSame
<1>9. Shown(d, e, U)
  BY <1>2, <1>7, ShownSame
<1>8. QED BY <1>2, <1>5, <1>6, <1>7, <1>9, LeadsOne

\* The first location of a new piece, in the inode's own piece k.
First(d, m, k) == <<Entered(d, m)[PieceOf(k)], One(ImapCell([NoLocs EXCEPT ![0] = CR(d).end + 1]))>>

\* The number is the first of a piece, which is new in the map.
LEMMA NewWithPiece ==
  ASSUME NEW d, NEW K, Sound(d, K), NEW U, Fine(d, K, U), NoNone(d),
         Unused(d) # {}, NEW k, k = Min(Unused(d)), IndexOf(k) = 0,
         FreePieces(d) # {}, NEW m, m = Min(FreePieces(d))
  PROVE  \E e, f :
           /\ Leads(d, <<Point(d, m), Fill(d)>>, f, {}, U)
           /\ Leads(f, <<First(d, m, k)>>, e, {}, U)
           /\ Sound(e, K) /\ Fine(e, K, U) /\ Same(d, e, K) /\ Ready(e, k)
           /\ NoGain(d, e, K) /\ TreeStays(d, e, U) /\ NoNone(e)
           /\ CR(e).imap = Entered(d, m) /\ CR(e).end = CR(d).end + 1
<1> DEFINE slots == FreePieces(d)
           q     == [NoLocs EXCEPT ![0] = CR(d).end + 1]
           M     == PieceOf(k)
           map   == Entered(d, m)
<1>1. /\ k \in Inums /\ M \in Pieces /\ \A y \in Pieces : y < M => CR(d).imap[y] # None
      /\ \A x \in K : PieceOf(x) # M
  BY NewNumber, Split
<1>2. m \in slots /\ \A y \in slots : m <= y
  <2>1. slots \subseteq Nat
    BY Constants DEF Pieces, FreePieces
  <2>2. QED BY <2>1, Least
<1>3. m \in Pieces /\ CR(d).imap[m] = None
  BY <1>2 DEF FreePieces
<1>4. PICK f : /\ Leads(d, <<Point(d, m), Fill(d)>>, f, {}, U)
               /\ Sound(f, K) /\ Fine(f, K, U) /\ Same(d, f, K)
               /\ NoGain(d, f, K) /\ TreeStays(d, f, U) /\ NoNone(f) /\ CR(f).imap = map /\ CR(f).end = CR(d).end + 1
  BY <1>3, NewPiece
<1>5. PieceIs(f, M, map[M])
  <2>1. CR(d).end \in Nat /\ CR(d).imap \in [Pieces -> Int] /\ Pieces \subseteq Int
    BY Facts, Constants DEF Sound, Shaped, Pieces
  <2>2. map[m] = CR(d).end /\ \A x \in Pieces : x # m => map[x] = CR(d).imap[x]
    BY <2>1, <1>3 DEF Entered
  <2>3. CR(d).imap[M] = None => m = M
    <3>1. SUFFICES ASSUME CR(d).imap[M] = None PROVE m = M
      OBVIOUS
    <3>2. M \in slots
      BY <3>1, <1>1 DEF FreePieces
    <3>3. m <= M
      BY <3>2, <1>2
    <3>4. ~(m < M)
      BY <1>1, <1>3
    <3>5. m \in Int /\ M \in Int
      BY <2>1, <1>1, <1>3
    <3>6. \A x, y \in Int : x <= y /\ ~(x < y) => x = y
      OBVIOUS
    <3>7. QED BY <3>3, <3>4, <3>5, <3>6
  <2>4. map[M] # None
    <3>1. CASE m = M
      BY <3>1, <2>1, <2>2 DEF None
    <3>2. CASE m # M
      <4>1. CR(d).imap[M] # None /\ map[M] = CR(d).imap[M]
        BY <3>2, <2>2, <2>3, <1>1
      <4>2. QED BY <4>1
    <3>3. QED BY <3>1, <3>2
  <2>5. QED BY <2>4, <1>4 DEF PieceIs
<1>6. Says(f, K, M, q) /\ q[0] = CR(d).end + 1 /\ q[0] # None
  <2>1. CR(d).end \in Nat /\ 0 \in 0..(INODES - 1)
    BY Facts, Constants
  <2>2. q \in [0..(INODES - 1) -> Int] /\ q[0] = CR(d).end + 1 /\ q[0] # None
    BY <2>1 DEF None, NoLocs
  <2>3. QED BY <2>2, <1>1 DEF Says
<1> DEFINE e == Put(f, map[M], One(ImapCell(q)))
<1>7. /\ Sound(e, K) /\ Fine(e, K, U) /\ Same(f, e, K) /\ CR(e) = CR(f) /\ Ready(e, k)
      /\ NoGain(f, e, K) /\ TreeStays(f, e, U) /\ NoNone(e)
      /\ Leads(f, << <<map[M], One(ImapCell(q))>> >>, e, {}, U)
  <2>1. /\ PieceIs(f, PieceOf(k), map[M]) /\ Says(f, K, PieceOf(k), q)
        /\ Sound(f, K) /\ Fine(f, K, U) /\ NoNone(f)
    BY <1>4, <1>5, <1>6
  <2>2. q[IndexOf(k)] = CR(f).end /\ q[0] # None /\ k \in Inums
    BY <1>1, <1>4, <1>6
  <2>3. e = Put(f, map[M], One(ImapCell(q)))
    OBVIOUS
  <2> HIDE DEF e, q, M, map
  <2>4. QED BY <2>1, <2>2, <2>3, EnterPiece
<1>8. Leads(f, <<First(d, m, k)>>, e, {}, U)
  BY <1>7 DEF First
<1> HIDE DEF e, q, map
<1>9. Same(d, e, K) /\ NoGain(d, e, K) /\ TreeStays(d, e, U)
  BY <1>4, <1>7, GainNone, TreeOn DEF Same
<1>10. CR(e).imap = Entered(d, m) /\ CR(e).end = CR(d).end + 1
  BY <1>4, <1>7 DEF map
<1>11. QED BY <1>4, <1>7, <1>8, <1>9, <1>10

\* The number is in a piece that the map has.
LEMMA NewInPiece ==
  ASSUME NEW d, NEW K, Sound(d, K), NEW U, Fine(d, K, U), NoNone(d),
         Unused(d) # {}, NEW k, k = Min(Unused(d)), IndexOf(k) # 0
  PROVE  \E e :
           /\ Leads(d, << <<CR(d).imap[PieceOf(k)],
                          One(ImapCell([Piece(d, PieceOf(k)) EXCEPT ![IndexOf(k)] = CR(d).end]))>> >>, e, {}, U)
           /\ Sound(e, K) /\ Fine(e, K, U) /\ Same(d, e, K) /\ CR(e) = CR(d) /\ Ready(e, k)
           /\ NoGain(d, e, K) /\ TreeStays(d, e, U) /\ NoNone(e)
<1> DEFINE M == PieceOf(k)
           q == [Piece(d, PieceOf(k)) EXCEPT ![IndexOf(k)] = CR(d).end]
           e == Put(d, CR(d).imap[PieceOf(k)], One(ImapCell(q)))
<1>1. /\ k \in Inums /\ CR(d).imap[PieceOf(k)] # None /\ Piece(d, PieceOf(k))[0] # None
      /\ \A x \in K : PieceOf(x) = PieceOf(k) => IndexOf(x) # IndexOf(k)
  BY NewNumber
<1>2. CR(d).end \in Int /\ CR(d).end # None
  BY Facts DEF None
<1>3. Says(d, K, PieceOf(k), q) /\ q[IndexOf(k)] = CR(d).end /\ q[0] # None
  BY <1>1, <1>2, SaysOld
<1>4. PieceIs(d, PieceOf(k), CR(d).imap[PieceOf(k)])
  BY <1>1 DEF PieceIs
<1>5. /\ Sound(e, K) /\ Fine(e, K, U) /\ Same(d, e, K) /\ CR(e) = CR(d) /\ Ready(e, k)
      /\ NoGain(d, e, K) /\ TreeStays(d, e, U) /\ NoNone(e)
      /\ Leads(d, << <<CR(d).imap[PieceOf(k)], One(ImapCell(q))>> >>, e, {}, U)
  <2>1. e = Put(d, CR(d).imap[PieceOf(k)], One(ImapCell(q)))
    OBVIOUS
  <2> HIDE DEF e, q
  <2>2. QED BY <1>1, <1>3, <1>4, <2>1, EnterPiece
<1> HIDE DEF e
<1>6. QED BY <1>5

\* Of two numbers the greater is not in an earlier piece.
LEMMA PieceOrder ==
  ASSUME NEW x \in Inums, NEW y \in Inums, x <= y
  PROVE  PieceOf(x) <= PieceOf(y)
<1> DEFINE p == x \div INODES
           a == x % INODES
           q == y \div INODES
           c == y % INODES
<1>1. x \in Int /\ y \in Int /\ INODES \in Nat \ {0}
  BY LogAssumption DEF Inums
<1>2. p \in Int /\ a \in 0..(INODES - 1) /\ x = INODES * p + a
  BY <1>1, DivMod, Zenon
<1>3. q \in Int /\ c \in 0..(INODES - 1) /\ y = INODES * q + c
  BY <1>1, DivMod, Zenon
<1> HIDE DEF p, q, a, c
<1>4. ASSUME p >= q + 1 PROVE FALSE
  <2>1. INODES * p >= INODES * (q + 1)
    BY <1>1, <1>2, <1>3, <1>4
  <2>2. INODES * (q + 1) = INODES * q + INODES
    BY <1>1, <1>3
  <2>3. INODES * p \in Int /\ INODES * q \in Int
    BY <1>1, <1>2, <1>3
  <2>4. \A f, g \in Int : x = f + a /\ y = g + c /\ f >= g + INODES => y < x
    BY <1>1, <1>2, <1>3
  <2>5. QED BY <2>1, <2>2, <2>3, <2>4, <1>1, <1>2, <1>3
<1>5. p <= q
  BY <1>2, <1>3, <1>4
<1>6. QED BY <1>5 DEF p, q, PieceOf

\* The location of a number is in its piece, if the map has it.
LEMMA LocOf ==
  ASSUME NEW d, NEW x \in Inums
  PROVE  InodeLoc(d)[x] =
           IF CR(d).imap[PieceOf(x)] = None THEN None ELSE Piece(d, PieceOf(x))[IndexOf(x)]
BY DEF InodeLoc, PieceOf, IndexOf

\* The piece that is read for piece m.
ReadFor(d, m) == Max({l \in 0..m : InFile(d, CR(d).imap[l])})

\* It is one that the map has before m, or m; and m if that was written.
LEMMA LastIs ==
  ASSUME NEW d, NEW K, Sound(d, K), NEW m \in Pieces
  PROVE  /\ ReadFor(d, m) \in Pieces /\ ReadFor(d, m) <= m
         /\ CR(d).imap[m] \in DOMAIN d => ReadFor(d, m) = m
<1> DEFINE S == {l \in 0..m : InFile(d, CR(d).imap[l])}
<1>1. m \in Nat /\ 0..m \subseteq Pieces /\ m \in 0..m
  BY Constants DEF Pieces
<1>2. S \subseteq 0..m
  OBVIOUS
<1>3. 0 \in S
  <2>1. InPlace(d, 0)
    BY DEF Sound, Live
  <2>2. PieceOf(0) = 0
    <3>1. PICK z \in Pieces : z = 0
      BY Constants
    <3>2. PieceOf(z * INODES) = z /\ z * INODES = 0
      BY <3>1, FirstOfPiece, Constants
    <3>3. QED BY <3>1, <3>2
  <2>3. CR(d).imap[0] \in DOMAIN d
    BY <2>1, <2>2 DEF InPlace, MapAt
  <2>4. QED BY <2>3, <1>1 DEF InFile
<1>4. CR(d).imap[m] \in DOMAIN d => m \in S
  BY <1>1 DEF InFile
<1>5. ReadFor(d, m) = Max(S)
  BY DEF ReadFor
<1> HIDE DEF S
<1>6. Max(S) \in S /\ \A y \in S : Max(S) >= y
  BY <1>1, <1>2, <1>3, Greatest
<1> DEFINE x == Max(S)
<1>7. x \in 0..m
  BY <1>2, <1>6
<1>8. m \in S => x >= m
  BY <1>6
<1>9. ReadFor(d, m) = x
  BY <1>5
<1> HIDE DEF x
<1>10. QED BY <1>1, <1>4, <1>7, <1>8, <1>9

\* Its first location; 0 if it is no piece.
LEMMA FirstWord ==
  ASSUME NEW d, NEW m
  PROVE  LET at == CR(d).imap[ReadFor(d, m)]
         IN  Piece(d, m)[0] = IF at \in DOMAIN d /\ d[at].kind = "imap" THEN d[at].inode_loc[0] ELSE 0
<1> DEFINE at == CR(d).imap[ReadFor(d, m)]
<1>1. 0 \in 0..(INODES - 1)
  BY Constants
<1>2. Piece(d, m)[0] = CASE at \in DOMAIN d /\ d[at].kind = "imap" -> d[at].inode_loc[0]
                         [] at \in DOMAIN d /\ d[at].kind = "inode" ->
                              IF 0 < 2 \/ d[at].block_loc[0 - 2] # None THEN 0 ELSE None
                         [] OTHER -> 0
  BY <1>1 DEF Piece, ReadFor
<1> HIDE DEF at
<1>3. Piece(d, m)[0] = IF at \in DOMAIN d /\ d[at].kind = "imap" THEN d[at].inode_loc[0] ELSE 0
  BY <1>2
<1>4. QED BY <1>3 DEF at

\* The first number of a piece without one at its start has no inode.
LEMMA FirstUnused ==
  ASSUME NEW d, NEW q \in Pieces, CR(d).imap[q] = None \/ Piece(d, q)[0] = None
  PROVE  q * INODES \in Unused(d)
<1> DEFINE x == q * INODES
<1>1. x \in Inums /\ PieceOf(x) = q /\ IndexOf(x) = 0
  BY FirstOfPiece
<1> HIDE DEF x
<1>2. InodeLoc(d)[x] = None
  BY <1>1, LocOf
<1>3. QED BY <1>1, <1>2 DEF Unused, x

\* When no number is left, or the first that is needs a new piece and there is
\* none, none is ever left again.
LEMMA FullIf ==
  ASSUME NEW d, NEW K, Sound(d, K),
         Unused(d) = {} \/ (IndexOf(Min(Unused(d))) = 0 /\ FreePieces(d) = {})
  PROVE  Full(d)
<1>1. CASE Unused(d) = {}
  <2>1. FreePieces(d) = {}
    BY <1>1, FirstUnused DEF FreePieces
  <2>2. QED BY <1>1, <2>1 DEF Full
<1>2. CASE Unused(d) # {} /\ IndexOf(Min(Unused(d))) = 0 /\ FreePieces(d) = {}
  <2> DEFINE k == Min(Unused(d))
             q == PieceOf(k)
             l == ReadFor(d, q)
             at == CR(d).imap[l]
  <2>1. k \in Unused(d) /\ \A y \in Unused(d) : k <= y
    <3>1. Unused(d) \subseteq Nat
      BY Constants DEF Inums, Unused
    <3>2. QED BY <3>1, <1>2, Least
  <2>2. k \in Inums /\ InodeLoc(d)[k] = None /\ IndexOf(k) = 0
    BY <1>2, <2>1 DEF Unused
  <2> HIDE DEF k
  <2>3. q \in Pieces
    BY <2>2, Split
  <2>4. CR(d).imap[q] # None
    BY <2>3, <1>2 DEF FreePieces
  <2>5. Piece(d, q)[0] = None
    BY <2>2, <2>4, LocOf
  <2>6. at \in DOMAIN d /\ d[at].kind = "imap" /\ d[at].inode_loc[0] = None
    <3>1. Piece(d, q)[0] = IF at \in DOMAIN d /\ d[at].kind = "imap" THEN d[at].inode_loc[0] ELSE 0
      BY FirstWord
    <3> HIDE DEF at
    <3>2. QED BY <3>1, <2>5 DEF None
  <2>7. l \in Pieces /\ l <= q
    BY <2>3, LastIs
  <2>8. l = q
    <3>1. ReadFor(d, l) = l
      BY <2>6, <2>7, LastIs
    <3>2. Piece(d, l)[0] = None
      <4> HIDE DEF l
      <4>1. Piece(d, l)[0] = IF at \in DOMAIN d /\ d[at].kind = "imap" THEN d[at].inode_loc[0] ELSE 0
        BY <3>1, FirstWord
      <4>2. QED BY <4>1, <2>6
    <3> HIDE DEF l
    <3>3. l * INODES \in Unused(d)
      BY <2>7, <3>2, FirstUnused
    <3>4. k <= l * INODES
      BY <3>3, <2>1
    <3>5. q >= l /\ q \in Int /\ l \in Int
      BY <2>3, <2>7 DEF Pieces
    <3>6. q # l => l * INODES < k
      BY <3>5, <2>2, <2>7, FirstOfPiece
    <3>7. k \in Int /\ l * INODES \in Int
      BY <2>2, <3>5, Constants DEF Inums
    <3> DEFINE f == l * INODES
    <3>8. k \in Int /\ f \in Int /\ k <= f
      BY <3>4, <3>7
    <3>9. q # l => f < k
      BY <3>6
    <3> HIDE DEF f, q
    <3>10. QED BY <3>8, <3>9
  <2>9. ASSUME NEW x \in Unused(d) PROVE q <= PieceOf(x)
    <3>1. x \in Inums /\ k <= x
      BY <2>1 DEF Unused
    <3>2. QED BY <2>2, <3>1, PieceOrder
  <2>10. EmptyPiece(d, q)
    <3>1. CR(d).imap[q] \in DOMAIN d /\ d[CR(d).imap[q]].kind = "imap" /\ d[CR(d).imap[q]].inode_loc[0] = None
      BY <2>6, <2>8
    <3> HIDE DEF q
    <3>2. QED BY <3>1, <2>9 DEF EmptyPiece
  <2>11. QED BY <1>2, <2>3, <2>10 DEF Full
<1>3. QED BY <1>1, <1>2

\* Conversely, create_inode_imap finds a number only when one was left.
LEMMA FullNot ==
  ASSUME NEW d, NEW K, Sound(d, K),
         Unused(d) # {}, IndexOf(Min(Unused(d))) # 0 \/ FreePieces(d) # {}
  PROVE  ~Full(d)
<1> SUFFICES ASSUME Full(d) PROVE FALSE
  OBVIOUS
<1> DEFINE k == Min(Unused(d))
<1>1. k \in Unused(d) /\ \A y \in Unused(d) : k <= y
  <2>1. Unused(d) \subseteq Nat
    BY Constants DEF Inums, Unused
  <2>2. QED BY <2>1, Least
<1>2. k \in Inums /\ IndexOf(k) # 0
  BY <1>1 DEF Unused, Full
<1> HIDE DEF k
<1>3. PICK q \in Pieces : EmptyPiece(d, q)
  BY DEF Full
<1>4. /\ CR(d).imap[q] \in DOMAIN d /\ d[CR(d).imap[q]].kind = "imap"
      /\ d[CR(d).imap[q]].inode_loc[0] = None /\ q <= PieceOf(k)
  BY <1>1, <1>3 DEF EmptyPiece
<1>5. Piece(d, q)[0] = None
  <2>1. ReadFor(d, q) = q
    BY <1>4, LastIs
  <2>2. QED BY <2>1, <1>4, FirstWord
<1>6. q * INODES \in Unused(d)
  BY <1>5, FirstUnused
<1> DEFINE f == q * INODES
<1>7. k <= f
  BY <1>1, <1>6
<1>8. q \in Int /\ PieceOf(k) \in Int /\ k \in Int
  BY <1>2, Split, Constants DEF Pieces, Inums
<1>9. f < k
  BY <1>2, <1>4, <1>8, FirstOfPiece
<1>10. f \in Int
  BY <1>8, Constants
<1> HIDE DEF f
<1>11. QED BY <1>7, <1>8, <1>9, <1>10

\* n is what create_inode_imap yields for a file or directory in p.
Made(d, p, type, n) ==
  type \in {MFS_DIRECTORY, MFS_REGULAR_FILE} /\ n = create_inode_imap(d, p, type)

\* The writes of create_inode_imap: an inode in place, or no number left.
LEMMA NewInode ==
  ASSUME NEW d, NEW K, Sound(d, K), NEW U, Fine(d, K, U), NEW p, NEW type, NEW n, Made(d, p, type, n)
  PROVE  \/ n.inum = None /\ n.writes = <<>> /\ n.cr = CR(d) /\ Full(d)
         \/ /\ n.inum \in Inums /\ n.inum \notin K /\ NoNone(d)
            /\ \E e : /\ Leads(d, n.writes, e, {}, U) /\ Sound(e, With(K, n.inum))
                      /\ Fine(e, With(K, n.inum), U) /\ Same(d, e, K)
                      /\ NoGain(d, e, K) /\ TreeStays(d, e, U) /\ Newborn(e, n.inum, p)
                      /\ CR(e).imap = n.cr.imap /\ CR(e).end = n.cr.end
<1> DEFINE empty == {k \in Inums : InodeLoc(d)[k] = None}
           k     == Min(empty)
           new   == k % INODES = 0
           slots == {m \in 0..(IMAPS - 1) : CR(d).imap[m] = None}
           m     == Min(slots)
           end   == CR(d).end
           cr1   == IF new THEN CRCell([CR(d).imap EXCEPT ![m] = end], end + 1) ELSE CR(d)
           at    == cr1.end
           piece == IF new THEN [j \in 0..(INODES - 1) |-> None] ELSE Piece(d, k \div INODES)
           cr2   == CRCell(cr1.imap, EndAfterInode(at))
           block == [b \in Blocks |-> IF b = 0 THEN at + 1 ELSE None]
           isDir == type = MFS_DIRECTORY
           c     == InodeCell(type, IF isDir THEN 2 ELSE 0, block)
           cells == IF isDir THEN DirBlock(k, p) ELSE DataBlock(Junk)
           w12   == IF new THEN << <<0, One(cr1)>>, <<end, One(ImapCell(piece))>> >> ELSE <<>>
           w3    == <<cr1.imap[k \div INODES], One(ImapCell([piece EXCEPT ![k % INODES] = at]))>>
           w4    == <<at, One(c)>>
           w5    == <<at + 1, cells>>
           w6    == <<0, One(cr2)>>
<1>0. type \in {MFS_DIRECTORY, MFS_REGULAR_FILE} /\ n = create_inode_imap(d, p, type)
  BY DEF Made
<1>1. CASE empty = {} \/ (new /\ slots = {})
  <2>1. n.inum = None /\ n.writes = <<>> /\ n.cr = CR(d)
    BY <1>0, <1>1 DEF create_inode_imap
  <2>2. empty = Unused(d) /\ slots = FreePieces(d) /\ new = (IndexOf(k) = 0)
    BY DEF Unused, FreePieces, Pieces, IndexOf
  <2> HIDE DEF empty, slots, new
  <2>3. Unused(d) = {} \/ (IndexOf(Min(Unused(d))) = 0 /\ FreePieces(d) = {})
    BY <2>2, <1>1
  <2>4. Full(d)
    BY <2>3, FullIf
  <2>5. QED BY <2>1, <2>4
<1>2. CASE ~(empty = {} \/ (new /\ slots = {}))
  <2>1. n.inum = k /\ n.cr = cr2 /\ n.writes = w12 \o <<w3, w4, w5, w6>>
    <3>1. n = [inum |-> k, cr |-> cr2, writes |-> w12 \o <<w3, w4, w5, w6>>]
      BY <1>0, <1>2 DEF create_inode_imap
    <3> HIDE DEF k, cr2, w12, w3, w4, w5, w6
    <3>2. QED BY <3>1
  <2>2. Unused(d) # {} /\ k = Min(Unused(d)) /\ k \in Inums /\ k \notin K
    <3>1. Unused(d) # {} /\ k = Min(Unused(d))
      BY <1>2 DEF Unused
    <3> HIDE DEF k
    <3>2. QED BY <3>1, NewNumber
  <2>18. NoNone(d)
    <3>1. Unused(d) # {} /\ (IndexOf(Min(Unused(d))) # 0 \/ FreePieces(d) # {})
      BY <1>2 DEF Unused, FreePieces, Pieces, IndexOf
    <3> HIDE DEF k
    <3>2. ~Full(d)
      BY <3>1, FullNot
    <3>3. QED BY <3>2 DEF Fine, Settled
  <2>3. \E f, e : /\ Leads(d, w12, f, {}, U) /\ Leads(f, <<w3>>, e, {}, U)
                  /\ Sound(e, K) /\ Fine(e, K, U) /\ Same(d, e, K) /\ Ready(e, k)
                  /\ NoGain(d, e, K) /\ TreeStays(d, e, U) /\ NoNone(e)
                  /\ CR(e).imap = cr1.imap /\ CR(e).end = at
    <3>1. CASE new
      <4>1. slots = FreePieces(d) /\ slots # {} /\ IndexOf(k) = 0
        BY <1>2, <3>1 DEF Pieces, IndexOf, FreePieces
      <4>2. cr1.imap = Entered(d, m) /\ at = end + 1
        BY <3>1 DEF CRCell, Entered
      <4>3. w12 = <<Point(d, m), Fill(d)>>
        BY <3>1 DEF Point, Fill, Entered, NoLocs
      <4>4. w3 = First(d, m, k)
        BY <3>1, <4>2 DEF NoLocs, PieceOf, First
      <4> HIDE DEF k, w12, w3, slots, cr1, at
      <4>5. m = Min(FreePieces(d)) /\ FreePieces(d) # {}
        BY <4>1
      <4> HIDE DEF m
      <4>6. PICK e, f :
              /\ Leads(d, <<Point(d, m), Fill(d)>>, f, {}, U)
              /\ Leads(f, <<First(d, m, k)>>, e, {}, U)
              /\ Sound(e, K) /\ Fine(e, K, U) /\ Same(d, e, K) /\ Ready(e, k)
              /\ NoGain(d, e, K) /\ TreeStays(d, e, U) /\ NoNone(e)
              /\ CR(e).imap = Entered(d, m) /\ CR(e).end = CR(d).end + 1
        BY <2>2, <2>18, <4>1, <4>5, NewWithPiece
      <4>7. Leads(d, w12, f, {}, U)
        BY <4>3, <4>6
      <4>8. Leads(f, <<w3>>, e, {}, U)
        BY <4>4, <4>6
      <4>9. CR(e).imap = cr1.imap /\ CR(e).end = at
        BY <4>2, <4>6
      <4>10. QED BY <4>6, <4>7, <4>8, <4>9
    <3>2. CASE ~new
      <4>1. IndexOf(k) # 0
        BY <3>2 DEF IndexOf
      <4>2. cr1.imap = CR(d).imap /\ at = end /\ w12 = <<>>
        BY <3>2
      <4>3. w3 = <<CR(d).imap[PieceOf(k)], One(ImapCell([Piece(d, PieceOf(k)) EXCEPT ![IndexOf(k)] = CR(d).end]))>>
        BY <3>2 DEF PieceOf, IndexOf
      <4>4. Leads(d, w12, d, {}, U)
        <5>1. Well(d, U)
          BY WellIf
        <5>2. QED BY <4>2, <5>1, LeadsNone
      <4> HIDE DEF k, w12, w3, cr1, at
      <4>5. PICK e : /\ Leads(d, << <<CR(d).imap[PieceOf(k)],
                                One(ImapCell([Piece(d, PieceOf(k)) EXCEPT ![IndexOf(k)] = CR(d).end]))>> >>, e, {}, U)
                    /\ Sound(e, K) /\ Fine(e, K, U) /\ Same(d, e, K) /\ CR(e) = CR(d) /\ Ready(e, k)
                    /\ NoGain(d, e, K) /\ TreeStays(d, e, U) /\ NoNone(e)
        BY <2>2, <2>18, <4>1, NewInPiece
      <4>6. QED BY <4>2, <4>3, <4>4, <4>5
    <3>3. QED BY <3>1, <3>2
  <2>4. PICK f, e : /\ Leads(d, w12, f, {}, U) /\ Leads(f, <<w3>>, e, {}, U)
                   /\ Sound(e, K) /\ Fine(e, K, U) /\ Same(d, e, K) /\ Ready(e, k)
                   /\ NoGain(d, e, K) /\ TreeStays(d, e, U) /\ NoNone(e)
                   /\ CR(e).imap = cr1.imap /\ CR(e).end = at
    BY <2>3
  <2>5. /\ at \in Nat /\ CR(e).end + 1 = at + 1 /\ 0 \in Blocks
        /\ \A b \in Blocks : (IF b = 0 THEN at + 1 ELSE None) \in Int
    <3>1. Sound(e, K) /\ CR(e).end = at
      BY <2>4
    <3>2. CR(e).end \in Nat
      BY <3>1, Facts
    <3> HIDE DEF at
    <3>3. QED BY <3>1, <3>2, Constants DEF None
  <2>6. /\ c \in InodeCells /\ c.type = type /\ c.size = (IF isDir THEN 2 ELSE 0)
        /\ \A b \in Blocks : c.block_loc[b] = IF b = 0 THEN CR(e).end + 1 ELSE None
    <3>1. block \in [Blocks -> Int] /\ \A b \in Blocks : block[b] = IF b = 0 THEN CR(e).end + 1 ELSE None
      BY <2>5
    <3> HIDE DEF block
    <3>2. QED BY <3>1, <1>0 DEF InodeCell, InodeCells
  <2>7. /\ Run(cells, DIRENTS) /\ \A j \in Slots : Blank(cells[j])
        /\ isDir => \A j \in Slots : cells[j].kind = "ent" /\ (cells[j].name = Free \/ j < 2)
        /\ isDir => cells[0].name = "." /\ cells[0].inum = k /\ cells[1].name = ".." /\ cells[1].inum = p
    <3>1. CASE isDir
      <4>1. cells = DirBlock(k, p) /\ 0 \in Slots /\ 1 \in Slots /\ DIRENTS \in Nat
        BY <3>1, Constants DEF Slots
      <4> HIDE DEF cells, k
      <4>2. DOMAIN cells = 0..(DIRENTS - 1)
        BY <4>1 DEF DirBlock, FreeBlock
      <4>3. ASSUME NEW j \in Slots
            PROVE  cells[j] = EntCell(".", k) \/ cells[j] = EntCell("..", p) \/ cells[j] = EntCell(Free, None)
        BY <4>1 DEF DirBlock, FreeBlock, Slots
      <4>4. \A j \in Slots : cells[j].kind = "ent" /\ cells[j].name \in {".", "..", Free}
        BY <4>3 DEF EntCell
      <4>6. ASSUME NEW j \in Slots PROVE cells[j].name = Free \/ j < 2
        <5>1. j \in Nat /\ (j # 0 /\ j # 1 => cells[j] = EntCell(Free, None))
          BY <4>1 DEF DirBlock, FreeBlock, Slots
        <5>2. QED BY <5>1 DEF EntCell
      <4>7. cells[0] = EntCell(".", k) /\ cells[1] = EntCell("..", p)
        BY <4>1 DEF DirBlock, FreeBlock, Slots
      <4>8. cells[0].name = "." /\ cells[0].inum = k /\ cells[1].name = ".." /\ cells[1].inum = p
        BY <4>7 DEF EntCell
      <4>5. QED BY <4>1, <4>2, <4>4, <4>6, <4>8 DEF Run, Blank
    <3>2. CASE ~isDir
      <4>1. cells = DataBlock(Junk) /\ DIRENTS \in Nat
        BY <3>2, Constants
      <4> HIDE DEF cells
      <4>2. DOMAIN cells = 0..(DIRENTS - 1) /\ \A j \in Slots : cells[j].kind = "data" /\ cells[j].val = Junk
        BY <4>1 DEF DataBlock, DataCell, Slots
      <4>3. QED BY <3>2, <4>1, <4>2 DEF Run, Blank
    <3>3. QED BY <3>1, <3>2
  <2>8. /\ w6 = <<0, One(CRCell(CR(e).imap, CR(e).end + 1 + DIRENTS))>>
        /\ n.cr.imap = CR(e).imap /\ n.cr.end = CR(e).end + 1 + DIRENTS
    <3>1. CR(e).imap = cr1.imap /\ CR(e).end = at /\ n.cr = cr2
      BY <2>1, <2>4
    <3> HIDE DEF cr1, at, k
    <3>2. cr2 = CRCell(CR(e).imap, CR(e).end + 1 + DIRENTS)
      BY <3>1 DEF EndAfterInode
    <3> HIDE DEF cr2
    <3>3. cr2.imap = CR(e).imap /\ cr2.end = CR(e).end + 1 + DIRENTS
      BY <3>2 DEF CRCell
    <3>4. QED BY <3>1, <3>2, <3>3
  <2>10. w4 = <<CR(e).end, One(c)>> /\ w5 = <<CR(e).end + 1, cells>>
    BY <2>4
  <2>11. /\ c.type = MFS_DIRECTORY => c.size \in 1..DIRENTS /\ \A j \in Slots : cells[j].kind = "ent"
         /\ c.type = MFS_DIRECTORY => \A j \in Slots : cells[j].name = Free \/ j < c.size
         /\ c.type = MFS_DIRECTORY =>
              cells[0].name = "." /\ cells[0].inum = k /\ cells[1].name = ".." /\ cells[1].inum = p
    <3>1. c.type = MFS_DIRECTORY => isDir /\ c.size = 2
      BY <2>6
    <3> HIDE DEF k, c, cells
    <3>2. QED BY <3>1, <2>7, Constants
  <2> HIDE DEF k, c, cells, w12, w3, w4, w5, w6, at, cr1
  <2>12. PICK d4, d5, d6 :
           /\ Leads(e, << <<CR(e).end, One(c)>> >>, d4, {}, U)
           /\ Leads(d4, << <<CR(e).end + 1, cells>> >>, d5, {}, U)
           /\ Leads(d5, << <<0, One(CRCell(CR(e).imap, CR(e).end + 1 + DIRENTS))>> >>, d6, {}, U)
           /\ Sound(d6, With(K, k)) /\ Fine(d6, With(K, k), U) /\ Same(e, d6, K)
           /\ NoGain(e, d6, K) /\ TreeStays(e, d6, U) /\ Newborn(d6, k, p)
           /\ CR(d6).imap = CR(e).imap /\ CR(d6).end = CR(e).end + 1 + DIRENTS
    <3>1. Fresh(c, cells, CR(e).end, k, p)
      BY <2>6, <2>7, <2>11 DEF Fresh
    <3>2. QED BY <2>2, <2>4, <3>1, PlaceInode
  <2>13. Leads(e, <<w4>>, d4, {}, U) /\ Leads(d4, <<w5>>, d5, {}, U) /\ Leads(d5, <<w6>>, d6, {}, U)
    BY <2>8, <2>10, <2>12
  <2>14. Leads(f, <<w3, w4, w5, w6>>, d6, {}, U)
    BY <2>4, <2>13, LeadsFour
  <2>15. Leads(d, w12 \o <<w3, w4, w5, w6>>, d6, {}, U)
    BY <2>4, <2>14, LeadsOn
  <2>16. Same(d, d6, K) /\ NoGain(d, d6, K) /\ TreeStays(d, d6, U)
    BY <2>4, <2>12, GainNone, TreeOn DEF Same
  <2>17. QED BY <2>1, <2>2, <2>8, <2>12, <2>15, <2>16, <2>18
<1>3. QED BY <1>1, <1>2

\* The address loc can be block b of directory p: it is, or it is free and
\* already holds unused entries.
Room(d, K, p, b, loc) ==
  \/ loc = Blk(d, p, b) /\ loc # None
  \/ /\ b # 0 /\ loc > 0 /\ Below(d, K, loc) /\ loc + DIRENTS <= CR(d).end
     /\ \A j \in Slots : IsEntry(d, loc + j) /\ d[loc + j].name = Free
     /\ d[Loc(d, p)].size <= b * DIRENTS

\* A size of directory p with one more entry, in slot j of block b, for which it
\* has the blocks.
Fits(d, p, b, j, s) ==
  /\ d[Loc(d, p)].size <= b * DIRENTS + j
  /\ s \in Nat /\ s > 0 /\ s >= d[Loc(d, p)].size /\ b * DIRENTS + j < s
  /\ \A x \in Blocks : x * DIRENTS < s => x = b \/ Blk(d, p, x) # None

\* Number i has no name in any directory of K, nor directory p the name nm; or
\* there is no number for the name, and none is left.
Newcomer(d, K, p, nm, i) ==
  \/ i = None /\ Full(d)
  \/ /\ i # None /\ \A l : ~Has(d, p, nm, l)
     /\ \A q \in K : \A on : ~Has(d, q, on, i)

\* It is one still when no directory has got a name.
LEMMA NewcomerStays ==
  ASSUME NEW d, NEW e, NEW K, NoGain(d, e, K), NEW p \in K, NEW nm, NEW i,
         Newcomer(d, K, p, nm, i), Full(d) => Full(e)
  PROVE  Newcomer(e, K, p, nm, i)
BY DEF Newcomer, NoGain, NoNew

\* Directory p has only the name nm for i that it did not have.
OnlyNew(d, e, p, nm, i) ==
  \A on, l : Has(e, p, on, l) => Has(d, p, on, l) \/ (on = nm /\ l = i)

\* Names stay unique with that of a newcomer.
LEMMA UniqueWith ==
  ASSUME NEW d, NEW e, NEW K, Unique(d, K), NEW p \in K, NEW nm, NEW i, Newcomer(d, K, p, nm, i),
         NoGain(d, e, Others(K, p)), OnlyNew(d, e, p, nm, i)
  PROVE  Unique(e, K)
<1>1. ASSUME NEW q \in K, NEW on, NEW k, Has(e, q, on, k)
      PROVE  Has(d, q, on, k) \/ (q = p /\ on = nm /\ k = i /\ i # None)
  <2>1. k # None
    BY <1>1 DEF Has
  <2>2. CASE q = p
    BY <1>1, <2>1, <2>2 DEF OnlyNew
  <2>3. CASE q # p
    BY <1>1, <2>3 DEF NoGain, NoNew, Others
  <2>4. QED BY <2>2, <2>3
<1> SUFFICES ASSUME NEW q \in K, NEW r \in K, NEW on, NEW k, NEW om, NEW l,
                    Has(e, q, on, k), Has(e, r, om, l), k = l \/ (q = r /\ on = om)
             PROVE  q = r /\ on = om /\ k = l
  BY DEF Unique
<1>2. Has(d, q, on, k) \/ (q = p /\ on = nm /\ k = i /\ i # None)
  BY <1>1
<1>3. Has(d, r, om, l) \/ (r = p /\ om = nm /\ l = i /\ i # None)
  BY <1>1
<1>4. CASE Has(d, q, on, k) /\ Has(d, r, om, l)
  BY <1>4 DEF Unique
<1>5. i # None => (\A x : ~Has(d, p, nm, x)) /\ \A x \in K : \A y : ~Has(d, x, y, i)
  BY DEF Newcomer
<1>6. QED BY <1>2, <1>3, <1>4, <1>5

\* The name nm for i is stored in the unused cell at address at, which is slot j of
\* block b of directory p.
Stored(d, e, p, b, j, nm, i) ==
  LET at == Blk(d, p, b) + j
  IN  /\ d[at].name = Free /\ e[at] = EntCell(nm, i) /\ DOMAIN e = DOMAIN d
      /\ \A a \in DOMAIN d : a # at => e[a] = d[a]

\* The tree then has the name for i, which had none; or it is a name without a
\* number. `.' and `..' are not touched, and are right in i if that is a directory.
LEMMA EntryShown ==
  ASSUME NEW d, NEW e, NEW K, Sound(d, K), Sound(e, K), Same(d, e, K), Keeps(d, e, K, {}),
         NEW p \in Live(d), IsDirAt(d, p), NEW b \in Blocks, NEW j \in Slots,
         Blk(d, p, b) # None, b = 0 => j >= 2,
         NEW nm \in Names, NEW i \in K \cup {None}, Stored(d, e, p, b, j, nm, i),
         i # None => i \notin Live(d) /\ Newborn(d, i, p),
         NEW U, None \in U \/ (Placed(d) /\ Dots(d, K))
  PROVE  Proper(e, K, U) /\ Shown(d, e, U)
<1> DEFINE at == Blk(d, p, b) + j
<1>1. SUFFICES ASSUME None \notin U, Placed(d), Dots(d, K)
               PROVE  /\ Placed(e) /\ Dots(e, K)
                      /\ ~NoNone(e) \/ (NoNone(d) /\ Shows(d, e))
  BY DEF Proper, Shown
<1>2. /\ d[at].name = Free /\ e[at] = EntCell(nm, i) /\ DOMAIN e = DOMAIN d
      /\ \A a \in DOMAIN d : a # at => e[a] = d[a]
  BY DEF Stored
<1>3. p \in K /\ Live(d) \subseteq K /\ 0 \in Live(d) /\ nm \notin {".", "..", Free} /\ 0 \in Blocks
  BY LogAssumption, Constants DEF Sound, Live, Free
<1>4. \A q \in K : /\ Loc(e, q) = Loc(d, q) /\ IsDirAt(e, q) = IsDirAt(d, q)
                   /\ \A x \in Blocks : Blk(e, q, x) = Blk(d, q, x)
  BY DEF Same, IsDirAt, Blk
<1>5. /\ at \in DOMAIN d /\ \A q \in K, x \in Blocks, y \in Slots :
           IsDirAt(d, q) /\ Blk(d, q, x) # None => Blk(d, q, x) + y \in DOMAIN d
  BY <1>3, EntryCells
<1> HIDE DEF at
<1>6. ASSUME NEW q \in K, NEW x \in Blocks, NEW y \in Slots, IsDirAt(d, q), Blk(d, q, x) # None,
             ~(q = p /\ x = b /\ y = j)
      PROVE  e[Blk(d, q, x) + y] = d[Blk(d, q, x) + y] /\ Blk(d, q, x) + y # at
  <2>1. Blk(d, q, x) \in Int /\ Blk(d, p, b) \in Int /\ y \in Int /\ j \in Int
    BY <1>3, <1>6, Facts DEF Slots
  <2>2. CASE q = p /\ x = b
    BY <2>1, <2>2, <1>2, <1>5, <1>6 DEF at
  <2>3. CASE q # p \/ x # b
    <3>1. Blk(d, q, x) + DIRENTS <= Blk(d, p, b) \/ Blk(d, p, b) + DIRENTS <= Blk(d, q, x)
      BY <2>3, <1>3, <1>6 DEF Sound, Separate
    <3>2. Blk(d, q, x) + y # at
      BY <3>1, <2>1, Constants DEF at, Slots
    <3>3. QED BY <3>2, <1>2, <1>5, <1>6
  <2>4. QED BY <2>2, <2>3
<1>7. \A a \in DOMAIN e : IsName(e, a) <=> a = at \/ IsName(d, a)
  BY <1>2, <1>3, <1>5 DEF IsName, IsEntry, EntCell
<1>8. ~IsName(d, at)
  BY <1>2 DEF IsName
<1>9. Live(e) = IF i = None THEN Live(d) ELSE With(Live(d), i)
  <2>1. \A a \in DOMAIN d : IsName(d, a) => IsName(e, a) /\ e[a].inum = d[a].inum
    BY <1>2, <1>7, <1>8
  <2>2. \A a \in DOMAIN e : IsName(e, a) => a = at \/ (IsName(d, a) /\ e[a].inum = d[a].inum)
    BY <1>2, <1>7
  <2>3. e[at].inum = i /\ at \in DOMAIN e /\ IsName(e, at)
    BY <1>2, <1>5, <1>7 DEF EntCell
  <2>4. Live(d) \subseteq Live(e) /\ (i # None => i \in Live(e))
    BY <1>2, <2>1, <2>3 DEF Live
  <2>5. \A x \in Live(e) : x \in Live(d) \/ (x = i /\ i # None)
    BY <1>2, <2>2, <2>3 DEF Live
  <2>6. QED BY <2>4, <2>5 DEF With
<1>10. Live(d) \subseteq Live(e)
  BY <1>9 DEF With
<1>18. Single(e)
  <2>1. \A a \in DOMAIN d : IsName(d, a) /\ d[a].inum # None => d[a].inum \in Live(d)
    BY DEF Live
  <2>2. \A a \in DOMAIN e : a # at /\ IsName(e, a) => IsName(d, a) /\ e[a] = d[a] /\ a \in DOMAIN d
    BY <1>2, <1>7
  <2>3. e[at].inum = i
    BY <1>2 DEF EntCell
  <2>4. QED BY <2>1, <2>2, <2>3, <1>1 DEF Placed, Single
<1>11. Placed(e)
  <2> SUFFICES ASSUME NEW a \in DOMAIN e, IsName(e, a) PROVE IsPlaced(e, a)
    BY <1>18 DEF Placed
  <2>1. CASE a = at
    BY <2>1, <1>3, <1>4, <1>10 DEF IsPlaced, at
  <2>2. CASE a # at
    <3>1. PICK q \in Live(d), x \in Blocks, y \in Slots :
            IsDirAt(d, q) /\ Blk(d, q, x) # None /\ a = Blk(d, q, x) + y
      BY <2>2, <1>1, <1>2, <1>7 DEF Placed, IsPlaced
    <3>2. QED BY <3>1, <1>3, <1>4, <1>10 DEF IsPlaced
  <2>3. QED BY <2>1, <2>2
<1>12. ASSUME NEW q \in K, NEW on, NEW k
       PROVE  Has(e, q, on, k) <=> Has(d, q, on, k) \/ (q = p /\ on = nm /\ k = i /\ i # None)
  <2>1. ASSUME Has(e, q, on, k) PROVE Has(d, q, on, k) \/ (q = p /\ on = nm /\ k = i /\ i # None)
    <3>1. PICK x \in Blocks, y \in Slots :
            /\ Blk(e, q, x) # None /\ IsEntry(e, Blk(e, q, x) + y)
            /\ e[Blk(e, q, x) + y].name = on /\ e[Blk(e, q, x) + y].inum = k
      BY <2>1 DEF Has, Holds
    <3>2. k # None /\ on \notin {".", "..", Free} /\ IsDirAt(d, q) /\ Blk(e, q, x) = Blk(d, q, x)
      BY <2>1, <1>4 DEF Has
    <3>3. CASE q = p /\ x = b /\ y = j
      BY <3>1, <3>2, <3>3, <1>2 DEF EntCell, at
    <3>4. CASE ~(q = p /\ x = b /\ y = j)
      <4>1. e[Blk(d, q, x) + y] = d[Blk(d, q, x) + y] /\ Blk(d, q, x) + y \in DOMAIN d
        BY <3>1, <3>2, <3>4, <1>5, <1>6
      <4>2. Holds(d, q, on, k)
        BY <3>1, <3>2, <4>1 DEF Holds, IsEntry
      <4>3. QED BY <3>2, <4>2 DEF Has
    <3>5. QED BY <3>3, <3>4
  <2>2. ASSUME Has(d, q, on, k) PROVE Has(e, q, on, k)
    <3>1. PICK x \in Blocks, y \in Slots :
            /\ Blk(d, q, x) # None /\ IsEntry(d, Blk(d, q, x) + y)
            /\ d[Blk(d, q, x) + y].name = on /\ d[Blk(d, q, x) + y].inum = k
      BY <2>2 DEF Has, Holds
    <3>2. k # None /\ on \notin {".", "..", Free} /\ IsDirAt(d, q) /\ Blk(e, q, x) = Blk(d, q, x)
      BY <2>2, <1>4 DEF Has
    <3>3. ~(q = p /\ x = b /\ y = j)
      BY <3>1, <3>2, <1>2 DEF at
    <3>4. e[Blk(d, q, x) + y] = d[Blk(d, q, x) + y]
      BY <3>1, <3>2, <3>3, <1>6
    <3>5. IsEntry(e, Blk(d, q, x) + y)
      BY <3>1, <3>4, <1>2 DEF IsEntry
    <3>6. Holds(e, q, on, k)
      BY <3>1, <3>2, <3>4, <3>5 DEF Holds
    <3>7. QED BY <3>2, <3>6, <1>4 DEF Has
  <2>3. ASSUME q = p, on = nm, k = i, i # None PROVE Has(e, q, on, k)
    <3>1. Blk(e, p, b) = Blk(d, p, b) /\ IsDirAt(e, p) /\ IsEntry(e, at) /\ e[at].name = nm /\ e[at].inum = i
      BY <1>2, <1>3, <1>4, <1>5 DEF IsEntry, EntCell
    <3>2. Holds(e, p, nm, i)
      BY <3>1 DEF Holds, at
    <3>3. QED BY <2>3, <3>1, <3>2, <1>3 DEF Has
  <2>4. QED BY <2>1, <2>2, <2>3
<1>13. ASSUME NEW q \in K, IsDirAt(d, q)
       PROVE  e[Blk(d, q, 0)] = d[Blk(d, q, 0)] /\ e[Blk(d, q, 0) + 1] = d[Blk(d, q, 0) + 1]
  <2>1. Blk(d, q, 0) # None /\ Blk(d, q, 0) \in Int
    <3>1. InPlace(d, q)
      BY DEF Sound
    <3>2. Blk(d, q, 0) \in Nat
      BY <3>1, Facts DEF InPlace
    <3>3. QED BY <3>2 DEF None
  <2>2. 0 \in Slots /\ 1 \in Slots /\ Blk(d, q, 0) + 0 = Blk(d, q, 0)
    BY <2>1, Constants DEF Slots
  <2>3. ~(q = p /\ 0 = b /\ 0 = j) /\ ~(q = p /\ 0 = b /\ 1 = j)
    OBVIOUS
  <2>4. QED BY <2>1, <2>2, <2>3, <1>3, <1>6, <1>13
<1>14. Dots(e, K)
  <2>1. ASSUME NEW q \in K, IsDirAt(e, q) PROVE DotsAt(e, q)
    BY <2>1, <1>1, <1>3, <1>4, <1>13 DEF DotsAt, Dots
  <2>2. ASSUME NEW x \in K, NEW q \in K, NEW on, Has(e, q, on, x)
        PROVE  x # 0 /\ (IsDirAt(e, x) => Parent(e, x) = q)
    <3>1. IsDirAt(e, x) => IsDirAt(d, x) /\ Parent(e, x) = Parent(d, x)
      BY <1>3, <1>4, <1>13 DEF Parent
    <3>2. CASE Has(d, q, on, x)
      BY <3>1, <3>2, <1>1 DEF Dots
    <3>3. CASE q = p /\ x = i /\ i # None
      BY <3>1, <3>3, <1>3 DEF Newborn
    <3>4. QED BY <2>2, <3>2, <3>3, <1>12
  <2>3. QED BY <2>1, <2>2 DEF Dots
<1>15. NoNone(e) => i # None /\ NoNone(d)
  <2>1. IsName(e, at) /\ e[at].inum = i /\ at \in DOMAIN e
    BY <1>2, <1>5, <1>7 DEF EntCell
  <2>2. \A a \in DOMAIN d : IsName(d, a) => IsName(e, a) /\ e[a].inum = d[a].inum
    BY <1>2, <1>7, <1>8
  <2>3. QED BY <2>1, <2>2, <1>2 DEF NoNone
<1>16. ASSUME i # None PROVE Enters(d, e, p, nm, i) /\ i \in Inums \ Live(d)
  <2>1. /\ i \in K /\ i \in Inums /\ i \notin Live(d) /\ Newborn(d, i, p) /\ i # p
    BY <1>16, Facts
  <2>2. SameType(d, e, Live(d)) /\ IsDirAt(d, p) /\ Live(e) = With(Live(d), i)
    BY <1>3, <1>4, <1>9, <1>16 DEF SameType
  <2>3. \A q \in Live(d) : \A on, k : Has(e, q, on, k) <=> Has(d, q, on, k) \/ (q = p /\ on = nm /\ k = i)
    BY <1>3, <1>12, <1>16
  <2>4. SameFiles(d, e, Live(d), {})
    BY <1>3, <1>4 DEF SameFiles, SameBlock, Keeps
  <2>5. Bare(e, i)
    BY <2>1, <1>12 DEF Newborn, Bare
  <2>6. \A x \in Blocks : Blk(e, i, x) # None <=> x = 0
    BY <2>1, <1>4 DEF Newborn
  <2>7. BlockAt(e, Blk(e, i, 0)) = Junk
    <3>1. Blk(e, i, 0) = Blk(d, i, 0) /\ Blk(d, i, 0) # None
      BY <2>1, <2>6, <1>3, <1>4
    <3>2. CASE IsDirAt(e, i)
      <4>1. InPlace(e, i) /\ 0 \in Slots
        BY <2>1, Constants DEF Sound, Slots
      <4>2. IsEntry(e, Blk(e, i, 0) + 0) /\ Blk(e, i, 0) \in Int
        BY <2>1, <3>1, <3>2, <4>1, <1>3, Facts DEF InPlace
      <4>3. QED BY <4>2 DEF IsEntry, BlockAt
    <3>3. CASE ~IsDirAt(e, i)
      BY <2>1, <3>1, <3>3, <1>3, <1>4 DEF Keeps, Newborn
    <3>4. QED BY <3>2, <3>3
  <2>8. QED BY <2>1, <2>2, <2>3, <2>4, <2>5, <2>6, <2>7 DEF Enters
<1>17. QED BY <1>11, <1>14, <1>15, <1>16 DEF Shows

\* Directory p has a name, and i, if there was a number, is that of a new inode
\* made in it.
Awaits(d, p, i, U) ==
  None \in U \/ (p \in Live(d) /\ (i # None => i \notin Live(d) /\ Newborn(d, i, p)))

\* It is so still when inode i stays as it is, and no name is new.
LEMMA AwaitsStays ==
  ASSUME NEW d, NEW e, NEW K, NEW U, Sound(d, K), Sound(e, K), TreeStays(d, e, U), Keeps(d, e, K, {}),
         NEW L, L \subseteq K, Same(d, e, L), DirsStay(d, e, L),
         NEW p, NEW i, None \in U \/ i \in L \cup {None}, Awaits(d, p, i, U)
  PROVE  Awaits(e, p, i, U)
<1>1. SUFFICES ASSUME None \notin U PROVE p \in Live(e) /\ (i # None => i \notin Live(e) /\ Newborn(e, i, p))
  BY DEF Awaits
<1>2. p \in Live(d) /\ (i # None => i \notin Live(d) /\ Newborn(d, i, p)) /\ Live(e) = Live(d)
  BY <1>1 DEF Awaits, TreeStays, SameTree
<1>3. ASSUME i # None PROVE Newborn(e, i, p)
  <2>1. i \in L /\ i \in K /\ 0 \in Blocks /\ 0 \in Slots /\ 1 \in Slots
    BY <1>1, <1>3, Constants DEF Slots
  <2>2. IsDirAt(e, i) = IsDirAt(d, i) /\ \A b \in Blocks : Blk(e, i, b) = Blk(d, i, b)
    BY <2>1 DEF Same, IsDirAt, Blk
  <2>3. NoGain(d, e, L)
    BY SameNames
  <2>4. Bare(e, i)
    BY <1>2, <1>3, <2>1, <2>3 DEF Newborn, Bare, NoGain, NoNew
  <2>5. Blk(d, i, 0) # None
    BY <1>2, <1>3, <2>1 DEF Newborn
  <2>6. Blk(d, i, 0) \in Int /\ Blk(d, i, 0) + 0 = Blk(d, i, 0)
    BY <2>1, <2>5, Facts
  <2>7. BlockAt(e, Blk(e, i, 0)) = Junk
    <3>1. CASE IsDirAt(e, i)
      <4>1. InPlace(e, i)
        BY <2>1 DEF Sound
      <4>2. IsEntry(e, Blk(e, i, 0) + 0)
        BY <2>1, <2>2, <2>5, <3>1, <4>1 DEF InPlace
      <4>3. QED BY <2>1, <2>2, <2>6, <4>2 DEF IsEntry, BlockAt
    <3>2. CASE ~IsDirAt(e, i)
      BY <1>2, <1>3, <2>1, <2>2, <2>5, <3>2 DEF Keeps, Newborn
    <3>3. QED BY <3>1, <3>2
  <2>8. IsDirAt(e, i) => DotsAt(e, i) /\ Parent(e, i) = p
    <3>1. SUFFICES ASSUME IsDirAt(d, i) PROVE DotsAt(e, i) /\ Parent(e, i) = p
      BY <2>2
    <3>2. e[Blk(d, i, 0)] = d[Blk(d, i, 0)] /\ e[Blk(d, i, 0) + 1] = d[Blk(d, i, 0) + 1]
      BY <2>1, <2>5, <2>6, <3>1 DEF DirsStay
    <3>3. DotsAt(d, i) /\ Parent(d, i) = p
      BY <1>2, <1>3, <3>1 DEF Newborn
    <3>4. QED BY <2>1, <2>2, <3>2, <3>3 DEF DotsAt, Parent
  <2>9. QED BY <1>2, <1>3, <2>2, <2>4, <2>7, <2>8 DEF Newborn
<1>4. QED BY <1>2, <1>3

\* Directory p has the name nm.
Stores(d, p, nm) == p \in Live(d) /\ IsDirAt(d, p) /\ \E k : Holds(d, p, nm, k)

\* The last two writes of CREAT: the inode of the directory p and the entry, which
\* is in p then.
LEMMA EnterName ==
  ASSUME NEW d, NEW K, Sound(d, K), NEW U, Fine(d, K, U), NEW p \in K, IsDirAt(d, p), NEW b \in Blocks,
         NEW j \in Slots, NEW loc \in Int, Room(d, K, p, b, loc), NEW s, Fits(d, p, b, j, s),
         NEW nm \in Names, NEW i \in K \cup {None}, Newcomer(d, K, p, nm, i),
         None \in U \/ p \notin U, Awaits(d, p, i, U)
  PROVE  \E f : /\ Leads(d, << <<Loc(d, p), One(Edit(d[Loc(d, p)], s, b, loc))>>,
                               <<loc + j, One(EntCell(nm, i))>> >>, f, {}, U)
                /\ None \in U \/ Stores(f, p, nm)
<1> DEFINE ino  == d[Loc(d, p)]
           ino2 == Edit(ino, s, b, loc)
           d1   == Put(d, Loc(d, p), One(ino2))
           cell == One(EntCell(nm, i))
           at   == loc + j
           d2   == Put(d1, at, cell)
<1>1. ino \in InodeCells /\ (\A x \in Blocks : Blk(d, p, x) = ino.block_loc[x]) /\ s \in Nat
  BY Facts DEF Blk, Fits
<1>2. /\ ino2 \in InodeCells /\ ino2.type = ino.type /\ ino2.size = s
      /\ ino2.block_loc = [ino.block_loc EXCEPT ![b] = loc]
      /\ ino.block_loc \in [Blocks -> Int]
  <2> HIDE DEF ino
  <2>1. QED BY <1>1, Edited
<1>3. ino2.block_loc[b] = loc /\ \A x \in Blocks : x # b => ino2.block_loc[x] = Blk(d, p, x)
  BY <1>1, <1>2
<1> HIDE DEF ino2
<1>4. loc # None
  BY DEF Room, None
<1>5. \A x \in Blocks : x * DIRENTS < ino2.size => ino2.block_loc[x] # None
  BY <1>2, <1>3, <1>4 DEF Fits
<1>6. /\ Sound(d1, K) /\ Keeps(d, d1, K, {}) /\ CR(d1) = CR(d) /\ DOMAIN d1 = DOMAIN d
      /\ \A x \in K : MapAt(d1, x) = MapAt(d, x) /\ Loc(d1, x) = Loc(d, x)
      /\ Same(d, d1, Others(K, p)) /\ DirsStay(d, d1, K) /\ Stays(d, d1)
      /\ d1[Loc(d, p)] = ino2 /\ \A a \in DOMAIN d : a # Loc(d, p) => d1[a] = d[a]
      /\ Calm(d, d1)
  <2>1. \/ ino2.block_loc[b] = Blk(d, p, b)
        \/ /\ b # 0 /\ ino2.block_loc[b] > 0 /\ Below(d, K, ino2.block_loc[b])
           /\ ino2.block_loc[b] + DIRENTS <= CR(d).end
           /\ IsDirAt(d, p) =>
                b * DIRENTS < ino2.size /\ \A x \in Slots : IsEntry(d, ino2.block_loc[b] + x)
    <3>1. b * DIRENTS < ino2.size
      <4>1. b * DIRENTS \in Int /\ j \in Nat
        BY Constants DEF Blocks, Slots
      <4>2. QED BY <4>1, <1>2 DEF Fits
    <3>2. QED BY <3>1, <1>3 DEF Room
  <2>2. ino2.size > 0 /\ ino2.type = d[Loc(d, p)].type /\ d1 = Put(d, Loc(d, p), One(ino2))
    BY <1>2 DEF Fits
  <2> HIDE DEF d1
  <2>3. QED BY <2>1, <2>2, <1>2, <1>3, <1>5, WriteInode
<1>7. Blk(d1, p, b) = loc /\ IsDirAt(d1, p)
  BY <1>2, <1>3, <1>6 DEF Blk, IsDirAt
<1> HIDE DEF d1
<1>15. ASSUME NEW x \in Blocks, NEW y \in Slots, Blk(d1, p, x) # None
       PROVE  \/ d1[Blk(d1, p, x) + y].name = Free
              \/ Blk(d1, p, x) = Blk(d, p, x) /\ d1[Blk(d, p, x) + y] = d[Blk(d, p, x) + y]
  <2>1. Blk(d1, p, x) = IF x = b THEN loc ELSE Blk(d, p, x)
    BY <1>1, <1>2, <1>3, <1>6 DEF Blk
  <2>2. CASE Blk(d1, p, x) = Blk(d, p, x)
    BY <2>2, <1>6, <1>15 DEF DirsStay
  <2>3. CASE Blk(d1, p, x) # Blk(d, p, x)
    <3>1. x = b /\ Blk(d1, p, x) = loc /\ loc # Blk(d, p, b)
      BY <2>1, <2>3
    <3>2. Below(d, K, loc) /\ IsEntry(d, loc + y) /\ d[loc + y].name = Free
      BY <3>1 DEF Room
    <3>3. Loc(d, p) < loc /\ Loc(d, p) \in Int /\ y \in Nat
      BY <3>2, Facts DEF Below, Slots
    <3>4. loc + y # Loc(d, p) /\ loc + y \in DOMAIN d
      BY <3>2, <3>3 DEF IsEntry
    <3>5. QED BY <3>1, <3>2, <3>4, <1>6
  <2>4. QED BY <2>2, <2>3
<1>13. p \in U \/ Covered(d1, p)
  <2> SUFFICES ASSUME p \notin U, NEW x \in Blocks, NEW y \in Slots, Blk(d1, p, x) # None
               PROVE  d1[Blk(d1, p, x) + y].name = Free \/ x * DIRENTS + y < d1[Loc(d1, p)].size
    BY DEF Covered
  <2>1. d1[Loc(d1, p)].size = s /\ s \in Nat /\ s >= ino.size /\ ino.size \in Nat
    BY <1>1, <1>2, <1>3, <1>6 DEF Fits, InodeCells
  <2>2. CASE Blk(d1, p, x) = Blk(d, p, x) /\ d1[Blk(d, p, x) + y] = d[Blk(d, p, x) + y]
    <3>1. d[Blk(d, p, x) + y].name = Free \/ x * DIRENTS + y < ino.size
      BY <2>2 DEF Fine, Covers, Covered
    <3>3. x * DIRENTS + y \in Int
      BY Constants DEF Blocks, Slots
    <3>4. QED BY <3>1, <3>3, <2>1, <2>2
  <2>3. QED BY <2>2, <1>15
<1>16. NoNew(d, d1, p)
  <2> SUFFICES ASSUME NEW on, NEW l, Has(d1, p, on, l) PROVE Has(d, p, on, l)
    BY DEF NoNew
  <2>1. PICK x \in Blocks, y \in Slots :
          /\ Blk(d1, p, x) # None /\ IsEntry(d1, Blk(d1, p, x) + y)
          /\ d1[Blk(d1, p, x) + y].name = on /\ d1[Blk(d1, p, x) + y].inum = l
    BY DEF Has, Holds
  <2>2. on \notin {".", "..", Free} /\ l # None
    BY DEF Has
  <2>3. Blk(d1, p, x) = Blk(d, p, x) /\ d1[Blk(d, p, x) + y] = d[Blk(d, p, x) + y]
    BY <2>1, <2>2, <1>15
  <2>4. IsEntry(d, Blk(d, p, x) + y)
    BY <2>1, <2>3, <1>6 DEF IsEntry
  <2>5. Holds(d, p, on, l)
    BY <2>1, <2>3, <2>4 DEF Holds
  <2>6. QED BY <2>2, <2>5 DEF Has
<1>18. None \in U \/ \A x \in Blocks :
         Blk(d, p, x) # None => Vacant(d, Blk(d, p, x)) \/ Blk(d1, p, x) = Blk(d, p, x)
  <2> SUFFICES ASSUME None \notin U, NEW x \in Blocks, Blk(d, p, x) # None, Blk(d1, p, x) # Blk(d, p, x),
                      NEW y \in Slots
               PROVE  d[Blk(d, p, x) + y].name = Free
    BY DEF Vacant
  <2>1. x = b /\ loc # Blk(d, p, b)
    BY <1>1, <1>2, <1>3, <1>6 DEF Blk
  <2>2. ino.size <= b * DIRENTS /\ ino.size \in Nat /\ b * DIRENTS \in Int /\ y \in Nat
    BY <2>1, <1>1, Constants DEF Room, InodeCells, Blocks, Slots
  <2>3. d[Blk(d, p, x) + y].name = Free \/ x * DIRENTS + y < ino.size
    BY DEF Fine, Covers, Covered
  <2>4. QED BY <2>1, <2>2, <2>3
<1>14. Fine(d1, K, U) /\ TreeStays(d, d1, U)
  <2>1. IsDirAt(d1, p) = IsDirAt(d, p)
    BY <1>7
  <2>2. QED BY <2>1, <1>6, <1>13, <1>16, <1>18, FineInode
<1>19. Shown(d, d1, U)
  <2>1. ASSUME NEW k \in K, NEW x \in Blocks, ~IsDirAt(d, k), Blk(d, k, x) = None PROVE Blk(d1, k, x) = None
    BY <2>1, <1>6 DEF Same, Others, Blk
  <2>2. QED BY <2>1, <1>6, <1>14, ShownStill
<1>20. Awaits(d1, p, i, U)
  <2> DEFINE L == Others(K, p)
  <2>1. L \subseteq K /\ DirsStay(d, d1, L) /\ Same(d, d1, L)
    BY <1>6, OthersSame DEF Others
  <2>2. None \in U \/ i \in L \cup {None}
    BY DEF Awaits, Others
  <2> HIDE DEF L
  <2>3. QED BY <2>1, <2>2, <1>6, <1>14, AwaitsStays
<1>17. Newcomer(d1, K, p, nm, i)
  <2>1. NoGain(d, d1, Others(K, p))
    BY <1>6, OthersSame, SameNames DEF Others
  <2>2. NoGain(d, d1, K)
    BY <2>1, <1>16 DEF NoGain, Others
  <2>3. QED BY <2>2, <1>6, NewcomerStays DEF Stays
<1>21. p \notin U => d1[at].name = Free
  <2>1. SUFFICES ASSUME p \notin U, d1[at].name # Free PROVE FALSE
    OBVIOUS
  <2>2. Blk(d1, p, b) = Blk(d, p, b) /\ d1[loc + j] = d[Blk(d, p, b) + j] /\ Blk(d1, p, b) # None
    BY <2>1, <1>4, <1>7, <1>15
  <2>3. d[Blk(d, p, b) + j].name = Free \/ b * DIRENTS + j < ino.size
    BY <2>1, <2>2 DEF Fine, Covers, Covered
  <2>4. ino.size <= b * DIRENTS + j /\ ino.size \in Nat /\ b * DIRENTS + j \in Int
    BY <1>1, Constants DEF Fits, InodeCells, Blocks, Slots
  <2>5. QED BY <2>1, <2>2, <2>3, <2>4
<1>22. None \in U \/ b # 0 \/ j >= 2
  <2>1. SUFFICES ASSUME None \notin U, b = 0, j \in {0, 1} PROVE FALSE
    BY DEF Slots
  <2>2. DotsAt(d1, p) /\ Blk(d1, p, 0) = loc /\ loc + 0 = loc
    BY <2>1, <1>7, <1>14 DEF Fine, Proper, Dots
  <2>3. d1[at].name = Free
    BY <2>1, <1>21
  <2>4. QED BY <2>1, <2>2, <2>3 DEF DotsAt, Free
<1>8. /\ Sound(d2, K) /\ Fine(d2, K, U) /\ Keeps(d1, d2, K, {}) /\ Shown(d1, d2, U)
      /\ None \in U \/ Stores(d2, p, nm)
  <2>1. PICK n \in Nat : n = 1
    OBVIOUS
  <2>2. Run(cell, n) /\ \A x \in 0..(n - 1) : cell[x] = EntCell(nm, i)
    BY <2>1 DEF Run, One
  <2> HIDE DEF cell
  <2>3. \A x \in 0..(n - 1) :
           \/ cell[x].kind = "data" /\ ~IsDirAt(d1, p)
           \/ cell[x].kind = "ent" /\ (cell[x].name \in {".", "..", Free} \/ cell[x].inum \in K \cup {None})
    BY <2>2 DEF EntCell
  <2>4. at \in Int /\ loc <= at /\ at + n <= loc + DIRENTS
    BY <2>1, Constants DEF Slots
  <2>5. d2 = Put(d1, at, cell)
    OBVIOUS
  <2> HIDE DEF d2, at
  <2>6. /\ Sound(d2, K) /\ Keeps(d1, d2, K, {}) /\ Same(d1, d2, K) /\ DirsStay(d1, d2, Others(K, p))
        /\ \A a \in DOMAIN d1 : a \notin at..(at + n - 1) => d2[a] = d1[a]
        /\ \A x \in 0..(n - 1) : d2[at + x] = cell[x]
        /\ Full(d1) => Full(d2)
        /\ (\A x \in 0..(n - 1) : Numbers(cell[x])) => NoneStay(d1, d2)
        /\ JunkStays(d1, d2)
    BY <2>2, <2>3, <2>4, <2>5, <1>4, <1>6, <1>7, WriteBlock
  <2>11. d2[at] = EntCell(nm, i)
    <3>1. 0 \in 0..(n - 1) /\ at + 0 = at
      BY <2>1, <2>4
    <3>2. QED BY <3>1, <2>2, <2>6
  <2>12. ASSUME NEW x \in Blocks, NEW y \in Slots, Blk(d2, p, x) # None, ~(x = b /\ y = j)
         PROVE  /\ Blk(d2, p, x) = Blk(d1, p, x) /\ Blk(d1, p, x) + y \in DOMAIN d1
                /\ d2[Blk(d1, p, x) + y] = d1[Blk(d1, p, x) + y]
    <3>1. Blk(d2, p, x) = Blk(d1, p, x)
      BY <2>6 DEF Same, Blk
    <3>2. Blk(d1, p, x) + y # loc + j
      <4>1. x # b => Blk(d1, p, x) + DIRENTS <= loc \/ loc + DIRENTS <= Blk(d1, p, x)
        BY <3>1, <2>12, <1>4, <1>6, <1>7 DEF Sound, Separate
      <4>2. Blk(d1, p, x) \in Int
        BY <3>1, <2>12, <1>6, Facts
      <4>3. QED BY <4>1, <4>2, <2>12, <1>7, Constants DEF Slots
    <3>3. Blk(d1, p, x) + y \notin at..(at + n - 1)
      <4>1. at = loc + j
        BY DEF at
      <4>2. at..(at + n - 1) = {at}
        BY <2>1, <2>4
      <4>3. QED BY <3>2, <4>1, <4>2
    <3>4. Blk(d1, p, x) + y \in DOMAIN d1
      BY <3>1, <2>12, <1>6, <1>7, EntryCells
    <3>5. QED BY <3>1, <3>3, <3>4, <2>6
  <2>7. ASSUME Covered(d1, p) PROVE Covered(d2, p)
    <3> SUFFICES ASSUME NEW x \in Blocks, NEW y \in Slots, Blk(d2, p, x) # None
                 PROVE  d2[Blk(d2, p, x) + y].name = Free \/ x * DIRENTS + y < d2[Loc(d2, p)].size
      BY DEF Covered
    <3>1. d2[Loc(d2, p)] = d1[Loc(d1, p)]
      BY <2>6 DEF Same
    <3>2. CASE x = b /\ y = j
      BY <3>1, <3>2, <1>2, <1>6 DEF Fits
    <3>3. CASE ~(x = b /\ y = j)
      BY <3>1, <3>3, <2>7, <2>12, <1>7 DEF Covered
    <3>4. QED BY <3>2, <3>3
  <2>8. Same(d1, d2, Others(K, p))
    BY <2>6, OthersSame
  <2>13. OnlyNew(d1, d2, p, nm, i)
    <3> SUFFICES ASSUME NEW on, NEW l, Has(d2, p, on, l)
                 PROVE  Has(d1, p, on, l) \/ (on = nm /\ l = i)
      BY DEF OnlyNew
    <3>1. PICK x \in Blocks, y \in Slots :
            /\ Blk(d2, p, x) # None /\ IsEntry(d2, Blk(d2, p, x) + y)
            /\ d2[Blk(d2, p, x) + y].name = on /\ d2[Blk(d2, p, x) + y].inum = l
      BY DEF Has, Holds
    <3>2. CASE x = b /\ y = j
      <4>1. Blk(d2, p, x) = Blk(d1, p, b)
        BY <3>2, <2>6 DEF Same, Blk
      <4>2. Blk(d2, p, x) + y = at
        BY <4>1, <3>2, <1>7 DEF at
      <4>3. QED BY <4>2, <3>1, <2>11 DEF EntCell
    <3>3. CASE ~(x = b /\ y = j)
      <4>1. /\ Blk(d2, p, x) = Blk(d1, p, x) /\ Blk(d1, p, x) + y \in DOMAIN d1
            /\ d2[Blk(d1, p, x) + y] = d1[Blk(d1, p, x) + y]
        BY <3>1, <3>3, <2>12
      <4>2. IsEntry(d1, Blk(d1, p, x) + y)
        BY <3>1, <4>1 DEF IsEntry
      <4>3. Holds(d1, p, on, l)
        BY <3>1, <4>1, <4>2 DEF Holds
      <4>4. QED BY <4>3, <1>7 DEF Has
    <3>4. QED BY <3>2, <3>3
  <2>14. DOMAIN d2 = DOMAIN d1 /\ at \in DOMAIN d1 /\ \A a \in DOMAIN d1 : a # at => d2[a] = d1[a]
    <3>1. Blk(d1, p, b) + j \in DOMAIN d1
      BY <1>4, <1>6, <1>7, EntryCells
    <3>2. at \in DOMAIN d1 /\ at \in Int
      BY <3>1, <2>4, <1>7 DEF at
    <3>3. d2 = Put(d1, at, One(EntCell(nm, i)))
      BY DEF d2, cell
    <3>4. QED BY <3>2, <3>3, OneDomain, OneOld
  <2>15. Proper(d2, K, U) /\ Shown(d1, d2, U)
    <3>1. CASE None \in U
      BY <3>1 DEF Proper, Shown
    <3>2. CASE None \notin U
      <4>1. Stored(d1, d2, p, b, j, nm, i)
        BY <3>2, <2>11, <2>14, <1>7, <1>21 DEF Stored, at
      <4>2. p \in Live(d1) /\ (i # None => i \notin Live(d1) /\ Newborn(d1, i, p))
        BY <3>2, <1>20 DEF Awaits
      <4>3. Placed(d1) /\ Dots(d1, K) /\ Blk(d1, p, b) # None
        BY <3>2, <1>4, <1>7, <1>14 DEF Fine, Proper
      <4>4. Keeps(d1, d2, K, {}) /\ Same(d1, d2, K) /\ (b = 0 => j >= 2)
        BY <3>2, <2>6, <1>7, <1>22
      <4>5. QED BY <4>1, <4>2, <4>3, <4>4, <2>6, <1>6, <1>7, EntryShown
    <3>3. QED BY <3>1, <3>2
  <2>16. Holds(d2, p, nm, i)
    <3>1. Blk(d2, p, b) = loc
      BY <2>6, <1>7 DEF Same, Blk
    <3>2. IsEntry(d2, loc + j) /\ d2[loc + j] = EntCell(nm, i)
      BY <2>11, <2>14 DEF IsEntry, EntCell, at
    <3>3. QED BY <3>1, <3>2, <1>4 DEF Holds, EntCell
  <2>17. None \in U \/ Stores(d2, p, nm)
    <3>5. IsDirAt(d2, p)
      BY <2>6, <1>7 DEF Same, IsDirAt
    <3>1. SUFFICES ASSUME None \notin U PROVE p \in Live(d2)
      BY <2>16, <3>5 DEF Stores
    <3>2. p \in Live(d1) /\ d1[at].name = Free
      BY <3>1, <1>20, <1>21 DEF Awaits, at
    <3>3. \A a \in DOMAIN d1 : IsName(d1, a) => a \in DOMAIN d2 /\ IsName(d2, a) /\ d2[a] = d1[a]
      BY <3>2, <2>14 DEF IsName, IsEntry
    <3>4. QED BY <3>2, <3>3 DEF Live
  <2>9. Fine(d2, K, U)
    <3>1. Covers(d2, K, U)
      BY <2>6, <2>7, <2>8, <1>13, <1>14, CoversBut DEF Fine
    <3>2. NoGain(d1, d2, Others(K, p))
      BY <2>6, <2>8, <1>6, SameNames DEF Others
    <3>3. Unique(d2, K)
      BY <3>2, <2>13, <1>14, <1>17, UniqueWith DEF Fine
    <3>4. Settled(d2)
      <4>1. CASE i = None
        BY <4>1, <2>6, <1>17 DEF Newcomer, Settled
      <4>2. CASE i # None
        <5>1. \A x \in 0..(n - 1) : Numbers(cell[x])
          BY <4>2, <2>2 DEF Numbers, EntCell
        <5>2. QED BY <5>1, <2>6, <1>14 DEF NoneStay, Settled, Fine
      <4>3. QED BY <4>1, <4>2
    <3>5. QED BY <3>1, <3>3, <3>4, <2>6, <2>15, <1>14 DEF Fine, JunkStays
  <2>10. QED BY <2>6, <2>9, <2>15, <2>17, <1>7
<1> HIDE DEF d2
<1>9. Leads(d, << <<Loc(d, p), One(ino2)>> >>, d1, {}, U)
  BY <1>6, <1>14, <1>19, LeadsOne DEF d1
<1>10. Leads(d1, << <<at, cell>> >>, d2, {}, U)
  BY <1>6, <1>8, <1>14, LeadsOne DEF d2
<1>11. Leads(d, << <<Loc(d, p), One(ino2)>>, <<at, cell>> >>, d2, {}, U)
  BY <1>9, <1>10, LeadsThen
<1>12. QED BY <1>8, <1>11 DEF ino2

\* A block of unused entries is added at the end of the log.
LEMMA AddBlock ==
  ASSUME NEW d, NEW K, Sound(d, K), NEW U, Fine(d, K, U),
         NEW p, NEW i \in K \cup {None}, Awaits(d, p, i, U)
  PROVE  \E e : /\ Leads(d, << <<CR(d).end, FreeBlock>>,
                              <<0, One(CRCell(CR(d).imap, CR(d).end + DIRENTS))>> >>, e, {}, U)
                /\ Sound(e, K) /\ Fine(e, K, U) /\ Same(d, e, K)
                /\ NoGain(d, e, K) /\ Stays(d, e) /\ Awaits(e, p, i, U)
                /\ CR(d).end > 0 /\ Below(e, K, CR(d).end) /\ CR(d).end + DIRENTS <= CR(e).end
                /\ \A j \in Slots : IsEntry(e, CR(d).end + j) /\ e[CR(d).end + j].name = Free
<1> DEFINE end == CR(d).end
           d1  == Put(d, end, FreeBlock)
           cr  == CRCell(CR(d).imap, end + DIRENTS)
           d2  == Put(d1, 0, One(cr))
<1>1. /\ end \in Nat /\ end > 1 /\ DIRENTS \in Nat /\ Below(d, K, end) /\ CR(d).imap \in [Pieces -> Int]
      /\ \A x, y \in Pieces : x # y /\ CR(d).imap[x] # None => CR(d).imap[x] # CR(d).imap[y]
  BY Facts, Constants DEF Sound, Shaped
<1>2. Run(FreeBlock, DIRENTS) /\ \A j \in Slots : FreeBlock[j] = EntCell(Free, None)
  BY <1>1 DEF FreeBlock, Run, Slots
<1>3. \A j \in Slots : FreeBlock[j].kind = "ent" /\ Blank(FreeBlock[j])
  BY <1>2 DEF Blank, EntCell
<1>4. /\ Sound(d1, K) /\ Same(d, d1, K) /\ Keeps(d, d1, K, {}) /\ DirsStay(d, d1, K) /\ CR(d1) = CR(d)
      /\ Stays(d, d1) /\ \A j \in Slots : end + j \in DOMAIN d1 /\ d1[end + j] = FreeBlock[j]
      /\ Calm(d, d1)
  <2> DEFINE cells == FreeBlock
  <2>1. end >= CR(d).end /\ d1 = Put(d, end, cells)
    BY <1>1
  <2>2. Run(cells, DIRENTS) /\ \A j \in Slots : Blank(cells[j])
    BY <1>2, <1>3
  <2> HIDE DEF d1, end, cells
  <2>3. /\ Sound(d1, K) /\ Same(d, d1, K) /\ Keeps(d, d1, K, {}) /\ DirsStay(d, d1, K) /\ CR(d1) = CR(d)
        /\ Stays(d, d1) /\ \A j \in Slots : end + j \in DOMAIN d1 /\ d1[end + j] = cells[j]
        /\ Calm(d, d1)
    BY <2>1, <2>2, <1>1, WriteFreeBlock
  <2>4. QED BY <2>3 DEF cells
<1> HIDE DEF d1
<1>5. /\ Sound(d2, K) /\ Same(d1, d2, K) /\ Keeps(d1, d2, K, {}) /\ DirsStay(d1, d2, K)
      /\ CR(d2).imap = CR(d).imap /\ CR(d2).end = end + DIRENTS
      /\ Stays(d1, d2) /\ DOMAIN d2 = DOMAIN d1 /\ \A a \in DOMAIN d1 : a # 0 => d2[a] = d1[a]
      /\ Calm(d1, d2)
  <2>1. end + DIRENTS \in Nat /\ end + DIRENTS >= CR(d1).end
    BY <1>1, <1>4
  <2>2. d2 = Put(d1, 0, One(CRCell(CR(d).imap, end + DIRENTS)))
    OBVIOUS
  <2>3. CR(d).imap = CR(d1).imap
    BY <1>4
  <2> HIDE DEF d2, end
  <2>4. QED BY <1>1, <1>4, <2>1, <2>2, <2>3, WriteCR
<1> HIDE DEF d2
<1>6. Same(d, d2, K)
  BY <1>4, <1>5 DEF Same
<1>7. \A j \in Slots : IsEntry(d2, end + j) /\ d2[end + j].name = Free
  <2> TAKE j \in Slots
  <2>1. end + j # 0
    BY <1>1 DEF Slots
  <2>2. end + j \in DOMAIN d1 /\ d1[end + j].kind = "ent" /\ d1[end + j].name = Free
    BY <1>2, <1>3, <1>4 DEF EntCell
  <2>3. QED BY <2>1, <2>2, <1>5 DEF IsEntry
<1>8. Below(d2, K, end)
  <2>1. \A x \in K : Loc(d2, x) = Loc(d, x) /\ \A b \in Blocks : Blk(d2, x, b) = Blk(d, x, b)
    BY <1>6 DEF Same, Blk
  <2>2. QED BY <2>1, <1>1, <1>5 DEF Below
<1>14. Fine(d1, K, U) /\ Fine(d2, K, U) /\ TreeStays(d, d1, U) /\ TreeStays(d1, d2, U)
  <2>1. Fine(d1, K, U) /\ TreeStays(d, d1, U)
    BY <1>4, FineSame
  <2>2. Fine(d2, K, U) /\ TreeStays(d1, d2, U)
    BY <2>1, <1>4, <1>5, FineSame
  <2>3. QED BY <2>1, <2>2
<1>16. Shown(d, d1, U) /\ Shown(d1, d2, U)
  <2>1. Shown(d, d1, U)
    BY <1>4, <1>14, ShownSame
  <2>2. Shown(d1, d2, U)
    BY <1>4, <1>5, <1>14, ShownSame
  <2>3. QED BY <2>1, <2>2
<1>17. Awaits(d2, p, i, U)
  <2>1. Awaits(d1, p, i, U)
    BY <1>4, <1>14, AwaitsStays
  <2>2. QED BY <2>1, <1>4, <1>5, <1>14, AwaitsStays
<1>15. NoGain(d, d2, K) /\ Stays(d, d2)
  <2>1. NoGain(d, d1, K) /\ NoGain(d1, d2, K)
    BY <1>4, <1>5, SameNames
  <2>2. QED BY <2>1, <1>4, <1>5, GainNone DEF Stays, NoneStay
<1>9. Leads(d, << <<end, FreeBlock>> >>, d1, {}, U)
  BY <1>4, <1>14, <1>16, LeadsOne DEF d1
<1>10. Leads(d1, << <<0, One(cr)>> >>, d2, {}, U)
  BY <1>4, <1>5, <1>14, <1>16, LeadsOne DEF d2
<1>11. Leads(d, << <<end, FreeBlock>>, <<0, One(cr)>> >>, d2, {}, U)
  BY <1>9, <1>10, LeadsThen
<1>12. end + DIRENTS <= CR(d2).end /\ end > 0
  BY <1>1, <1>5
<1>13. QED BY <1>5, <1>6, <1>7, <1>8, <1>11, <1>12, <1>14, <1>15, <1>17

\* The block of the next entry of a directory of size s, and the blocks before.
LEMMA NextBlock ==
  ASSUME NEW s \in Nat, s < BLOCKS * DIRENTS
  PROVE  /\ s \div DIRENTS \in Blocks /\ s % DIRENTS \in Slots
         /\ (s \div DIRENTS) * DIRENTS + (s % DIRENTS) = s
         /\ s % DIRENTS = 0 /\ s > 0 => s \div DIRENTS # 0
         /\ s % DIRENTS # 0 => (s \div DIRENTS) * DIRENTS < s
         /\ \A x \in Blocks : x * DIRENTS < s + 1 => x = s \div DIRENTS \/ x * DIRENTS < s
<1> DEFINE q == s \div DIRENTS
           r == s % DIRENTS
<1>1. DIRENTS \in Nat \ {0} /\ BLOCKS \in Nat /\ DIRENTS > 0 /\ s \in Int
  BY LogAssumption
<1>2. q \in Int /\ r \in 0..(DIRENTS - 1) /\ s = DIRENTS * q + r
  BY <1>1, DivMod, Zenon
<1> HIDE DEF q, r
<1>3. q >= 0
  <2>1. SUFFICES ASSUME q <= -1 PROVE FALSE
    BY <1>2
  <2>2. DIRENTS * q <= DIRENTS * (-1)
    BY <2>1, <1>1, <1>2
  <2>3. QED BY <2>2, <1>1, <1>2
<1>4. q < BLOCKS
  <2>1. SUFFICES ASSUME q >= BLOCKS PROVE FALSE
    BY <1>1, <1>2
  <2>2. DIRENTS * q >= DIRENTS * BLOCKS
    BY <2>1, <1>1, <1>2
  <2>3. DIRENTS * BLOCKS = BLOCKS * DIRENTS
    BY <1>1
  <2>4. QED BY <2>2, <2>3, <1>1, <1>2
<1>5. r = 0 /\ s > 0 => q # 0
  BY <1>1, <1>2
<1>6. q * DIRENTS = DIRENTS * q
  BY <1>1, <1>2
<1>7. ASSUME NEW x \in Blocks, x * DIRENTS < s + 1 PROVE x = q \/ x * DIRENTS < s
  <2>1. x \in Nat /\ x * DIRENTS = DIRENTS * x /\ DIRENTS * x \in Nat
    BY <1>1 DEF Blocks
  <2>2. SUFFICES ASSUME DIRENTS * x = s PROVE x = q
    BY <2>1, <1>7
  <2>3. DIRENTS * (x - q) = r
    BY <2>1, <2>2, <1>1, <1>2
  <2>4. (x - q) * DIRENTS < DIRENTS /\ -DIRENTS < (x - q) * DIRENTS
    <3>1. (x - q) * DIRENTS = DIRENTS * (x - q)
      BY <2>1, <1>1, <1>2
    <3>2. QED BY <3>1, <2>3, <1>1, <1>2
  <2>5. x - q = 0
    <3> DEFINE y == x - q
    <3>1. y \in Int /\ y * DIRENTS < DIRENTS /\ -DIRENTS < y * DIRENTS
      BY <2>1, <2>4, <1>2
    <3> HIDE DEF y
    <3>2. y = 0
      BY <3>1, <1>1, SmallMultiple
    <3>3. QED BY <3>2 DEF y
  <2>6. QED BY <2>1, <2>5, <1>2
<1>8. QED BY <1>1, <1>2, <1>3, <1>4, <1>5, <1>6, <1>7 DEF q, r, Blocks, Slots

\* The position of slot j of block b in the search.
LEMMA Position ==
  ASSUME NEW b \in Blocks, NEW j \in Slots
  PROVE  /\ b * DIRENTS + j \in 0..(BLOCKS * DIRENTS - 1)
         /\ (b * DIRENTS + j) \div DIRENTS = b /\ (b * DIRENTS + j) % DIRENTS = j
<1> DEFINE m == b * DIRENTS + j
           q == m \div DIRENTS
           r == m % DIRENTS
<1>1. /\ DIRENTS \in Nat \ {0} /\ BLOCKS \in Nat /\ b \in Nat /\ b <= BLOCKS - 1
      /\ j \in 0..(DIRENTS - 1) /\ b * DIRENTS \in Nat /\ DIRENTS > 0
  BY LogAssumption DEF Blocks, Slots
<1>2. r = j
  BY <1>1, ModIs
<1>3. m \in Int /\ m >= 0
  BY <1>1
<1>4. q \in Int /\ m = DIRENTS * q + r
  <2> HIDE DEF m
  <2>1. QED BY <1>1, <1>3, DivMod, Zenon
<1>5. q = b
  <2> HIDE DEF q, r
  <2>1. DIRENTS * q = b * DIRENTS
    BY <1>1, <1>2, <1>4
  <2>2. DIRENTS * (q - b) = 0
    BY <2>1, <1>1, <1>4
  <2>3. QED BY <2>2, <1>1, <1>4
<1>6. m < BLOCKS * DIRENTS
  <2>1. (BLOCKS - 1) * DIRENTS = BLOCKS * DIRENTS - DIRENTS
    BY <1>1
  <2>2. b * DIRENTS <= (BLOCKS - 1) * DIRENTS
    BY <1>1
  <2>3. QED BY <2>1, <2>2, <1>1
<1>7. BLOCKS * DIRENTS \in Nat
  BY <1>1
<1>8. QED BY <1>1, <1>2, <1>3, <1>5, <1>6, <1>7

\* The search meets the blocks of the directory at their places.
LEMMA ScanAt ==
  ASSUME NEW ino, NEW b \in Blocks, ino.block_loc[b] # None, NEW j \in Slots
  PROVE  /\ b * DIRENTS + j \in DOMAIN ScanAddr(ino)
         /\ ScanAddr(ino)[b * DIRENTS + j] = ino.block_loc[b] + j
<1> DEFINE addr == ScanAddr(ino)
           m    == b * DIRENTS + j
           S    == {x \in 0..b : ino.block_loc[x] # None}
<1>1. m \in 0..(BLOCKS * DIRENTS - 1) /\ m \div DIRENTS = b /\ m - b * DIRENTS = j
  <2>1. b * DIRENTS \in Int /\ j \in Int
    BY Constants DEF Blocks, Slots
  <2>2. m - b * DIRENTS = j
    BY <2>1
  <2>3. QED BY <2>2, Position
<1>2. Max(S) = b
  <2>1. b \in Nat /\ b \in S /\ S \subseteq 0..b
    BY Constants DEF Blocks
  <2> HIDE DEF S
  <2>2. Max(S) \in S /\ \A y \in S : Max(S) >= y
    BY <2>1, Greatest
  <2> DEFINE x == Max(S)
  <2>3. x \in 0..b /\ x >= b
    BY <2>1, <2>2
  <2> HIDE DEF x
  <2>4. x = b
    BY <2>1, <2>3
  <2>5. QED BY <2>4 DEF x
<1> HIDE DEF m
<1>3. m \in DOMAIN addr
  BY <1>1 DEF ScanAddr
<1>4. addr[m] = ino.block_loc[Max(S)] + (m - Max(S) * DIRENTS)
  BY <1>1 DEF ScanAddr
<1> HIDE DEF S, addr
<1>5. addr[m] = ino.block_loc[b] + j
  BY <1>4, <1>1, <1>2
<1>6. QED BY <1>3, <1>5 DEF m, addr

\* What it meets before a place in a block of the directory is one too.
LEMMA ScanBefore ==
  ASSUME NEW ino, NEW b \in Blocks, NEW j \in Slots,
         \A q \in Blocks : q <= b => ino.block_loc[q] # None,
         NEW m \in DOMAIN ScanAddr(ino), m <= b * DIRENTS + j
  PROVE  \E q \in Blocks, r \in Slots :
           q <= b /\ m = q * DIRENTS + r /\ ScanAddr(ino)[m] = ino.block_loc[q] + r
<1> DEFINE q == m \div DIRENTS
           r == m % DIRENTS
<1>1. m \in Nat /\ m < BLOCKS * DIRENTS
  BY Constants DEF ScanAddr
<1>2. q \in Blocks /\ r \in Slots /\ q * DIRENTS + r = m
  BY <1>1, NextBlock, Zenon
<1> HIDE DEF q, r
<1>3. q <= b
  <2>1. SUFFICES ASSUME b < q PROVE FALSE
    BY <1>2, Constants DEF Blocks
  <2>2. b + 1 \in Int /\ q \in Int /\ b + 1 <= q /\ j \in Nat /\ j < DIRENTS /\ r \in Nat /\ b \in Int
    BY <1>2, <2>1, Constants DEF Blocks, Slots
  <2>3. (b + 1) * DIRENTS <= q * DIRENTS
    <3>1. CASE b + 1 = q
      BY <3>1, <2>2, Constants
    <3>2. CASE b + 1 < q
      BY <3>2, <2>2, LessTimes
    <3>3. QED BY <3>1, <3>2, <2>2
  <2>4. (b + 1) * DIRENTS = b * DIRENTS + DIRENTS
    BY <2>2, Constants
  <2>5. b * DIRENTS \in Int /\ q * DIRENTS \in Int
    BY <2>2, Constants
  <2>6. QED BY <1>1, <1>2, <2>2, <2>3, <2>4, <2>5, Constants
<1>4. ScanAddr(ino)[q * DIRENTS + r] = ino.block_loc[q] + r
  BY <1>2, <1>3, ScanAt
<1>5. QED BY <1>2, <1>3, <1>4

\* A search that finds a name in a block of the directory ends there or in a block
\* before, at an entry.
LEMMA ScanFinds ==
  ASSUME NEW d, NEW p, InPlace(d, p), IsDirAt(d, p), NEW nm, NEW b \in Blocks, NEW j \in Slots,
         Blk(d, p, b) # None, d[Blk(d, p, b) + j].name = nm
  PROVE  \E q \in Blocks, r \in Slots :
           /\ q * DIRENTS + r <= b * DIRENTS + j
           /\ Blk(d, p, q) # None /\ IsEntry(d, Blk(d, p, q) + r) /\ d[Blk(d, p, q) + r].name = nm
           /\ Find(d, ScanAddr(d[Loc(d, p)]), nm) = d[Blk(d, p, q) + r].inum
<1> DEFINE ino  == d[Loc(d, p)]
           addr == ScanAddr(ino)
           M    == Matches(d, addr, nm)
           m    == b * DIRENTS + j
<1>1. /\ \A x, y \in Blocks : y < x /\ Blk(d, p, x) # None => Blk(d, p, y) # None
      /\ \A x \in Blocks : Blk(d, p, x) # None => \A y \in Slots : IsEntry(d, Blk(d, p, x) + y)
  BY DEF InPlace, Gapless
<1>2. \A x \in Blocks : ino.block_loc[x] = Blk(d, p, x)
  BY DEF Blk
<1>3. m \in DOMAIN addr /\ addr[m] = Blk(d, p, b) + j
  BY <1>2, ScanAt
<1>4. \A x \in Blocks : x <= b => ino.block_loc[x] # None
  <2>1. b \in Int /\ \A x \in Blocks : x \in Int
    BY Constants DEF Blocks
  <2>2. QED BY <2>1, <1>1, <1>2
<1> HIDE DEF ino, m
<1>5. m \in M
  <2>1. IsEntry(d, addr[m]) /\ d[addr[m]].name = nm
    BY <1>1, <1>3
  <2>2. QED BY <2>1, <1>3 DEF Matches, EntryAt, IsEntry
<1>6. M \subseteq Nat
  BY DEF Matches, ScanAddr
<1>7. Min(M) \in M /\ \A x \in M : Min(M) <= x
  <2> HIDE DEF M
  <2>1. QED BY <1>5, <1>6, Least
<1> DEFINE n == Min(M)
<1>8. n \in DOMAIN addr /\ EntryAt(d, addr[n]).name = nm /\ n <= m
  <2>1. n \in DOMAIN addr /\ EntryAt(d, addr[n]).name = nm
    BY <1>7 DEF Matches
  <2>2. n <= m
    BY <1>5, <1>7
  <2>3. QED BY <2>1, <2>2
<1>9. Find(d, addr, nm) = EntryAt(d, addr[n]).inum
  BY <1>5 DEF Find
<1> HIDE DEF n, addr
<1>10. PICK q \in Blocks, r \in Slots :
         q <= b /\ n = q * DIRENTS + r /\ addr[n] = ino.block_loc[q] + r
  BY <1>4, <1>8, ScanBefore DEF m, addr
<1>11. Blk(d, p, q) # None /\ addr[n] = Blk(d, p, q) + r
  BY <1>2, <1>4, <1>10
<1>12. IsEntry(d, addr[n])
  BY <1>1, <1>11
<1>13. EntryAt(d, addr[n]) = d[addr[n]]
  BY <1>12 DEF EntryAt
<1>14. Find(d, addr, nm) = d[Blk(d, p, q) + r].inum /\ d[Blk(d, p, q) + r].name = nm
  BY <1>8, <1>9, <1>11, <1>13
<1>15. q * DIRENTS + r <= b * DIRENTS + j
  BY <1>8, <1>10 DEF m
<1>16. QED BY <1>11, <1>12, <1>14, <1>15 DEF addr, ino

\* A name that LOOKUP does not find is in no block of the directory: of the cells
\* it searches the first with the name has a number, unless none is left.
LEMMA NotThere ==
  ASSUME NEW d, Sound(d, Live(d)), NoNone(d), NEW p \in Live(d), IsDirAt(d, p),
         NEW nm, ~Exists(d, p, nm), NEW l
  PROVE  ~Has(d, p, nm, l)
<1> SUFFICES ASSUME Has(d, p, nm, l) PROVE FALSE
  OBVIOUS
<1>1. InPlace(d, p) /\ Shaped(d)
  BY DEF Sound
<1>2. PICK b \in Blocks, j \in Slots :
        Blk(d, p, b) # None /\ d[Blk(d, p, b) + j].name = nm
  BY DEF Has, Holds
<1>3. nm \notin {".", "..", Free}
  BY DEF Has
<1>4. PICK q \in Blocks, r \in Slots :
        /\ q * DIRENTS + r <= b * DIRENTS + j
        /\ Blk(d, p, q) # None /\ IsEntry(d, Blk(d, p, q) + r) /\ d[Blk(d, p, q) + r].name = nm
        /\ Find(d, ScanAddr(d[Loc(d, p)]), nm) = d[Blk(d, p, q) + r].inum
  BY <1>1, <1>2, ScanFinds
<1> DEFINE a == Blk(d, p, q) + r
<1>10. IsName(d, a)
  BY <1>3, <1>4 DEF IsName
<1>11. server_lookup(d, p, nm) = d[a].inum
  <2>1. Inode(d, p) = d[Loc(d, p)] /\ IsInode(d, p)
    BY <1>1, LocIs
  <2>2. IsDir(d, p)
    BY <2>1 DEF IsDir, IsDirAt
  <2>3. QED BY <1>4, <2>1, <2>2 DEF server_lookup
<1> HIDE DEF a
<1>12. d[a].inum # None /\ a \in DOMAIN d
  BY <1>10 DEF NoNone, IsName, IsEntry
<1>13. d[a].inum \in Live(d)
  BY <1>10, <1>12 DEF Live
<1>14. d[a].inum \in Nat
  BY <1>13, Facts, Constants DEF Inums
<1>15. QED BY <1>11, <1>14 DEF Exists

\* An inode in place of which no name is on the image has none.
LEMMA NotNamed ==
  ASSUME NEW d, NEW i, i \notin Live(d), NEW q, NEW on
  PROVE  ~Has(d, q, on, i)
BY DEF Has, Holds, IsName, IsEntry, Live

\* A new number is one for a name that LOOKUP does not find.
LEMMA NewIsNewcomer ==
  ASSUME NEW d, Sound(d, Live(d)), NoNone(d), NEW p \in Live(d), IsDirAt(d, p),
         NEW nm, ~Exists(d, p, nm), NEW i \in Inums, i \notin Live(d),
         NEW e, NoGain(d, e, Live(d)), Bare(e, i)
  PROVE  Newcomer(e, With(Live(d), i), p, nm, i)
<1>1. i # None
  BY DEF Inums, None
<1>2. \A l : ~Has(e, p, nm, l)
  BY NotThere DEF NoGain, NoNew
<1>3. \A q \in Live(d) : \A on : ~Has(e, q, on, i)
  BY NotNamed DEF NoGain, NoNew
<1>4. \A on : ~Has(e, i, on, i)
  BY DEF Bare
<1>5. QED BY <1>1, <1>2, <1>3, <1>4 DEF Newcomer, With

\* The writes of CREAT: the directory has the name then, or LOOKUP found it and
\* nothing is written.
LEMMA CreateLeads ==
  ASSUME NEW d, NEW U, Well(d, U), NEW p \in Live(d), None \in U \/ p \notin U,
         NEW type \in {MFS_DIRECTORY, MFS_REGULAR_FILE}, NEW nm \in Names
  PROVE  \E f : /\ Leads(d, server_create(d, p, type, nm).writes, f, {}, U)
                /\ server_create(d, p, type, nm).ret = 0 =>
                     (Exists(d, p, nm) /\ f = d) \/ None \in U \/ Stores(f, p, nm)
<1> DEFINE K    == Live(d)
           n    == create_inode_imap(d, p, type)
           ino  == d[Loc(d, p)]
           b    == ino.size \div DIRENTS
           j    == ino.size % DIRENTS
           full == j = 0
           loc  == IF full THEN n.cr.end ELSE ino.block_loc[b]
           cr   == CRCell(n.cr.imap, n.cr.end + DIRENTS)
           s    == ino.size + 1
           ino2 == [ino EXCEPT !.size = s, !.block_loc[b] = loc]
           w1   == IF full THEN << <<loc, FreeBlock>>, <<0, One(cr)>> >> ELSE <<>>
           w2   == << <<Loc(d, p), One(ino2)>>, <<loc + j, One(EntCell(nm, n.inum))>> >>
<1>0. Sound(d, K) /\ Fine(d, K, U)
  BY DEF Well
<1>1. InodeLoc(d)[p] = Loc(d, p) /\ Inode(d, p) = ino /\ IsInode(d, p) /\ p \in Inums
  <2>1. InPlace(d, p) /\ Shaped(d)
    BY <1>0 DEF Sound
  <2>2. QED BY <2>1, LocIs DEF InPlace
<1>2. CASE Exists(d, p, nm) \/ ~IsDir(d, p) \/ ino.size >= BLOCKS * DIRENTS
  <2>1. /\ server_create(d, p, type, nm).writes = <<>>
        /\ server_create(d, p, type, nm).ret = 0 => Exists(d, p, nm)
    BY <1>1, <1>2 DEF server_create, Reply, None
  <2>2. Leads(d, <<>>, d, {}, U)
    BY LeadsNone
  <2>3. QED BY <2>1, <2>2
<1>3. CASE ~(Exists(d, p, nm) \/ ~IsDir(d, p) \/ ino.size >= BLOCKS * DIRENTS)
  <2>1. server_create(d, p, type, nm).writes = n.writes \o (w1 \o w2)
    BY <1>1, <1>3 DEF server_create, NextSlot, SizeAfter, NameLast
  <2>2. /\ ino \in InodeCells /\ IsDirAt(d, p) /\ ino.size \in Nat /\ ino.size > 0
        /\ ino.size < BLOCKS * DIRENTS /\ Loc(d, p) \in Nat
        /\ \A x \in Blocks : x * DIRENTS < ino.size => Blk(d, p, x) # None
    <3>1. ino \in InodeCells /\ Loc(d, p) \in Nat
      BY <1>0, Facts
    <3>2. IsDirAt(d, p)
      BY <1>1, <1>3 DEF IsDir, IsDirAt
    <3>3. InPlace(d, p)
      BY <1>0 DEF Sound
    <3>4. /\ ino.size > 0
          /\ \A x \in Blocks : x * DIRENTS < ino.size => Blk(d, p, x) # None
      BY <3>2, <3>3 DEF InPlace
    <3>5. ino.size \in Nat
      BY <3>1 DEF InodeCells
    <3>6. BLOCKS * DIRENTS \in Nat
      BY Constants
    <3>7. QED BY <3>1, <3>2, <3>4, <3>5, <3>6, <1>3
  <2>3. /\ b \in Blocks /\ j \in Slots /\ (full => b # 0) /\ (~full => Blk(d, p, b) # None)
        /\ \A x \in Blocks : x * DIRENTS < s => x = b \/ Blk(d, p, x) # None
        /\ s \in Nat /\ s > 0 /\ b * DIRENTS + j < s
        /\ ino.size <= b * DIRENTS + j /\ (full => ino.size <= b * DIRENTS)
    <3> DEFINE z == ino.size
    <3>1. z \in Nat /\ z < BLOCKS * DIRENTS /\ z > 0
      BY <2>2
    <3>2. /\ z \div DIRENTS \in Blocks /\ z % DIRENTS \in Slots
          /\ (z \div DIRENTS) * DIRENTS + (z % DIRENTS) = z
          /\ (z % DIRENTS) = 0 /\ z > 0 => z \div DIRENTS # 0
          /\ (z % DIRENTS) # 0 => (z \div DIRENTS) * DIRENTS < z
          /\ \A x \in Blocks : x * DIRENTS < z + 1 => x = z \div DIRENTS \/ x * DIRENTS < z
      <4> HIDE DEF z
      <4>1. QED BY <3>1, NextBlock, Zenon
    <3>4. z % DIRENTS \in Int /\ (z \div DIRENTS) * DIRENTS \in Int
      BY <3>2, Constants DEF Blocks, Slots
    <3>3. QED BY <3>1, <3>2, <3>4, <2>2
  <2>4. \A x \in Blocks : Blk(d, p, x) = ino.block_loc[x] /\ Blk(d, p, x) \in Int
    BY <2>2 DEF Blk, InodeCells
  <2>5. \E e, L : /\ Leads(d, n.writes, e, {}, U) /\ Sound(e, L) /\ Fine(e, L, U) /\ Same(d, e, K) /\ K \subseteq L
                  /\ n.inum \in L \cup {None} /\ Newcomer(e, L, p, nm, n.inum) /\ Awaits(e, p, n.inum, U)
                  /\ CR(e).imap = n.cr.imap /\ CR(e).end = n.cr.end
    <3>1. \/ n.inum = None /\ n.writes = <<>> /\ n.cr = CR(d) /\ Full(d)
          \/ /\ n.inum \in Inums /\ n.inum \notin K /\ NoNone(d)
             /\ \E e : /\ Leads(d, n.writes, e, {}, U) /\ Sound(e, With(K, n.inum))
                       /\ Fine(e, With(K, n.inum), U) /\ Same(d, e, K)
                       /\ NoGain(d, e, K) /\ TreeStays(d, e, U) /\ Newborn(e, n.inum, p)
                       /\ CR(e).imap = n.cr.imap /\ CR(e).end = n.cr.end
      <4>1. Made(d, p, type, n) /\ Sound(d, K) /\ Fine(d, K, U)
        BY <1>0 DEF n, Made
      <4> HIDE DEF n, K
      <4>2. QED BY <4>1, NewInode
    <3> HIDE DEF n
    <3>2. CASE n.inum = None /\ n.writes = <<>> /\ n.cr = CR(d) /\ Full(d)
      <4>1. Leads(d, n.writes, d, {}, U)
        BY <3>2, LeadsNone
      <4>2. Same(d, d, K) /\ Newcomer(d, K, p, nm, n.inum) /\ Awaits(d, p, n.inum, U)
        BY <3>2 DEF Same, Newcomer, Awaits
      <4>3. QED BY <1>0, <3>2, <4>1, <4>2
    <3>3. CASE /\ n.inum \in Inums /\ n.inum \notin K /\ NoNone(d)
               /\ \E e : /\ Leads(d, n.writes, e, {}, U) /\ Sound(e, With(K, n.inum))
                         /\ Fine(e, With(K, n.inum), U) /\ Same(d, e, K)
                         /\ NoGain(d, e, K) /\ TreeStays(d, e, U) /\ Newborn(e, n.inum, p)
                         /\ CR(e).imap = n.cr.imap /\ CR(e).end = n.cr.end
      <4>1. K \subseteq With(K, n.inum) /\ n.inum \in With(K, n.inum) \cup {None}
        BY DEF With
      <4>2. PICK e : /\ Leads(d, n.writes, e, {}, U) /\ Sound(e, With(K, n.inum))
                     /\ Fine(e, With(K, n.inum), U) /\ Same(d, e, K)
                     /\ NoGain(d, e, K) /\ TreeStays(d, e, U) /\ Newborn(e, n.inum, p)
                     /\ CR(e).imap = n.cr.imap /\ CR(e).end = n.cr.end
        BY <3>3
      <4>3. Newcomer(e, With(K, n.inum), p, nm, n.inum)
        <5>1. Bare(e, n.inum)
          BY <4>2 DEF Newborn
        <5>2. QED BY <1>0, <1>3, <2>2, <3>3, <4>2, <5>1, NewIsNewcomer
      <4>5. Awaits(e, p, n.inum, U)
        BY <3>3, <4>2 DEF Awaits, TreeStays, SameTree
      <4>4. QED BY <4>1, <4>2, <4>3, <4>5
    <3>4. QED BY <3>1, <3>2, <3>3
  <2>6. PICK e, L : /\ Leads(d, n.writes, e, {}, U) /\ Sound(e, L) /\ Fine(e, L, U) /\ Same(d, e, K) /\ K \subseteq L
                    /\ n.inum \in L \cup {None} /\ Newcomer(e, L, p, nm, n.inum) /\ Awaits(e, p, n.inum, U)
                    /\ CR(e).imap = n.cr.imap /\ CR(e).end = n.cr.end
    BY <2>5
  <2>7. \E g : /\ Leads(e, w1, g, {}, U) /\ Sound(g, L) /\ Fine(g, L, U) /\ Same(e, g, L)
               /\ Newcomer(g, L, p, nm, n.inum) /\ Awaits(g, p, n.inum, U)
               /\ loc \in Int /\ Room(g, L, p, b, loc)
    <3>1. CASE full
      <4>1. loc = CR(e).end /\ w1 = << <<CR(e).end, FreeBlock>>, <<0, One(CRCell(CR(e).imap, CR(e).end + DIRENTS))>> >>
        BY <3>1, <2>6
      <4>2. b # 0
        BY <3>1, <2>3
      <4>3. PICK g : /\ Leads(e, << <<CR(e).end, FreeBlock>>,
                                    <<0, One(CRCell(CR(e).imap, CR(e).end + DIRENTS))>> >>, g, {}, U)
                     /\ Sound(g, L) /\ Fine(g, L, U) /\ Same(e, g, L)
                     /\ NoGain(e, g, L) /\ Stays(e, g) /\ Awaits(g, p, n.inum, U)
                     /\ CR(e).end > 0 /\ Below(g, L, CR(e).end) /\ CR(e).end + DIRENTS <= CR(g).end
                     /\ \A x \in Slots : IsEntry(g, CR(e).end + x) /\ g[CR(e).end + x].name = Free
        <5> HIDE DEF n
        <5>1. QED BY <2>6, AddBlock
      <4>4. CR(e).end \in Int
        BY <2>6, Facts
      <4>8. Newcomer(g, L, p, nm, n.inum)
        <5>1. p \in L
          BY <2>6
        <5> HIDE DEF n
        <5>2. QED BY <2>6, <4>3, <5>1, NewcomerStays DEF Stays
      <4>9. g[Loc(g, p)] = ino /\ ino.size <= b * DIRENTS
        <5>1. p \in K /\ p \in L
          BY <2>6
        <5>2. QED BY <5>1, <3>1, <2>3, <2>6, <4>3 DEF Same
      <4> HIDE DEF w1, loc, b, full, n, ino
      <4>5. Room(g, L, p, b, loc) /\ loc \in Int
        BY <4>1, <4>2, <4>3, <4>4, <4>9 DEF Room
      <4>6. Leads(e, w1, g, {}, U)
        BY <4>1, <4>3
      <4>7. QED BY <4>3, <4>5, <4>6, <4>8
    <3>2. CASE ~full
      <4>1. loc = Blk(d, p, b) /\ loc # None /\ loc \in Int /\ w1 = <<>>
        BY <3>2, <2>3, <2>4
      <4>2. Blk(e, p, b) = Blk(d, p, b)
        BY <2>6 DEF Same, Blk
      <4> HIDE DEF w1, loc, b, full, n
      <4>3. Room(e, L, p, b, loc)
        BY <4>1, <4>2 DEF Room
      <4>4. Well(e, U)
        BY <2>6, WellIf
      <4>5. Leads(e, w1, e, {}, U)
        BY <4>1, <4>4, LeadsNone
      <4>6. Same(e, e, L)
        BY DEF Same
      <4>7. QED BY <4>1, <4>3, <4>5, <4>6, <2>6
    <3>3. QED BY <3>1, <3>2
  <2>8. PICK g : /\ Leads(e, w1, g, {}, U) /\ Sound(g, L) /\ Fine(g, L, U) /\ Same(e, g, L)
                 /\ Newcomer(g, L, p, nm, n.inum) /\ Awaits(g, p, n.inum, U)
                 /\ loc \in Int /\ Room(g, L, p, b, loc)
    BY <2>7
  <2>9. ino2 = Edit(ino, s, b, loc)
    BY DEF Edit
  <2>10. /\ Loc(g, p) = Loc(d, p) /\ g[Loc(d, p)] = ino /\ p \in L /\ IsDirAt(g, p)
         /\ \A x \in Blocks : Blk(g, p, x) = Blk(d, p, x)
    <3>1. p \in K /\ p \in L
      BY <2>6
    <3>2. Loc(e, p) = Loc(d, p) /\ e[Loc(d, p)] = ino
      BY <3>1, <2>6 DEF Same
    <3>3. Loc(g, p) = Loc(d, p) /\ g[Loc(d, p)] = ino
      BY <3>1, <3>2, <2>8 DEF Same
    <3>4. QED BY <3>1, <3>3, <2>2 DEF Blk, IsDirAt
  <2>11. Fits(g, p, b, j, s)
    <3>1. s >= ino.size
      BY <2>2
    <3>2. QED BY <3>1, <2>3, <2>10 DEF Fits
  <2> HIDE DEF w1, n, b, loc, j, s, ino2, ino
  <2>12. \E f : /\ Leads(g, << <<Loc(g, p), One(Edit(g[Loc(g, p)], s, b, loc))>>,
                               <<loc + j, One(EntCell(nm, n.inum))>> >>, f, {}, U)
                /\ None \in U \/ Stores(f, p, nm)
    BY <2>3, <2>6, <2>8, <2>10, <2>11, EnterName
  <2>13. PICK f : Leads(g, w2, f, {}, U) /\ (None \in U \/ Stores(f, p, nm))
    BY <2>9, <2>10, <2>12
  <2> HIDE DEF w2
  <2>14. Leads(e, w1 \o w2, f, {}, U)
    BY <2>8, <2>13, LeadsOn
  <2>15. Leads(d, n.writes \o (w1 \o w2), f, {}, U)
    BY <2>6, <2>14, LeadsOn
  <2>16. QED BY <2>1, <2>13, <2>15
<1>4. QED BY <1>2, <1>3

-----------------------------------------------------------------------------
(* UNLINK                                                                  *)

\* The blocks of an inode hold entries, as those of a directory do.
Listed(d, ino) ==
  \A b \in Blocks, j \in Slots : ino.block_loc[b] # None => IsEntry(d, ino.block_loc[b] + j)

\* An entry found in a directory is a cell of one of its blocks.
LEMMA FoundIn ==
  ASSUME NEW d, NEW ino \in InodeCells, Listed(d, ino), NEW nm, Matches(d, OwnAddr(ino), nm) # {},
         NEW at, at = OwnAddr(ino)[Min(Matches(d, OwnAddr(ino), nm))]
  PROVE  /\ IsEntry(d, at) /\ d[at].name = nm
         /\ \E b \in Blocks, j \in Slots : ino.block_loc[b] # None /\ at = ino.block_loc[b] + j
<1> DEFINE found == Matches(d, OwnAddr(ino), nm)
           m     == Min(found)
<1>1. \A x \in DOMAIN OwnAddr(ino) : x \in Nat /\ x < BLOCKS * DIRENTS
  BY Constants DEF OwnAddr
<1>2. found \subseteq DOMAIN OwnAddr(ino) /\ found \subseteq Nat /\ found # {}
  BY <1>1 DEF Matches
<1>3. m \in found
  <2> HIDE DEF found
  <2>1. QED BY <1>2, Least
<1> HIDE DEF m
<1>4. m \in DOMAIN OwnAddr(ino) /\ EntryAt(d, OwnAddr(ino)[m]).name = nm
  BY <1>3 DEF Matches
<1>5. m \div DIRENTS \in Blocks /\ m % DIRENTS \in Slots
  <2>1. m \in Nat /\ m < BLOCKS * DIRENTS
    BY <1>1, <1>4
  <2>2. QED BY <2>1, NextBlock
<1>6. ino.block_loc[m \div DIRENTS] # None /\ OwnAddr(ino)[m] = ino.block_loc[m \div DIRENTS] + (m % DIRENTS)
  BY <1>4 DEF OwnAddr
<1>8. IsEntry(d, OwnAddr(ino)[m])
  BY <1>5, <1>6 DEF Listed
<1>7. QED BY <1>4, <1>5, <1>6, <1>8 DEF m, EntryAt

\* Inode k has no name in it.
Hollow(d, k) ==
  IsDirAt(d, k) => \A b \in Blocks, j \in Slots :
    Blk(d, k, b) # None => d[Blk(d, k, b) + j].name \in {".", "..", Free}

\* Inode k has a name, and if it is a directory its size says that it is empty.
Empties(d, k) ==
  k \in Live(d) /\ (IsDirAt(d, k) => Covered(d, k) /\ d[Loc(d, k)].size <= 2)

\* It is then.
LEMMA EmptyHollow ==
  ASSUME NEW d, NEW K, Sound(d, K), NEW k \in K, Dots(d, K), Empties(d, k)
  PROVE  Hollow(d, k)
<1> SUFFICES ASSUME IsDirAt(d, k), NEW b \in Blocks, NEW j \in Slots, Blk(d, k, b) # None,
                    d[Blk(d, k, b) + j].name # Free
             PROVE  d[Blk(d, k, b) + j].name \in {".", ".."}
  BY DEF Hollow
<1>1. b * DIRENTS + j < d[Loc(d, k)].size /\ d[Loc(d, k)].size <= 2
  BY DEF Empties, Covered
<1>2. d[Loc(d, k)].size \in Nat /\ Blk(d, k, b) \in Int
  BY Facts DEF InodeCells
<1>3. b = 0 /\ j \in {0, 1}
  <2>1. b \in Nat /\ j \in Nat /\ DIRENTS \in Nat /\ DIRENTS >= 4
    BY Constants DEF Blocks, Slots
  <2>2. b >= 1 => b * DIRENTS >= DIRENTS
    BY <2>1
  <2>3. b * DIRENTS \in Nat
    BY <2>1
  <2>4. b * DIRENTS + j < 2
    BY <1>1, <1>2, <2>1, <2>3
  <2>5. b = 0
    BY <2>1, <2>2, <2>3, <2>4
  <2>6. QED BY <2>1, <2>4, <2>5
<1>4. DotsAt(d, k) /\ Blk(d, k, 0) + 0 = Blk(d, k, 0)
  BY <1>2, <1>3 DEF Dots
<1>5. QED BY <1>3, <1>4 DEF DotsAt

\* Write w, one of del_inode_imap for inode k, leads from d to e; k stays empty
\* and the other directories as they are.
Deletes(d, K, U, k, w, e) ==
  /\ Leads(d, <<w>>, e, Only(k, 0), U) /\ Sound(e, K) /\ Fine(e, K, U) /\ Same(d, e, K)
  /\ DirsStay(d, e, Others(K, k)) /\ TreeStays(d, e, U) /\ (None \in U \/ Hollow(e, k))

\* The first write of UNLINK: del_inode_imap of inode k, in k's first block, or of
\* the checkpoint region as it is.
LEMMA DelLeads ==
  ASSUME NEW d, NEW K, Sound(d, K), NEW U, Fine(d, K, U), NEW k \in K, k \in U,
         None \in U \/ Empties(d, k), NEW w \in del_inode_imap(d, Loc(d, k))
  PROVE  \E e : Deletes(d, K, U, k, w, e)
<1> DEFINE at == Loc(d, k)
<1>1. /\ 0 \in Blocks /\ at \in Nat /\ DIRENTS \in Nat /\ DIRENTS >= 4
      /\ Blk(d, k, 0) = at + 1 /\ at + 1 # None /\ at > 0
  <2>1. InPlace(d, k)
    BY DEF Sound
  <2>2. QED BY <2>1, Facts, Constants DEF InPlace, None
<1>5. None \in U \/ (Hollow(d, k) /\ Placed(d) /\ Dots(d, K))
  BY EmptyHollow DEF Fine, Proper
<1>2. CASE w = Overwrite(d, at) /\ IsDirAt(d, k)
  <2> DEFINE cells == [j \in 0..1 |-> d[at + 1 + j]]
             x     == at + 3
             e     == Put(d, x, cells)
  <2>1. w = <<x, cells>>
    BY <1>2 DEF Overwrite, IsDirAt
  <2>2. \A j \in Slots : IsEntry(d, at + 1 + j)
    <3>1. InPlace(d, k)
      BY DEF Sound
    <3>2. \A j \in Slots : IsEntry(d, Blk(d, k, 0) + j)
      BY <3>1, <1>1, <1>2 DEF InPlace
    <3>3. QED BY <3>2, <1>1
  <2>3. \A a \in DOMAIN d : IsEntry(d, a) => d[a].name \in {".", "..", Free} \/ d[a].inum \in K \cup {None}
    <3>1. Live(d) \subseteq K
      BY DEF Sound
    <3>2. QED BY <3>1 DEF Live, IsName
  <2>4. PICK n \in Nat : n = 2
    OBVIOUS
  <2>5. Run(cells, n) /\ \A j \in 0..(n - 1) : cells[j] = d[at + 1 + j] /\ IsEntry(d, at + 1 + j)
    BY <2>2, <2>4, <1>1 DEF Run, Slots
  <2> HIDE DEF cells
  <2>6. \A j \in 0..(n - 1) :
          \/ cells[j].kind = "data" /\ ~IsDirAt(d, k)
          \/ cells[j].kind = "ent" /\ (cells[j].name \in {".", "..", Free} \/ cells[j].inum \in K \cup {None})
    BY <2>3, <2>5 DEF IsEntry
  <2>7. x \in Int /\ Blk(d, k, 0) <= x /\ x + n <= Blk(d, k, 0) + DIRENTS /\ Blk(d, k, 0) # None
    BY <2>4, <1>1
  <2>8. e = Put(d, x, cells)
    OBVIOUS
  <2> HIDE DEF e, x, at
  <2>9. /\ Sound(e, K) /\ Same(d, e, K) /\ Keeps(d, e, K, Only(k, 0)) /\ CR(e) = CR(d)
        /\ DirsStay(d, e, Others(K, k))
        /\ \A j \in 0..(n - 1) : e[x + j] = cells[j]
        /\ \A a \in DOMAIN d : a \notin x..(x + n - 1) => e[a] = d[a]
        /\ Full(d) => Full(e)
        /\ (\A j \in 0..(n - 1) : Numbers(cells[j])) => NoneStay(d, e)
        /\ (\A j \in 0..(n - 1) : Nameless(cells[j])) => NamesFrom(d, e)
        /\ JunkStays(d, e) /\ Keeps(d, e, K, {})
    BY <2>5, <2>6, <2>7, <2>8, <1>1, <1>2, WriteBlock
  <2>13. NoNew(d, e, k)
    <3> SUFFICES ASSUME NEW on, NEW l, Has(e, k, on, l) PROVE Has(d, k, on, l)
      BY DEF NoNew
    <3>1. PICK c \in Blocks, y \in Slots :
            /\ Blk(e, k, c) # None /\ IsEntry(e, Blk(e, k, c) + y)
            /\ e[Blk(e, k, c) + y].name = on /\ e[Blk(e, k, c) + y].inum = l
      BY DEF Has, Holds
    <3> DEFINE a == Blk(d, k, c) + y
    <3>2. Blk(e, k, c) = Blk(d, k, c)
      BY <2>9 DEF Same, Blk
    <3>3. a \in DOMAIN d /\ a \in Nat
      BY <1>2, <3>1, <3>2, EntryCells
    <3>4. e[a].name = on /\ e[a].inum = l /\ e[a].kind = "ent"
      BY <3>1, <3>2 DEF IsEntry
    <3>5. ASSUME a \notin x..(x + n - 1) PROVE Holds(d, k, on, l)
      <4>1. e[a] = d[a]
        BY <3>3, <3>5, <2>9
      <4>2. IsEntry(d, a) /\ d[a].name = on /\ d[a].inum = l
        BY <3>3, <3>4, <4>1 DEF IsEntry
      <4>3. QED BY <4>2, <3>1, <3>2 DEF Holds
    <3>6. ASSUME a \in x..(x + n - 1) PROVE Holds(d, k, on, l)
      <4> DEFINE i == a - x
      <4>1. i \in 0..(n - 1) /\ x + i = a
        <5> HIDE DEF a
        <5>1. QED BY <3>3, <3>6, <2>4, <2>7
      <4>2. i \in Slots
        BY <4>1, <2>4, <1>1 DEF Slots
      <4> HIDE DEF i, a
      <4>3. e[a] = d[at + 1 + i] /\ IsEntry(d, at + 1 + i)
        BY <4>1, <2>5, <2>9
      <4>4. Blk(d, k, 0) + i = at + 1 + i
        BY <1>1
      <4>5. QED BY <3>4, <4>2, <4>3, <4>4, <1>1 DEF Holds
    <3>7. Holds(d, k, on, l)
      BY <3>5, <3>6
    <3>8. QED BY <3>7, <1>2 DEF Has
  <2>14. Stays(d, e)
    <3>1. ASSUME NoNone(d), NEW j \in 0..(n - 1) PROVE Numbers(cells[j])
      <4>1. cells[j] = d[at + 1 + j] /\ IsEntry(d, at + 1 + j)
        BY <2>5
      <4>2. QED BY <4>1, <3>1 DEF Numbers, NoNone, IsName, IsEntry
    <3>2. QED BY <3>1, <2>9 DEF Stays, NoneStay
  <2>16. None \notin U => \A j \in 0..(n - 1) : Nameless(cells[j])
    <3> SUFFICES ASSUME None \notin U, NEW j \in 0..(n - 1) PROVE Nameless(cells[j])
      OBVIOUS
    <3>1. j \in Slots /\ Blk(d, k, 0) + j = at + 1 + j /\ cells[j] = d[at + 1 + j]
      BY <2>4, <2>5, <1>1 DEF Slots
    <3>2. d[at + 1 + j].name \in {".", "..", Free}
      BY <3>1, <1>1, <1>2, <1>5 DEF Hollow
    <3>3. QED BY <3>1, <3>2 DEF Nameless
  <2>17. SameType(d, e, K) /\ \A q \in K, c \in Blocks : Blk(e, q, c) = Blk(d, q, c)
    <3>1. \A q \in K, c \in Blocks : Blk(e, q, c) = Blk(d, q, c)
      BY <2>9 DEF Same, Blk
    <3>2. SameType(d, e, K)
      BY <2>9 DEF Same, SameType, IsDirAt
    <3>3. QED BY <3>1, <3>2
  <2>18. None \in U \/ Hollow(e, k)
    <3> SUFFICES ASSUME None \notin U, NEW c \in Blocks, NEW y \in Slots, Blk(e, k, c) # None
                 PROVE  e[Blk(e, k, c) + y].name \in {".", "..", Free}
      BY DEF Hollow
    <3> DEFINE a == Blk(d, k, c) + y
    <3>1. Blk(e, k, c) = Blk(d, k, c) /\ a \in DOMAIN d /\ a \in Nat /\ d[a].name \in {".", "..", Free}
      BY <1>2, <1>5, <2>17, EntryCells DEF Hollow
    <3> HIDE DEF a
    <3>2. CASE a \notin x..(x + n - 1)
      <4>1. e[a] = d[a]
        BY <3>1, <3>2, <2>9
      <4>2. QED BY <3>1, <4>1 DEF a
    <3>3. CASE a \in x..(x + n - 1)
      <4> DEFINE i == a - x
      <4>1. i \in 0..(n - 1) /\ x + i = a
        BY <3>1, <3>3, <2>4, <2>7
      <4> HIDE DEF i
      <4>2. e[a] = cells[i] /\ Nameless(cells[i])
        BY <4>1, <2>9, <2>16
      <4>3. e[a].name \in {".", "..", Free}
        <5>1. cells[i] = d[at + 1 + i] /\ i \in Slots /\ Blk(d, k, 0) + i = at + 1 + i
          BY <4>1, <2>4, <2>5, <1>1 DEF Slots
        <5>2. d[Blk(d, k, 0) + i].name \in {".", "..", Free}
          BY <5>1, <1>1, <1>2, <1>5 DEF Hollow
        <5>3. QED BY <4>2, <5>1, <5>2
      <4>4. QED BY <3>1, <4>3 DEF a
    <3>4. QED BY <3>2, <3>3
  <2>19. Proper(e, K, U) /\ TreeStays(d, e, U)
    <3>1. CASE None \in U
      BY <3>1 DEF Proper, TreeStays
    <3>2. CASE None \notin U
      <4>1. DirsKept(d, e, K)
        <5> SUFFICES ASSUME NEW q \in K, IsDirAt(d, q), NEW c \in Blocks, NEW y \in Slots,
                            Blk(d, q, c) # None, d[Blk(d, q, c) + y].name # Free
                     PROVE  e[Blk(d, q, c) + y] = d[Blk(d, q, c) + y]
          BY <2>17 DEF DirsKept
        <5>1. CASE q # k
          BY <5>1, <2>9 DEF DirsStay, Others
        <5>2. CASE q = k
          <6>1. Covered(d, k) /\ d[Loc(d, k)].size <= 2
            BY <3>2, <1>2 DEF Empties
          <6>2. c * DIRENTS + y < d[Loc(d, k)].size /\ d[Loc(d, k)].size \in Nat
            BY <5>2, <6>1, Facts DEF Covered, InodeCells
          <6>3. c \in Nat /\ y \in Nat /\ DIRENTS \in Nat /\ DIRENTS >= 4 /\ c * DIRENTS \in Nat
            BY Constants DEF Blocks, Slots
          <6>4. c >= 1 => c * DIRENTS >= DIRENTS
            BY <6>3
          <6>5. c = 0 /\ y < 2
            BY <6>1, <6>2, <6>3, <6>4
          <6>6. x = Blk(d, k, 0) + 2
            BY <1>1 DEF x, at
          <6>7. Blk(d, k, 0) + y \notin x..(x + n - 1) /\ Blk(d, k, 0) + y \in DOMAIN d
            BY <5>2, <6>3, <6>5, <6>6, <1>1, <1>2, EntryCells
          <6>8. QED BY <5>2, <6>5, <6>7, <2>9
        <5>3. QED BY <5>1, <5>2
      <4>2. NoGain(d, e, K)
        <5>1. Same(d, e, Others(K, k)) /\ Others(K, k) \subseteq K
          BY <2>9, OthersSame DEF Others
        <5>2. NoGain(d, e, Others(K, k))
          BY <5>1, <2>9, SameNames
        <5>3. QED BY <5>2, <2>13 DEF NoGain, Others
      <4>3. NamesFrom(d, e)
        BY <3>2, <2>9, <2>16
      <4>4. QED BY <4>1, <4>2, <4>3, <2>9, <2>17, ProperStays DEF Fine
    <3>3. QED BY <3>1, <3>2
  <2>12. Fine(e, K, U)
    <3>1. Same(d, e, Others(K, k))
      BY <2>9, OthersSame
    <3>2. QED BY <3>1, <2>9, <2>13, <2>14, <2>19, FineBut
  <2>20. Shown(d, e, U)
    BY <2>9, <2>17, <2>19, ShownStill
  <2>10. Leads(d, << <<x, cells>> >>, e, Only(k, 0), U)
    BY <2>8, <2>9, <2>12, <2>20, LeadsOne
  <2>11. Deletes(d, K, U, k, w, e)
    BY <2>1, <2>9, <2>10, <2>12, <2>18, <2>19 DEF at, Deletes
  <2>15. QED BY <2>11
<1>3. CASE w = Overwrite(d, at) /\ ~IsDirAt(d, k)
  <2> DEFINE x == at + 1
             e == Put(d, x, DataBlock(Junk))
  <2>1. w = <<x, DataBlock(Junk)>>
    BY <1>3 DEF Overwrite, IsDirAt
  <2>2. e = Put(d, Blk(d, k, 0), DataBlock(Junk)) /\ Blk(d, k, 0) # None
    BY <1>1
  <2> HIDE DEF e
  <2>3. /\ Sound(e, K) /\ Same(d, e, K) /\ Keeps(d, e, K, Only(k, 0)) /\ CR(e) = CR(d)
        /\ DirsStay(d, e, K) /\ Stays(d, e) /\ Calm(d, e) /\ BlockAt(e, Blk(d, k, 0)) = Junk
    BY <2>2, <1>1, <1>3, WriteData
  <2>6. Fine(e, K, U) /\ TreeStays(d, e, U)
    BY <2>3, FineSame
  <2>8. \A l \in K, c \in Blocks : Blk(e, l, c) = Blk(d, l, c)
    BY <2>3, SameKept
  <2>9. Shown(d, e, U)
    <3>1. Blk(e, k, 0) # None /\ BlockAt(e, Blk(e, k, 0)) = Junk
      BY <2>2, <2>3, <2>8, <1>1
    <3>2. None \in U \/ k \in Live(d)
      BY DEF Empties
    <3>3. QED BY <3>1, <3>2, <2>3, <2>6, <2>8, <1>1, <1>3, ShownChange
  <2>4. Leads(d, << <<x, DataBlock(Junk)>> >>, e, Only(k, 0), U)
    BY <2>3, <2>6, <2>9, LeadsOne DEF e
  <2>10. DirsStay(d, e, Others(K, k)) /\ Hollow(e, k)
    <3>1. IsDirAt(e, k) = IsDirAt(d, k)
      BY <2>3 DEF Same, IsDirAt
    <3>2. QED BY <3>1, <2>3, <1>3, OthersSame DEF Hollow
  <2>5. Deletes(d, K, U, k, w, e)
    BY <2>1, <2>3, <2>4, <2>6, <2>10 DEF Deletes
  <2>7. QED BY <2>5
<1>6. CASE w = Rewrite(d)
  <2> DEFINE map == CR(d).imap
             end == CR(d).end
             e   == Put(d, 0, One(CRCell(map, end)))
  <2>1. /\ map \in [Pieces -> Int] /\ end \in Nat /\ end >= CR(d).end
        /\ \A m, n \in Pieces : m # n /\ map[m] # None => map[m] # map[n]
    BY DEF Sound, Shaped
  <2>2. w = <<0, One(CRCell(map, end))>> /\ e = Put(d, 0, One(CRCell(map, end)))
    BY <1>6 DEF Rewrite
  <2>3. map = CR(d).imap /\ end = CR(d).end
    OBVIOUS
  <2> HIDE DEF e, map, end
  <2>4. /\ Sound(e, K) /\ Same(d, e, K) /\ Keeps(d, e, K, {}) /\ DirsStay(d, e, K)
        /\ Stays(d, e) /\ Calm(d, e)
    <3>1. \A m \in Pieces : map[m] = CR(d).imap[m]
      BY <2>3
    <3>2. /\ Sound(e, K) /\ Same(d, e, K) /\ Keeps(d, e, K, {}) /\ DirsStay(d, e, K)
          /\ (map = CR(d).imap => Stays(d, e)) /\ Calm(d, e)
      BY <2>1, <2>2, <3>1, WriteCR
    <3>3. QED BY <3>2, <2>3
  <2>5. Fine(e, K, U) /\ TreeStays(d, e, U)
    BY <2>4, FineSame
  <2>6. Shown(d, e, U)
    BY <2>4, <2>5, ShownSame
  <2>7. Leads(d, <<w>>, e, Only(k, 0), U)
    <3>1. Leads(d, <<w>>, e, {}, U)
      BY <2>2, <2>4, <2>5, <2>6, LeadsOne
    <3>2. QED BY <3>1, LeadsLess
  <2>8. \A c \in Blocks : Blk(e, k, c) = Blk(d, k, c)
    BY <2>4, SameKept
  <2>9. DirsStay(d, e, Others(K, k))
    BY <2>4 DEF DirsStay, Others
  <2>10. None \in U \/ Hollow(e, k)
    <3>1. IsDirAt(e, k) = IsDirAt(d, k)
      BY <2>4 DEF Same, IsDirAt
    <3>2. QED BY <3>1, <2>4, <2>8, <1>5 DEF Hollow, DirsStay
  <2>11. QED BY <2>4, <2>5, <2>7, <2>9, <2>10 DEF Deletes
<1>4. w = Overwrite(d, at) \/ w = Rewrite(d)
  BY DEF del_inode_imap
<1>7. QED BY <1>2, <1>3, <1>4, <1>6

\* Every name nm in the blocks of directory p has a number.
Numbered(d, p, nm) ==
  \A b \in Blocks, j \in Slots :
    Blk(d, p, b) # None /\ IsEntry(d, Blk(d, p, b) + j) /\ d[Blk(d, p, b) + j].name = nm =>
      d[Blk(d, p, b) + j].inum # None

\* Directory p does not have the name nm.
Lacks(d, p, nm) == p \in Live(d) /\ IsDirAt(d, p) /\ \A l : ~Holds(d, p, nm, l)

\* Slot j of block b of directory p is the name nm of inode k, which is empty.
Leaving(d, p, b, j, nm, k) ==
  LET at == Blk(d, p, b) + j
  IN  /\ p \in Live(d) /\ IsEntry(d, at) /\ d[at].name = nm /\ d[at].inum = k
      /\ nm \notin {".", "..", Free} /\ Hollow(d, k) /\ Numbered(d, p, nm)

\* The cell at address at is that of an unused entry then.
Cleared(d, e, at) ==
  /\ e[at] = EntCell(Free, None) /\ DOMAIN e = DOMAIN d
  /\ \A a \in DOMAIN d : a # at => e[a] = d[a]

\* The tree then has neither the name nor the inode.
LEMMA EntryGone ==
  ASSUME NEW d, NEW e, NEW K, Sound(d, K), Sound(e, K), Same(d, e, K), Keeps(d, e, K, {}), Unique(d, K),
         NEW p \in K, IsDirAt(d, p), NEW b \in Blocks, NEW j \in Slots, Blk(d, p, b) # None,
         NEW nm, NEW k, Leaving(d, p, b, j, nm, k), Cleared(d, e, Blk(d, p, b) + j),
         NEW U, None \in U \/ (Placed(d) /\ Dots(d, K))
  PROVE  /\ Proper(e, K, U) /\ Shown(d, e, U)
         /\ None \in U \/ Lacks(e, p, nm)
<1> DEFINE at == Blk(d, p, b) + j
<1>1. SUFFICES ASSUME None \notin U, Placed(d), Dots(d, K)
               PROVE  /\ Placed(e) /\ Dots(e, K) /\ Lacks(e, p, nm)
                      /\ ~NoNone(e) \/ (NoNone(d) /\ Shows(d, e))
  BY DEF Proper, Shown
<1>2. /\ p \in Live(d) /\ at \in DOMAIN d /\ IsEntry(d, at) /\ d[at].name = nm /\ d[at].inum = k
      /\ nm \notin {".", "..", Free} /\ Hollow(d, k) /\ Numbered(d, p, nm)
      /\ e[at] = EntCell(Free, None) /\ DOMAIN e = DOMAIN d
      /\ \A a \in DOMAIN d : a # at => e[a] = d[a]
  BY DEF Leaving, Cleared, IsEntry
<1>3. /\ Live(d) \subseteq K /\ 0 \in Live(d) /\ 0 \in Blocks /\ 0 \in Slots /\ 1 \in Slots
      /\ k # None
  BY <1>2, Constants DEF Sound, Live, Slots, Numbered
<1>4. \A q \in K : /\ Loc(e, q) = Loc(d, q) /\ IsDirAt(e, q) = IsDirAt(d, q)
                   /\ \A x \in Blocks : Blk(e, q, x) = Blk(d, q, x)
  BY DEF Same, IsDirAt, Blk
<1>5. \A q \in K, x \in Blocks, y \in Slots :
        IsDirAt(d, q) /\ Blk(d, q, x) # None => Blk(d, q, x) + y \in DOMAIN d
  BY EntryCells
<1>6. Holds(d, p, nm, k) /\ Has(d, p, nm, k)
  BY <1>2, <1>3 DEF Has, Holds
<1>7. k \in Live(d) /\ k \in K /\ k # 0 /\ Bare(d, k) /\ k # p
  <2>1. k \in Live(d)
    BY <1>6, HasLive
  <2>2. k # 0
    BY <2>1, <1>1, <1>3, <1>6 DEF Dots
  <2>3. Bare(d, k)
    BY <1>2, NoNames DEF Hollow, Bare
  <2>4. QED BY <2>1, <2>2, <2>3, <1>3, <1>6 DEF Bare
<1> HIDE DEF at
<1>8. \A a \in DOMAIN e : IsName(e, a) => a # at /\ a \in DOMAIN d /\ e[a] = d[a] /\ IsName(d, a)
  BY <1>2 DEF IsName, IsEntry, EntCell
<1>9. \A a \in DOMAIN d : IsName(d, a) /\ a # at => a \in DOMAIN e /\ e[a] = d[a] /\ IsName(e, a)
  BY <1>2 DEF IsName, IsEntry
<1>10. IsName(d, at)
  BY <1>2 DEF IsName
<1>11. \A a \in DOMAIN d : IsName(d, a) /\ d[a].inum = k => a = at
  BY <1>1, <1>2, <1>3, <1>10 DEF Placed, Single
<1>12. Live(e) = Others(Live(d), k)
  <2>1. ASSUME NEW x \in Live(e) PROVE x \in Live(d) /\ x # k
    <3>1. CASE x = 0
      BY <3>1, <1>3, <1>7
    <3>2. CASE x # 0
      <4>1. PICK a \in DOMAIN e : IsName(e, a) /\ e[a].inum = x /\ x # None
        BY <3>2 DEF Live
      <4>2. a # at /\ a \in DOMAIN d /\ d[a].inum = x /\ IsName(d, a)
        BY <4>1, <1>8
      <4>3. QED BY <4>1, <4>2, <1>11 DEF Live
    <3>3. QED BY <3>1, <3>2
  <2>2. ASSUME NEW x \in Live(d), x # k PROVE x \in Live(e)
    <3>1. CASE x = 0
      BY <3>1 DEF Live
    <3>2. CASE x # 0
      <4>1. PICK a \in DOMAIN d : IsName(d, a) /\ d[a].inum = x /\ x # None
        BY <3>2 DEF Live
      <4>2. a \in DOMAIN e /\ e[a].inum = x /\ IsName(e, a)
        BY <2>2, <4>1, <1>2, <1>9
      <4>3. QED BY <4>1, <4>2 DEF Live
    <3>3. QED BY <3>1, <3>2
  <2>3. QED BY <2>1, <2>2 DEF Others
<1>13. Placed(e)
  <2>1. Single(e)
    BY <1>1, <1>8 DEF Placed, Single
  <2> SUFFICES ASSUME NEW a \in DOMAIN e, IsName(e, a) PROVE IsPlaced(e, a)
    BY <2>1 DEF Placed
  <2>2. PICK q \in Live(d), x \in Blocks, y \in Slots :
          IsDirAt(d, q) /\ Blk(d, q, x) # None /\ a = Blk(d, q, x) + y
    BY <1>1, <1>8 DEF Placed, IsPlaced
  <2>3. q # k
    BY <2>2, <1>2, <1>8 DEF Hollow, IsName
  <2>4. q \in Live(e) /\ q \in K
    BY <2>3, <1>3, <1>12 DEF Others
  <2>5. QED BY <2>2, <2>4, <1>4 DEF IsPlaced
<1>14. ASSUME NEW q \in K, NEW on, NEW l, Holds(e, q, on, l), on # Free, IsDirAt(d, q)
       PROVE  Holds(d, q, on, l) /\ ~(q = p /\ on = nm)
  <2>1. PICK x \in Blocks, y \in Slots :
          /\ Blk(e, q, x) # None /\ IsEntry(e, Blk(e, q, x) + y)
          /\ e[Blk(e, q, x) + y].name = on /\ e[Blk(e, q, x) + y].inum = l
    BY <1>14 DEF Holds
  <2> DEFINE a == Blk(d, q, x) + y
  <2>2. /\ Blk(d, q, x) # None /\ a \in DOMAIN d /\ a # at /\ IsEntry(d, a)
        /\ d[a].name = on /\ d[a].inum = l
    <3>1. Blk(e, q, x) = Blk(d, q, x) /\ a \in DOMAIN d
      BY <2>1, <1>4, <1>5, <1>14
    <3>2. e[a].name = on /\ e[a].inum = l /\ IsEntry(e, a)
      BY <2>1, <3>1
    <3> HIDE DEF a
    <3>3. a # at
      BY <3>2, <1>2, <1>14 DEF EntCell
    <3>4. e[a] = d[a]
      BY <3>1, <3>3, <1>2
    <3>5. QED BY <2>1, <3>1, <3>2, <3>3, <3>4 DEF IsEntry
  <2>3. Holds(d, q, on, l)
    BY <2>2 DEF Holds
  <2>4. ASSUME q = p, on = nm PROVE FALSE
    <3>1. l # None
      BY <2>2, <2>4, <1>2 DEF Numbered
    <3>2. Has(d, p, nm, l)
      BY <2>3, <2>4, <3>1, <1>2 DEF Has
    <3>3. l = k
      BY <3>2, <1>6 DEF Unique
    <3> HIDE DEF a
    <3>4. IsName(d, a)
      BY <2>2, <2>4, <1>2 DEF IsName
    <3>5. QED BY <2>2, <3>3, <3>4, <1>11
  <2>5. QED BY <2>3, <2>4
<1>15. \A l : ~Holds(e, p, nm, l)
  BY <1>2, <1>14
<1>16. ASSUME NEW q \in K, NEW on, NEW l
       PROVE  Has(e, q, on, l) <=> Has(d, q, on, l) /\ ~(q = p /\ on = nm)
  <2>1. ASSUME Has(e, q, on, l) PROVE Has(d, q, on, l) /\ ~(q = p /\ on = nm)
    <3>1. Holds(e, q, on, l) /\ on \notin {".", "..", Free} /\ l # None /\ IsDirAt(d, q)
      BY <2>1, <1>4 DEF Has
    <3>2. Holds(d, q, on, l) /\ ~(q = p /\ on = nm)
      BY <3>1, <1>14
    <3>3. QED BY <3>1, <3>2 DEF Has
  <2>2. ASSUME Has(d, q, on, l), ~(q = p /\ on = nm) PROVE Has(e, q, on, l)
    <3>1. PICK x \in Blocks, y \in Slots :
            /\ Blk(d, q, x) # None /\ IsEntry(d, Blk(d, q, x) + y)
            /\ d[Blk(d, q, x) + y].name = on /\ d[Blk(d, q, x) + y].inum = l
      BY <2>2 DEF Has, Holds
    <3> DEFINE a == Blk(d, q, x) + y
    <3>2. on \notin {".", "..", Free} /\ l # None /\ IsDirAt(e, q) /\ Blk(e, q, x) = Blk(d, q, x)
      BY <2>2, <1>4 DEF Has
    <3>3. l # k
      BY <2>2, <1>6 DEF Unique
    <3>4. a # at /\ a \in DOMAIN d
      BY <3>1, <3>3, <1>2 DEF IsEntry
    <3>5. e[a] = d[a] /\ IsEntry(e, a)
      <4>1. IsEntry(d, a)
        BY <3>1
      <4> HIDE DEF a
      <4>2. QED BY <3>4, <4>1, <1>2 DEF IsEntry
    <3>6. Holds(e, q, on, l)
      BY <3>1, <3>2, <3>5 DEF Holds
    <3>7. QED BY <3>2, <3>6 DEF Has
  <2>3. QED BY <2>1, <2>2
<1>17. ASSUME NEW q \in K, IsDirAt(d, q), DotsAt(d, q)
       PROVE  e[Blk(d, q, 0)] = d[Blk(d, q, 0)] /\ e[Blk(d, q, 0) + 1] = d[Blk(d, q, 0) + 1]
  <2>1. Blk(d, q, 0) # None /\ Blk(d, q, 0) \in Int
    <3>1. InPlace(d, q)
      BY DEF Sound
    <3>2. Blk(d, q, 0) \in Nat
      BY <3>1, Facts DEF InPlace
    <3>3. QED BY <3>2 DEF None
  <2>2. Blk(d, q, 0) \in DOMAIN d /\ Blk(d, q, 0) + 1 \in DOMAIN d
    <3>1. Blk(d, q, 0) + 0 = Blk(d, q, 0)
      BY <2>1
    <3>2. Blk(d, q, 0) + 0 \in DOMAIN d /\ Blk(d, q, 0) + 1 \in DOMAIN d
      BY <2>1, <1>3, <1>5, <1>17
    <3>3. QED BY <3>1, <3>2
  <2>3. Blk(d, q, 0) # at /\ Blk(d, q, 0) + 1 # at
    BY <1>2, <1>17 DEF DotsAt
  <2>4. QED BY <2>2, <2>3, <1>2
<1>18. Dots(e, K)
  <2>1. ASSUME NEW q \in K, IsDirAt(e, q) PROVE DotsAt(e, q)
    <3>1. IsDirAt(d, q) /\ DotsAt(d, q)
      BY <2>1, <1>1, <1>4 DEF Dots
    <3>2. QED BY <3>1, <1>3, <1>4, <1>17 DEF DotsAt
  <2>2. ASSUME NEW x \in K, NEW q \in K, NEW on, Has(e, q, on, x)
        PROVE  x # 0 /\ (IsDirAt(e, x) => Parent(e, x) = q)
    <3>1. Has(d, q, on, x)
      BY <2>2, <1>16
    <3>2. x # 0 /\ (IsDirAt(d, x) => Parent(d, x) = q /\ DotsAt(d, x))
      BY <3>1, <1>1 DEF Dots
    <3>3. QED BY <3>2, <1>3, <1>4, <1>17 DEF Parent
  <2>3. QED BY <2>1, <2>2 DEF Dots
<1>19. NoNone(e) => NoNone(d)
  BY <1>2, <1>3, <1>9 DEF NoNone
<1>20. Leaves(d, e, p, nm, k)
  <2>1. \A q \in Live(e) : q \in K
    BY <1>3, <1>12 DEF Others
  <2>2. SameType(d, e, Live(e))
    BY <2>1, <1>4 DEF SameType
  <2>3. SameFiles(d, e, Live(e), {})
    BY <2>1, <1>4 DEF SameFiles, SameBlock, Keeps
  <2>4. QED BY <2>1, <2>2, <2>3, <1>6, <1>7, <1>12, <1>16 DEF Leaves
<1>22. Lacks(e, p, nm)
  BY <1>2, <1>4, <1>7, <1>12, <1>15 DEF Lacks, Others
<1>21. QED BY <1>2, <1>7, <1>13, <1>18, <1>19, <1>20, <1>22 DEF Shows

\* The other two: the entry of directory p is freed, and p gets a new size.
LEMMA FreeLeads ==
  ASSUME NEW d, NEW K, Sound(d, K), NEW U, Fine(d, K, U), NEW p \in K, p \in U, IsDirAt(d, p), NEW b \in Blocks,
         Blk(d, p, b) # None, NEW j \in Slots, NEW s \in Nat, s > 0, s < DIRENTS,
         NEW nm, NEW k, None \in U \/ Leaving(d, p, b, j, nm, k)
  PROVE  \E f : /\ Leads(d, << <<Blk(d, p, b) + j, One(EntCell(Free, None))>>,
                               <<Loc(d, p), One([d[Loc(d, p)] EXCEPT !.size = s])>> >>, f, {}, U)
                /\ None \in U \/ Lacks(f, p, nm)
<1> DEFINE ino  == d[Loc(d, p)]
           ino2 == [ino EXCEPT !.size = s]
           cell == One(EntCell(Free, None))
           at   == Blk(d, p, b) + j
           d1   == Put(d, at, cell)
           d2   == Put(d1, Loc(d, p), One(ino2))
<1>1. ino \in InodeCells /\ 0 \in Blocks /\ DIRENTS \in Nat /\ Blk(d, p, b) \in Int
  BY Facts, Constants
<1>2. /\ Sound(d1, K) /\ DirsStay(d, d1, Others(K, p)) /\ Same(d, d1, K) /\ Keeps(d, d1, K, {}) /\ CR(d1) = CR(d)
      /\ NoNew(d, d1, p) /\ Stays(d, d1) /\ JunkStays(d, d1)
      /\ None \in U \/ Cleared(d, d1, at)
  <2>1. PICK n \in Nat : n = 1
    OBVIOUS
  <2>2. Run(cell, n) /\ \A x \in 0..(n - 1) : cell[x] = EntCell(Free, None)
    BY <2>1 DEF Run, One
  <2> HIDE DEF cell
  <2>3. \A x \in 0..(n - 1) :
           \/ cell[x].kind = "data" /\ ~IsDirAt(d, p)
           \/ cell[x].kind = "ent" /\ (cell[x].name \in {".", "..", Free} \/ cell[x].inum \in K \cup {None})
    BY <2>2 DEF EntCell
  <2>4. at \in Int /\ Blk(d, p, b) <= at /\ at + n <= Blk(d, p, b) + DIRENTS
    BY <2>1, <1>1 DEF Slots
  <2>5. d1 = Put(d, at, cell)
    OBVIOUS
  <2> HIDE DEF d1, at
  <2>6. /\ Sound(d1, K) /\ DirsStay(d, d1, Others(K, p)) /\ Same(d, d1, K) /\ Keeps(d, d1, K, {})
        /\ CR(d1) = CR(d)
        /\ \A x \in 0..(n - 1) : d1[at + x] = cell[x]
        /\ \A a \in DOMAIN d : a \notin at..(at + n - 1) => d1[a] = d[a]
        /\ Full(d) => Full(d1)
        /\ (\A x \in 0..(n - 1) : Numbers(cell[x])) => NoneStay(d, d1)
        /\ JunkStays(d, d1)
    BY <2>2, <2>3, <2>4, <2>5, WriteBlock
  <2>7. d1[at].name = Free
    <3>1. 0 \in 0..(n - 1) /\ at + 0 = at
      BY <2>1, <2>4
    <3>2. QED BY <3>1, <2>2, <2>6 DEF EntCell
  <2>8. NoNew(d, d1, p)
    <3> SUFFICES ASSUME NEW on, NEW l, Has(d1, p, on, l) PROVE Has(d, p, on, l)
      BY DEF NoNew
    <3>1. PICK c \in Blocks, y \in Slots :
            /\ Blk(d1, p, c) # None /\ IsEntry(d1, Blk(d1, p, c) + y)
            /\ d1[Blk(d1, p, c) + y].name = on /\ d1[Blk(d1, p, c) + y].inum = l
      BY DEF Has, Holds
    <3> DEFINE a == Blk(d, p, c) + y
    <3>2. Blk(d1, p, c) = Blk(d, p, c)
      BY <2>6 DEF Same, Blk
    <3>3. a \in DOMAIN d
      BY <3>1, <3>2, EntryCells
    <3>4. d1[a].name = on /\ d1[a].inum = l /\ d1[a].kind = "ent"
      BY <3>1, <3>2 DEF IsEntry
    <3>5. a # at
      BY <3>4, <2>7 DEF Has
    <3>6. a \notin at..(at + n - 1)
      <4>1. at..(at + n - 1) = {at}
        BY <2>1, <2>4
      <4>2. QED BY <3>5, <4>1
    <3>7. IsEntry(d, a) /\ d[a].name = on /\ d[a].inum = l
      BY <3>3, <3>4, <3>6, <2>6 DEF IsEntry
    <3>8. Holds(d, p, on, l)
      BY <3>1, <3>2, <3>7 DEF Holds
    <3>9. QED BY <3>8 DEF Has
  <2>9. \A x \in 0..(n - 1) : Numbers(cell[x])
    BY <2>2 DEF Numbers, EntCell
  <2>11. Cleared(d, d1, at)
    <3>1. at \in DOMAIN d /\ at \in Int
      BY <2>4, EntryCells DEF at
    <3> DEFINE c == EntCell(Free, None)
    <3>2. d1 = Put(d, at, One(c))
      BY DEF d1, cell
    <3> HIDE DEF c
    <3>3. DOMAIN d1 = DOMAIN d \cup {at}
      BY <3>1, <3>2, OneDomain
    <3>4. \A a \in DOMAIN d : a # at => d1[a] = d[a]
      BY <3>1, <3>2, OneOld
    <3>5. d1[at] = c
      BY <3>1, <3>2, OneNew
    <3>6. QED BY <3>1, <3>3, <3>4, <3>5 DEF Cleared, c
  <2>10. QED BY <2>6, <2>8, <2>9, <2>11 DEF Stays
<1> HIDE DEF d1
<1>3. /\ ino2 \in InodeCells /\ ino2.type = ino.type /\ ino2.size = s /\ ino2.block_loc = ino.block_loc
  <2> HIDE DEF ino
  <2>1. QED BY <1>1 DEF InodeCells
<1>4. /\ d1[Loc(d1, p)] = ino /\ Loc(d1, p) = Loc(d, p)
      /\ \A x \in Blocks : ino2.block_loc[x] = Blk(d1, p, x)
  <2>1. d1[Loc(d1, p)] = ino /\ Loc(d1, p) = Loc(d, p)
    BY <1>2 DEF Same
  <2>2. QED BY <2>1, <1>3 DEF Blk
<1> HIDE DEF ino2
<1>5. \A x \in Blocks : x * DIRENTS < ino2.size => ino2.block_loc[x] # None
  <2>1. ASSUME NEW x \in Blocks, x * DIRENTS < s PROVE x = 0
    <3>1. x \in Nat /\ DIRENTS > 0
      BY Constants DEF Blocks
    <3>2. x >= 1 => x * DIRENTS >= DIRENTS
      BY <3>1, <1>1
    <3>3. QED BY <3>1, <3>2, <2>1, <1>1
  <2>2. Blk(d1, p, 0) # None
    <3>1. InPlace(d1, p)
      BY <1>2 DEF Sound
    <3>2. QED BY <3>1, <1>1 DEF InPlace, None
  <2>3. ino2.block_loc[0] # None
    BY <2>2, <1>1, <1>4
  <2>4. QED BY <2>1, <2>3, <1>3
<1>6. /\ Sound(d2, K) /\ Keeps(d1, d2, K, {})
      /\ Same(d1, d2, Others(K, p)) /\ DirsStay(d1, d2, K)
      /\ DOMAIN d2 = DOMAIN d1 /\ d2[Loc(d1, p)] = ino2 /\ Loc(d2, p) = Loc(d1, p) /\ Stays(d1, d2)
      /\ Calm(d1, d2)
  <2>1. d2 = Put(d1, Loc(d1, p), One(ino2)) /\ ino2.type = d1[Loc(d1, p)].type /\ ino2.size > 0
    BY <1>3, <1>4
  <2>2. IsDirAt(d1, p)
    BY <1>4 DEF IsDirAt
  <2> HIDE DEF d2
  <2>3. QED BY <2>1, <2>2, <1>1, <1>2, <1>3, <1>4, <1>5, WriteInode
<1> HIDE DEF d2
<1>14. IsDirAt(d1, p) = IsDirAt(d2, p) /\ IsDirAt(d1, p) /\ \A x \in Blocks : Blk(d2, p, x) = Blk(d1, p, x)
  BY <1>3, <1>4, <1>6 DEF IsDirAt, Blk
<1>13. ASSUME NEW on, NEW l, Holds(d2, p, on, l) PROVE Holds(d1, p, on, l)
  <2>1. PICK c \in Blocks, y \in Slots :
          /\ Blk(d2, p, c) # None /\ IsEntry(d2, Blk(d2, p, c) + y)
          /\ d2[Blk(d2, p, c) + y].name = on /\ d2[Blk(d2, p, c) + y].inum = l
    BY <1>13 DEF Holds
  <2>2. Blk(d2, p, c) = Blk(d1, p, c) /\ IsDirAt(d1, p)
    BY <1>14
  <2>3. d2[Blk(d1, p, c) + y] = d1[Blk(d1, p, c) + y]
    BY <2>1, <2>2, <1>6 DEF DirsStay
  <2>4. IsEntry(d1, Blk(d1, p, c) + y)
    BY <2>1, <2>2, <2>3, <1>6 DEF IsEntry
  <2>5. QED BY <2>1, <2>2, <2>3, <2>4 DEF Holds
<1>15. /\ Proper(d1, K, U) /\ Shown(d, d1, U)
       /\ None \in U \/ Lacks(d1, p, nm)
  <2>1. CASE None \in U
    BY <2>1 DEF Proper, Shown
  <2>2. CASE None \notin U
    <3>1. Cleared(d, d1, Blk(d, p, b) + j) /\ Leaving(d, p, b, j, nm, k)
      BY <2>2, <1>2
    <3>2. Placed(d) /\ Dots(d, K) /\ Unique(d, K)
      BY <2>2 DEF Fine, Proper
    <3>3. QED BY <3>1, <3>2, <1>2, EntryGone
  <2>3. QED BY <2>1, <2>2
<1>11. Fine(d1, K, U)
  <2>1. Same(d, d1, Others(K, p))
    BY <1>2, OthersSame
  <2>2. QED BY <2>1, <1>2, <1>15, FineBut
<1>12. Fine(d2, K, U) /\ TreeStays(d1, d2, U)
  <2>1. NoNew(d1, d2, p)
    BY <1>13, <1>14 DEF NoNew, Has
  <2>2. QED BY <2>1, <1>2, <1>6, <1>11, <1>14, FineInode
<1>16. Shown(d1, d2, U)
  <2>1. ASSUME NEW x \in K, NEW c \in Blocks, ~IsDirAt(d1, x), Blk(d1, x, c) = None PROVE Blk(d2, x, c) = None
    BY <2>1, <1>6, <1>14 DEF Same, Others, Blk
  <2>2. QED BY <2>1, <1>2, <1>6, <1>12, ShownStill
<1>7. Leads(d, << <<at, cell>> >>, d1, {}, U)
  BY <1>2, <1>11, <1>15, LeadsOne DEF d1
<1>8. Leads(d1, << <<Loc(d, p), One(ino2)>> >>, d2, {}, U)
  BY <1>2, <1>6, <1>11, <1>12, <1>16, LeadsOne DEF d2
<1>9. Leads(d, << <<at, cell>>, <<Loc(d, p), One(ino2)>> >>, d2, {}, U)
  BY <1>7, <1>8, LeadsThen
<1>17. None \in U \/ Lacks(d2, p, nm)
  BY <1>12, <1>13, <1>15 DEF Lacks, TreeStays, SameTree, SameDirs, SameType
<1>10. QED BY <1>9, <1>17 DEF ino2

\* Every inode that directory p has the name nm for is among the U, and its size
\* covers its entries.
Within(d, p, nm, U) == \A k : Holds(d, p, nm, k) => k \in U /\ (None \in U \/ Covered(d, k))

\* The writes s lead on, and only the first of them changes what a file holds:
\* that of file k. Directory p does not have the name nm then.
Removes(d, s, k, U, p, nm) ==
  \E w, t, e, f : /\ s = <<w>> \o t /\ Leads(d, <<w>>, e, Only(k, 0), U) /\ Leads(e, t, f, {}, U)
                  /\ None \in U \/ Lacks(f, p, nm)

\* The writes of UNLINK: it answers 0 when the name is gone or was not there.
LEMMA UnlinkLeads ==
  ASSUME NEW d, NEW U, Well(d, U), NEW p \in Live(d), p \in U, NEW nm, nm \notin {".", "..", Free},
         IsDirAt(d, p) => Numbered(d, p, nm), Within(d, p, nm, U), NEW h \in server_unlink(d, p, nm)
  PROVE  \/ h.writes = <<>> /\ (h.ret = 0 => Lacks(d, p, nm))
         \/ \E k : Holds(d, p, nm, k) /\ Removes(d, h.writes, k, U, p, nm)
<1> DEFINE K     == Live(d)
           ino   == d[Loc(d, p)]
           found == Matches(d, OwnAddr(ino), nm)
           at    == OwnAddr(ino)[Min(found)]
           k     == d[at].inum
           loc   == InodeLoc(d)[EntryAt(d, at).inum]
           dead  == d[loc]
           s     == Max({b \in Blocks : ino.block_loc[b] # None}) + 1
           w     == << <<at, One(EntCell(Free, None))>>, <<Loc(d, p), One([ino EXCEPT !.size = s])>> >>
<1>0. Sound(d, K) /\ Fine(d, K, U)
  BY DEF Well
<1>1. ASSUME NEW x \in K
      PROVE  InodeLoc(d)[x] = Loc(d, x) /\ Inode(d, x) = d[Loc(d, x)] /\ IsInode(d, x)
  <2>1. InPlace(d, x) /\ Shaped(d)
    BY <1>0 DEF Sound
  <2>2. QED BY <2>1, LocIs
<1>2. CASE ~IsDir(d, p) \/ found = {} \/ (dead.type = MFS_DIRECTORY /\ dead.size > 2)
  <2>1. h.writes = <<>> /\ (h.ret = 0 => found = {})
    BY <1>1, <1>2 DEF server_unlink, Reply, None
  <2>2. ASSUME found = {}, NEW l PROVE ~Holds(d, p, nm, l)
    <3> SUFFICES ASSUME NEW b \in Blocks, NEW j \in Slots, Blk(d, p, b) # None,
                        IsEntry(d, Blk(d, p, b) + j), d[Blk(d, p, b) + j].name = nm
                 PROVE  FALSE
      BY DEF Holds
    <3>1. Blk(d, p, b) = ino.block_loc[b]
      BY DEF Blk
    <3> DEFINE m == b * DIRENTS + j
    <3>2. m \in 0..(BLOCKS * DIRENTS - 1) /\ m \div DIRENTS = b /\ m % DIRENTS = j
      BY Position
    <3> HIDE DEF m
    <3>3. m \in DOMAIN OwnAddr(ino) /\ OwnAddr(ino)[m] = Blk(d, p, b) + j
      BY <3>1, <3>2 DEF OwnAddr
    <3>4. m \in found
      BY <3>3 DEF Matches, EntryAt, IsEntry
    <3>5. QED BY <2>2, <3>4
  <2>4. h.ret = 0 => IsDirAt(d, p)
    BY <1>1 DEF server_unlink, Reply, None, IsDir, IsDirAt
  <2>3. QED BY <2>1, <2>2, <2>4 DEF Lacks
<1>3. CASE ~(~IsDir(d, p) \/ found = {} \/ (dead.type = MFS_DIRECTORY /\ dead.size > 2))
  <2>1. \E x \in del_inode_imap(d, loc) : h.writes = <<x>> \o w
    <3>1. server_unlink(d, p, nm) = {[ret |-> 0, writes |-> <<x>> \o w] : x \in del_inode_imap(d, loc)}
      <4>1. p \in K
        OBVIOUS
      <4>2. InodeLoc(d)[p] = Loc(d, p) /\ Inode(d, p) = ino
        BY <4>1, <1>1
      <4>3. IsDir(d, p) /\ found # {} /\ ~(dead.type = MFS_DIRECTORY /\ dead.size > 2)
        BY <1>3
      <4> HIDE DEF K
      <4>4. QED BY <4>2, <4>3, Zenon DEF server_unlink
    <3> DEFINE seq(x) == <<x>> \o w
    <3>2. server_unlink(d, p, nm) = {[ret |-> 0, writes |-> seq(x)] : x \in del_inode_imap(d, loc)}
      BY <3>1
    <3> HIDE DEF loc, w, seq
    <3>3. \E x \in del_inode_imap(d, loc) : h.writes = seq(x)
      BY <3>2
    <3>4. QED BY <3>3 DEF seq
  <2>2. ino \in InodeCells /\ IsDirAt(d, p) /\ \A b \in Blocks : Blk(d, p, b) = ino.block_loc[b]
    BY <1>0, <1>1, <1>3, Facts DEF IsDir, IsDirAt, Blk
  <2>3. /\ IsEntry(d, at) /\ d[at].name = nm
        /\ \E b \in Blocks, j \in Slots : Blk(d, p, b) # None /\ at = Blk(d, p, b) + j
    <3>1. /\ IsEntry(d, at) /\ d[at].name = nm
          /\ \E b \in Blocks, j \in Slots : ino.block_loc[b] # None /\ at = ino.block_loc[b] + j
      <4> DEFINE z == ino
      <4>1. z \in InodeCells /\ Matches(d, OwnAddr(z), nm) # {} /\ at = OwnAddr(z)[Min(Matches(d, OwnAddr(z), nm))]
        BY <2>2, <1>3
      <4>4. Listed(d, z)
        <5>1. InPlace(d, p)
          BY <1>0 DEF Sound
        <5>2. QED BY <5>1, <2>2 DEF InPlace, Listed
      <4> HIDE DEF z
      <4>2. /\ IsEntry(d, at) /\ d[at].name = nm
            /\ \E b \in Blocks, j \in Slots : z.block_loc[b] # None /\ at = z.block_loc[b] + j
        <5> HIDE DEF at
        <5>1. QED BY <4>1, <4>4, FoundIn
      <4>3. QED BY <4>2 DEF z
    <3> HIDE DEF at, ino
    <3>2. QED BY <3>1, <2>2
  <2>4. PICK b \in Blocks, j \in Slots : Blk(d, p, b) # None /\ at = Blk(d, p, b) + j
    BY <2>3
  <2>5. k \in K
    <3>1. k # None
      BY <2>2, <2>3, <2>4 DEF Numbered
    <3>2. at \in DOMAIN d /\ IsName(d, at)
      BY <2>3 DEF IsName, IsEntry
    <3> HIDE DEF at
    <3>3. QED BY <3>1, <3>2 DEF Live
  <2>6. loc = Loc(d, k)
    <3>2. EntryAt(d, at).inum = k
      BY <2>3 DEF EntryAt
    <3> HIDE DEF k, K, at
    <3>1. QED BY <2>5, <3>2, <1>1
  <2>7. s \in Nat /\ s > 0 /\ s < DIRENTS
    <3> DEFINE S == {x \in Blocks : ino.block_loc[x] # None}
    <3>1. Blocks = 0..(BLOCKS - 1) /\ BLOCKS - 1 \in Nat /\ BLOCKS \in Nat /\ DIRENTS \in Nat /\ BLOCKS < DIRENTS
      BY Constants DEF Blocks
    <3>2. S \subseteq 0..(BLOCKS - 1) /\ S # {}
      BY <3>1, <2>2, <2>4
    <3>3. Max(S) \in S
      <4> DEFINE N == BLOCKS - 1
      <4>1. N \in Nat /\ S \subseteq 0..N
        BY <3>1, <3>2
      <4> HIDE DEF S, N
      <4>2. QED BY <4>1, <3>2, Greatest
    <3>4. Max(S) \in 0..(BLOCKS - 1)
      BY <3>2, <3>3
    <3> DEFINE z == Max(S)
    <3>5. s = z + 1 /\ z \in 0..(BLOCKS - 1)
      BY <3>4
    <3> HIDE DEF z, s, S
    <3>6. QED BY <3>1, <3>5
  <2>8. Holds(d, p, nm, k)
    BY <2>3, <2>4 DEF Holds
  <2>16. ~IsDirAt(d, k) \/ d[Loc(d, k)].size <= 2
    <3>1. d[Loc(d, k)].size \in Nat
      <4> HIDE DEF K
      <4>1. QED BY <1>0, <2>5, Facts DEF InodeCells
    <3>2. dead = d[Loc(d, k)]
      BY <2>6
    <3> HIDE DEF dead, k
    <3>3. QED BY <1>3, <3>1, <3>2 DEF IsDirAt
  <2> HIDE DEF at, k, loc, s, found, dead
  <2>18. PICK x \in del_inode_imap(d, Loc(d, k)) : h.writes = <<x>> \o w
    BY <2>1, <2>6
  <2>15. PICK e : Deletes(d, K, U, k, x, e)
    <3>1. k \in U /\ (None \in U \/ Covered(d, k))
      BY <2>8 DEF Within
    <3>4. None \in U \/ Empties(d, k)
      BY <2>5, <2>16, <3>1 DEF Empties
    <3> HIDE DEF K, w, ino
    <3>2. Sound(d, K) /\ Fine(d, K, U) /\ k \in K /\ k \in U
      BY <1>0, <2>5, <3>1
    <3>3. QED BY <3>2, <3>4, DelLeads
  <2>9. /\ Leads(d, <<x>>, e, Only(k, 0), U)
        /\ Sound(e, K) /\ Fine(e, K, U) /\ Same(d, e, K)
        /\ DirsStay(d, e, Others(K, k)) /\ TreeStays(d, e, U) /\ (None \in U \/ Hollow(e, k))
    BY <2>15 DEF Deletes
  <2>10. /\ Loc(e, p) = Loc(d, p) /\ e[Loc(d, p)] = ino /\ IsDirAt(e, p) /\ p \in K
         /\ Blk(e, p, b) = Blk(d, p, b)
    <3>1. p \in K
      OBVIOUS
    <3>2. Loc(e, p) = Loc(d, p) /\ e[Loc(d, p)] = ino
      BY <3>1, <2>9 DEF Same
    <3>3. QED BY <3>1, <3>2, <2>2 DEF IsDirAt, Blk
  <2>17. None \in U \/ Leaving(e, p, b, j, nm, k)
    <3>1. SUFFICES ASSUME None \notin U PROVE Leaving(e, p, b, j, nm, k)
      OBVIOUS
    <3>2. p \in Live(e) /\ Hollow(e, k) /\ SameDirs(d, e, K)
      BY <3>1, <2>9 DEF TreeStays, SameTree
    <3>3. Has(d, p, nm, k)
      <4>1. k # None
        BY <2>2, <2>3, <2>4 DEF Numbered, k
      <4>2. QED BY <2>2, <2>8, <4>1 DEF Has
    <3>4. p # k
      <4>1. Has(e, p, nm, k)
        BY <3>2, <3>3, <2>10 DEF SameDirs
      <4>2. ~IsDirAt(e, k) \/ \A c \in Blocks, y \in Slots :
              Blk(e, k, c) # None => e[Blk(e, k, c) + y].name \in {".", "..", Free}
        BY <3>2 DEF Hollow
      <4>3. \A on, l : ~Has(e, k, on, l)
        BY <4>2, NoNames
      <4>4. QED BY <4>1, <4>3
    <3>5. p \in Others(K, k) /\ \A c \in Blocks : Blk(e, p, c) = Blk(d, p, c)
      BY <3>4, <2>9, <2>10 DEF Others, Same, Blk
    <3>6. \A c \in Blocks, y \in Slots : Blk(d, p, c) # None =>
            e[Blk(d, p, c) + y] = d[Blk(d, p, c) + y] /\ Blk(d, p, c) + y \in DOMAIN d
      BY <3>5, <2>2, <2>9, <1>0, EntryCells DEF DirsStay
    <3>7. IsEntry(e, Blk(e, p, b) + j)
      <4>1. InPlace(e, p)
        BY <2>9, <2>10 DEF Sound
      <4>2. QED BY <4>1, <2>4, <2>10 DEF InPlace
    <3>8. e[Blk(e, p, b) + j].name = nm /\ e[Blk(e, p, b) + j].inum = k
      <4>1. d[Blk(d, p, b) + j].name = nm /\ d[Blk(d, p, b) + j].inum = k
        BY <2>3, <2>4 DEF k
      <4>2. QED BY <4>1, <3>6, <2>4, <2>10
    <3>9. Numbered(e, p, nm)
      BY <3>5, <3>6, <2>2 DEF Numbered, IsEntry
    <3>10. QED BY <3>2, <3>7, <3>8, <3>9 DEF Leaving
  <2> HIDE DEF ino, K
  <2>11. PICK f : /\ Leads(e, << <<Blk(e, p, b) + j, One(EntCell(Free, None))>>,
                                <<Loc(e, p), One([e[Loc(e, p)] EXCEPT !.size = s])>> >>, f, {}, U)
                  /\ None \in U \/ Lacks(f, p, nm)
    BY <2>4, <2>7, <2>9, <2>10, <2>17, FreeLeads
  <2>12. Leads(e, w, f, {}, U)
    BY <2>4, <2>10, <2>11
  <2> HIDE DEF w
  <2>13. Removes(d, <<x>> \o w, k, U, p, nm)
    BY <2>9, <2>11, <2>12 DEF Removes
  <2>14. QED BY <2>8, <2>13, <2>18
<1>4. QED BY <1>2, <1>3

-----------------------------------------------------------------------------
(* init_image                                                              *)

\* The image a new file gets is sound, the size of the root covers `.' and `..',
\* and there is no other name.
LEMMA ImageWell == Well(Image, {}) /\ \A a \in DOMAIN Image : ~IsName(Image, a)
<1> DEFINE cr    == CRCell([m \in Pieces |-> IF m = 0 THEN 1 ELSE None], 3 + DIRENTS)
           imap  == ImapCell([j \in 0..(INODES - 1) |-> IF j = 0 THEN 2 ELSE None])
           root  == InodeCell(MFS_DIRECTORY, 2, [b \in Blocks |-> IF b = 0 THEN 3 ELSE None])
           start == [a \in 0..2 |-> CASE a = 0 -> cr [] a = 1 -> imap [] a = 2 -> root]
           cells == DirBlock(0, 0)
           d     == Image
<1>1. /\ DIRENTS \in Nat /\ DIRENTS >= 4 /\ INODES \in Nat /\ INODES > 0 /\ IMAPS \in Nat /\ IMAPS > 0
      /\ 0 \in Blocks /\ 0 \in Pieces /\ 0 \in Inums /\ 0 \in 0..(INODES - 1) /\ Pieces \subseteq Nat
      /\ Blocks \subseteq Nat
  BY Constants DEF Pieces, Blocks
<1>2. d = Put(start, 3, cells)
  BY DEF Image, Pieces
<1>3. /\ DOMAIN cells = 0..(DIRENTS - 1)
      /\ \A j \in 0..(DIRENTS - 1) : cells[j].kind = "ent" /\ cells[j].name \in {".", "..", Free}
      /\ \A j \in 0..(DIRENTS - 1) : cells[j].name = Free \/ j < 2
      /\ cells[0] = EntCell(".", 0) /\ cells[1] = EntCell("..", 0)
  <2>1. DOMAIN cells = 0..(DIRENTS - 1) /\ 0 \in 0..(DIRENTS - 1) /\ 1 \in 0..(DIRENTS - 1)
    BY <1>1 DEF DirBlock, FreeBlock
  <2>2. ASSUME NEW j \in 0..(DIRENTS - 1)
        PROVE  \/ cells[j] = EntCell(".", 0) /\ j < 2
               \/ cells[j] = EntCell("..", 0) /\ j < 2
               \/ cells[j] = EntCell(Free, None)
    BY <2>1 DEF DirBlock, FreeBlock
  <2>3. cells[0] = EntCell(".", 0) /\ cells[1] = EntCell("..", 0)
    BY <2>1 DEF DirBlock, FreeBlock
  <2>4. QED BY <2>1, <2>2, <2>3 DEF EntCell
<1>4. DOMAIN start = 0..2 /\ start[0] = cr /\ start[1] = imap /\ start[2] = root
  OBVIOUS
<1> HIDE DEF start, cells, d
<1>5. DOMAIN d = 0..(2 + DIRENTS)
  <2>1. DOMAIN d = DOMAIN start \cup 3..(3 + DIRENTS - 1)
    <3>1. PICK t \in Int : t = 3
      OBVIOUS
    <3>2. DOMAIN Put(start, t, cells) = DOMAIN start \cup t..(t + DIRENTS - 1)
      <4>1. DIRENTS \in Nat
        BY <1>1
      <4>2. DOMAIN cells = 0..(DIRENTS - 1)
        BY <1>3
      <4>3. QED BY <4>1, <4>2, CellsDomain, Zenon
    <3>3. QED BY <3>1, <3>2, <1>2
  <2>2. QED BY <2>1, <1>1, <1>4
<1>6. d[0] = cr /\ d[1] = imap /\ d[2] = root
  <2>1. \A a \in DOMAIN start : a \notin 3..(3 + DIRENTS - 1) => d[a] = start[a]
    <3>1. 3 \in Int
      OBVIOUS
    <3>2. QED BY <3>1, <1>1, <1>2, <1>3, CellsOld, Zenon
  <2>2. 0 \in DOMAIN start /\ 1 \in DOMAIN start /\ 2 \in DOMAIN start
    BY <1>4
  <2>3. \A a \in 0..2 : a \notin 3..(3 + DIRENTS - 1)
    BY <1>1
  <2>4. QED BY <2>1, <2>2, <2>3, <1>4
<1>7. /\ \A a \in 3..(2 + DIRENTS) :
           d[a].kind = "ent" /\ d[a].name \in {".", "..", Free} /\ (d[a].name = Free \/ a < 5)
      /\ d[3] = EntCell(".", 0) /\ d[4] = EntCell("..", 0)
  <2>1. \A j \in 0..(DIRENTS - 1) : d[3 + j] = cells[j]
    BY <1>1, <1>2, <1>3, CellsNew
  <2>2. \A a \in 3..(2 + DIRENTS) : a - 3 \in 0..(DIRENTS - 1) /\ 3 + (a - 3) = a
    BY <1>1
  <2>3. \A a \in 3..(2 + DIRENTS) : d[a] = cells[a - 3]
    BY <2>1, <2>2
  <2>4. 0 \in 0..(DIRENTS - 1) /\ 1 \in 0..(DIRENTS - 1) /\ 3 + 0 = 3 /\ 3 + 1 = 4
    BY <1>1
  <2>5. d[3] = cells[0] /\ d[4] = cells[1]
    BY <2>1, <2>4
  <2>6. QED BY <2>2, <2>3, <2>5, <1>3
<1>8. /\ d[0].kind = "cr" /\ CR(d) = cr
      /\ CR(d).imap = [m \in Pieces |-> IF m = 0 THEN 1 ELSE None]
      /\ CR(d).end = 3 + DIRENTS
  BY <1>6 DEF CR, CRCell
<1>9. d[1].kind = "imap" /\ d[1].inode_loc = [j \in 0..(INODES - 1) |-> IF j = 0 THEN 2 ELSE None]
  BY <1>6 DEF ImapCell
<1>10. /\ d[2].kind = "inode" /\ d[2].type = MFS_DIRECTORY /\ d[2].size = 2
       /\ d[2].block_loc = [b \in Blocks |-> IF b = 0 THEN 3 ELSE None] /\ d[2] \in InodeCells
  BY <1>6 DEF InodeCell, InodeCells, None
<1> HIDE DEF cr, imap, root
<1>11. \A a \in DOMAIN d : a = 0 \/ a = 1 \/ a = 2 \/ a \in 3..(2 + DIRENTS)
  BY <1>1, <1>5
<1>12. Shaped(d)
  <2>1. DOMAIN d \subseteq Nat /\ 0 \in DOMAIN d
    BY <1>1, <1>5
  <2>2. CR(d).imap \in [Pieces -> Int] /\ CR(d).end \in Nat
    BY <1>1, <1>8 DEF None
  <2>3. \A m \in Pieces : CR(d).imap[m] # None => m = 0 /\ CR(d).imap[m] = 1
    BY <1>8
  <2>4. 1 \in 1..(CR(d).end - 1)
    BY <1>1, <1>8
  <2>5. \A m \in Pieces : CR(d).imap[m] # None => CR(d).imap[m] \in 1..(CR(d).end - 1)
    BY <2>3, <2>4
  <2>6. \A m, n \in Pieces : m # n /\ CR(d).imap[m] # None => CR(d).imap[m] # CR(d).imap[n]
    BY <2>3, <1>8 DEF None
  <2>7. ASSUME NEW a \in DOMAIN d
        PROVE  /\ d[a].kind = "imap" => d[a].inode_loc \in [0..(INODES - 1) -> Int]
               /\ d[a].kind = "inode" => d[a] \in InodeCells
    <3>1. CASE a = 0
      BY <3>1, <1>8
    <3>2. CASE a = 1
      BY <3>2, <1>9 DEF None
    <3>3. CASE a = 2
      BY <3>3, <1>10
    <3>4. CASE a \in 3..(2 + DIRENTS)
      BY <3>4, <1>7
    <3>5. QED BY <3>1, <3>2, <3>3, <3>4, <1>11
  <2>8. QED BY <2>1, <2>2, <2>5, <2>6, <2>7, <1>8 DEF Shaped
<1>22. ASSUME NEW a \in DOMAIN d PROVE ~IsName(d, a)
  <2>1. d[a].kind = "ent" => d[a].name \in {".", "..", Free}
    BY <1>7, <1>8, <1>9, <1>10, <1>11
  <2>2. QED BY <2>1 DEF IsName, IsEntry
<1>13. Live(d) = {0}
  BY <1>22 DEF Live
<1>14. PieceOf(0) = 0 /\ IndexOf(0) = 0
  <2>1. PICK z \in Pieces : z = 0
    BY <1>1
  <2>2. PieceOf(z * INODES) = z /\ IndexOf(z * INODES) = 0
    BY FirstOfPiece
  <2>3. z * INODES = 0
    BY <2>1, <1>1
  <2>4. QED BY <2>1, <2>2, <2>3
<1>15. MapAt(d, 0) = 1 /\ Loc(d, 0) = 2
  <2>1. MapAt(d, 0) = 1
    BY <1>1, <1>8, <1>14 DEF MapAt
  <2>2. QED BY <2>1, <1>1, <1>9, <1>14 DEF Loc
<1>16. \A b \in Blocks : Blk(d, 0, b) = IF b = 0 THEN 3 ELSE None
  BY <1>10, <1>15 DEF Blk
<1>17. InPlace(d, 0)
  <2>1. /\ 1 \in DOMAIN d /\ 2 \in DOMAIN d /\ 2 \in 1..(CR(d).end - 1) /\ 3 \in 1..(CR(d).end - DIRENTS)
    BY <1>1, <1>5, <1>8
  <2>2. MapAt(d, 0) # None /\ d[1].inode_loc[0] # None
    BY <1>1, <1>9, <1>15 DEF None
  <2>3. \A b \in Blocks : b * DIRENTS < 2 => Blk(d, 0, b) # None
    <3> TAKE b \in Blocks
    <3>1. b \in Nat
      BY <1>1
    <3>2. b # 0 => b * DIRENTS >= DIRENTS
      BY <3>1, <1>1
    <3>3. b * DIRENTS < 2 => b = 0
      BY <3>1, <3>2, <1>1
    <3>4. QED BY <3>3, <1>16 DEF None
  <2>4. \A j \in Slots : IsEntry(d, 3 + j)
    <3> TAKE j \in Slots
    <3>1. 3 + j \in 3..(2 + DIRENTS) /\ 3 + j \in DOMAIN d
      BY <1>1, <1>5 DEF Slots
    <3>2. QED BY <3>1, <1>7 DEF IsEntry
  <2>5. Blk(d, 0, 0) = 3 /\ \A b \in Blocks : Blk(d, 0, b) # None => Blk(d, 0, b) = 3
    BY <1>1, <1>16
  <2>7. Gapless(d, 0)
    BY <1>1, <1>16 DEF Gapless
  <2>6. QED BY <2>1, <2>2, <2>3, <2>4, <2>5, <2>7, <1>1, <1>9, <1>10, <1>15 DEF InPlace
<1>18. Separate(d, {0})
  <2>1. \A m \in Pieces : CR(d).imap[m] # None => CR(d).imap[m] = 1
    BY <1>8
  <2>2. \A b \in Blocks : Blk(d, 0, b) # None => b = 0 /\ Blk(d, 0, b) = 3
    BY <1>16
  <2>3. Outside(1, 3) /\ Outside(2, 3)
    BY DEF Outside
  <2>4. QED BY <2>1, <2>2, <2>3, <1>15 DEF Separate
<1>19. Sound(d, Live(d))
  BY <1>12, <1>13, <1>17, <1>18 DEF Sound
<1>20. Covered(d, 0)
  <2> SUFFICES ASSUME NEW b \in Blocks, NEW j \in Slots, Blk(d, 0, b) # None
               PROVE  d[Blk(d, 0, b) + j].name = Free \/ b * DIRENTS + j < d[Loc(d, 0)].size
    BY DEF Covered
  <2>1. b = 0 /\ Blk(d, 0, b) = 3
    BY <1>16
  <2>2. 3 + j \in 3..(2 + DIRENTS) /\ b * DIRENTS + j = j /\ (3 + j < 5 => j < 2)
    BY <2>1, <1>1 DEF Slots
  <2>3. d[Loc(d, 0)].size = 2
    BY <1>10, <1>15
  <2>4. QED BY <2>1, <2>2, <2>3, <1>7
<1>21. Unique(d, {0}) /\ NoNone(d)
  <2>1. \A p, nm, k : ~Has(d, p, nm, k)
    BY <1>22 DEF Has, Holds, IsName, IsEntry
  <2>2. QED BY <2>1, <1>22 DEF Unique, NoNone
<1>23. Proper(d, {0}, {})
  <2>1. \A p, nm, k : ~Has(d, p, nm, k)
    BY <1>22 DEF Has, Holds, IsName, IsEntry
  <2>2. Placed(d)
    BY <1>22 DEF Placed, Single
  <2>3. DotsAt(d, 0)
    BY <1>1, <1>7, <1>16 DEF DotsAt, EntCell
  <2>4. QED BY <2>1, <2>2, <2>3 DEF Proper, Dots
<1>24. JunkBeyond(d)
  <2>1. \A a \in DOMAIN d : d[a].kind # "data"
    BY <1>7, <1>8, <1>9, <1>10, <1>11
  <2>2. QED BY <2>1 DEF JunkBeyond
<1>25. QED BY <1>13, <1>19, <1>20, <1>21, <1>22, <1>23, <1>24 DEF Well, Fine, Settled, Covers, d

-----------------------------------------------------------------------------
(* The names of the tree                                                   *)

\* The names in the blocks of every directory inode.
Ents(d) ==
  UNION {{[dir |-> p, name |-> e.name, inum |-> e.inum, isdir |-> IsDir(d, e.inum)] :
            e \in Entries(d, p)} : p \in {p \in Inums : IsDir(d, p)}}

\* The names of the tree are those of the directories that have a name.
LEMMA TreeNames ==
  ASSUME NEW d
  PROVE  TreeOf(d).entries = {e \in Ents(d) : e.dir = 0 \/ \E f \in Ents(d) : f.inum = e.dir}
BY DEF TreeOf, Ents

\* Every name of the tree is a name on the image.
LEMMA EntsLive ==
  ASSUME NEW d, NEW e \in Ents(d)
  PROVE  e.inum \in Live(d) \cup {None}
<1>0. PICK p \in Inums : \E x \in Entries(d, p) :
        e = [dir |-> p, name |-> x.name, inum |-> x.inum, isdir |-> IsDir(d, x.inum)]
  BY DEF Ents
<1>1. PICK x \in Entries(d, p) :
        e = [dir |-> p, name |-> x.name, inum |-> x.inum, isdir |-> IsDir(d, x.inum)]
  BY <1>0
<1>2. PICK a : IsEntry(d, a) /\ d[a].name \notin {".", "..", Free} /\ x = d[a]
  BY DEF Entries
<1>3. a \in DOMAIN d /\ IsName(d, a)
  BY <1>2 DEF IsName, IsEntry
<1>4. e.inum = d[a].inum
  BY <1>1, <1>2
<1>5. QED BY <1>3, <1>4 DEF Live

\* The inodes a client can know of have a name on the image, or are the root.
LEMMA KnownLive ==
  ASSUME tree = TreeOf(disk)
  PROVE  Known \subseteq Live(disk)
<1>1. ASSUME NEW e \in tree.entries PROVE e.inum \in Live(disk) \cup {None}
  <2>1. e \in Ents(disk)
    BY TreeNames
  <2>2. QED BY <2>1, EntsLive
<1>2. 0 \in Live(disk)
  BY DEF Live
<1>3. QED BY <1>1, <1>2 DEF Known

\* The entries of an inode in place are the names in its blocks.
LEMMA EntriesHold ==
  ASSUME NEW d, NEW K, Sound(d, K), NEW q \in K
  PROVE  /\ \A b \in Blocks, j \in Slots :
              Blk(d, q, b) # None /\ IsName(d, Blk(d, q, b) + j) => d[Blk(d, q, b) + j] \in Entries(d, q)
         /\ \A x \in Entries(d, q) : x.name \notin {".", "..", Free} /\ Holds(d, q, x.name, x.inum)
<1>1. Inode(d, q) = d[Loc(d, q)]
  <2>1. InPlace(d, q) /\ Shaped(d)
    BY DEF Sound
  <2>2. QED BY <2>1, LocIs
<1> DEFINE addr == OwnAddr(Inode(d, q))
<1>2. ASSUME NEW b \in Blocks, NEW j \in Slots, Blk(d, q, b) # None, IsName(d, Blk(d, q, b) + j)
      PROVE  d[Blk(d, q, b) + j] \in Entries(d, q)
  <2> DEFINE m == b * DIRENTS + j
  <2>1. m \in 0..(BLOCKS * DIRENTS - 1) /\ m \div DIRENTS = b /\ m % DIRENTS = j
    BY Position
  <2>2. Inode(d, q).block_loc[b] = Blk(d, q, b)
    BY <1>1 DEF Blk
  <2> HIDE DEF m
  <2>3. m \in DOMAIN addr /\ addr[m] = Blk(d, q, b) + j
    BY <2>1, <2>2, <1>2 DEF OwnAddr
  <2> HIDE DEF addr
  <2>4. QED BY <2>3, <1>2 DEF Entries, IsName, addr
<1>3. ASSUME NEW x \in Entries(d, q)
      PROVE  x.name \notin {".", "..", Free} /\ Holds(d, q, x.name, x.inum)
  <2>1. PICK m \in DOMAIN addr : /\ IsEntry(d, addr[m]) /\ d[addr[m]].name \notin {".", "..", Free}
                                /\ x = d[addr[m]]
    BY DEF Entries
  <2> DEFINE b == m \div DIRENTS
             j == m % DIRENTS
  <2>2. b \in Blocks /\ j \in Slots
    <3>1. m \in Nat /\ m < BLOCKS * DIRENTS
      BY Constants DEF OwnAddr
    <3>2. QED BY <3>1, NextBlock
  <2>3. Blk(d, q, b) # None /\ addr[m] = Blk(d, q, b) + j
    BY <1>1 DEF OwnAddr, Blk
  <2> HIDE DEF addr, b, j
  <2>4. QED BY <2>1, <2>2, <2>3 DEF Holds
<1>4. QED BY <1>2, <1>3

\* A name in a block of a directory in place, as the entry the tree has for it.
EntryOf(d, q, a) ==
  [dir |-> q, name |-> d[a].name, inum |-> d[a].inum, isdir |-> IsDir(d, d[a].inum)]

\* A name in a block of a directory in place is in the tree's set of entries.
LEMMA CellEntry ==
  ASSUME NEW d, NEW K, Sound(d, K), NEW q \in K, IsDirAt(d, q), NEW b \in Blocks, NEW j \in Slots,
         Blk(d, q, b) # None, IsName(d, Blk(d, q, b) + j)
  PROVE  EntryOf(d, q, Blk(d, q, b) + j) \in Ents(d)
<1>1. Inode(d, q) = d[Loc(d, q)] /\ IsDir(d, q) /\ q \in Inums
  <2>1. InPlace(d, q) /\ Shaped(d)
    BY DEF Sound
  <2>2. QED BY <2>1, LocIs DEF InPlace, IsDir, IsDirAt
<1> DEFINE a == Blk(d, q, b) + j
<1>3. d[a] \in Entries(d, q)
  BY EntriesHold
<1> HIDE DEF a
<1>4. EntryOf(d, q, a) \in Ents(d)
  BY <1>1, <1>3 DEF Ents, EntryOf
<1>5. QED BY <1>4 DEF a

\* When the names are placed, each is that of a directory with a name,
LEMMA NameDir ==
  ASSUME NEW d, NEW K, Sound(d, K), Placed(d), NEW a \in DOMAIN d, IsName(d, a)
  PROVE  \E q \in Live(d) :
           /\ IsDirAt(d, q) /\ Holds(d, q, d[a].name, d[a].inum)
           /\ EntryOf(d, q, a) \in Ents(d) /\ d[a] \in Entries(d, q)
<1>1. PICK q \in Live(d), b \in Blocks, j \in Slots :
        IsDirAt(d, q) /\ Blk(d, q, b) # None /\ a = Blk(d, q, b) + j
  BY DEF Placed, IsPlaced
<1>2. q \in K
  BY DEF Sound
<1>3. EntryOf(d, q, a) \in Ents(d) /\ d[a] \in Entries(d, q)
  BY <1>1, <1>2, CellEntry, EntriesHold
<1>4. Holds(d, q, d[a].name, d[a].inum)
  BY <1>1 DEF Holds, IsName
<1>5. QED BY <1>1, <1>3, <1>4

\* the names of which are in the tree:
LEMMA DirNamed ==
  ASSUME NEW d, NEW K, Sound(d, K), Placed(d), NEW q \in Live(d), NEW x \in Ents(d), x.dir = q
  PROVE  x \in TreeOf(d).entries
<1>1. q = 0 \/ \E f \in Ents(d) : f.inum = q
  <2>1. SUFFICES ASSUME q # 0 PROVE \E f \in Ents(d) : f.inum = q
    OBVIOUS
  <2>2. PICK c \in DOMAIN d : IsName(d, c) /\ d[c].inum = q
    BY <2>1 DEF Live
  <2>3. PICK p \in Live(d) : EntryOf(d, p, c) \in Ents(d)
    BY <2>2, NameDir
  <2>4. EntryOf(d, p, c).inum = q
    BY <2>2 DEF EntryOf
  <2>5. QED BY <2>3, <2>4
<1>2. QED BY <1>1, TreeNames

\* so the tree has each name.
LEMMA NameEntry ==
  ASSUME NEW d, NEW K, Sound(d, K), Placed(d), NEW a \in DOMAIN d, IsName(d, a)
  PROVE  \E q \in Live(d) :
           /\ IsDirAt(d, q) /\ Holds(d, q, d[a].name, d[a].inum) /\ d[a] \in Entries(d, q)
           /\ EntryOf(d, q, a) \in TreeOf(d).entries
<1>1. PICK q \in Live(d) :
        /\ IsDirAt(d, q) /\ Holds(d, q, d[a].name, d[a].inum)
        /\ EntryOf(d, q, a) \in Ents(d) /\ d[a] \in Entries(d, q)
  BY NameDir
<1>2. EntryOf(d, q, a).dir = q
  BY DEF EntryOf
<1>3. EntryOf(d, q, a) \in TreeOf(d).entries
  BY <1>1, <1>2, DirNamed
<1>4. QED BY <1>1, <1>3

\* And what has a name on the image, a client can know of.
LEMMA LiveKnown ==
  ASSUME tree = TreeOf(disk), NEW K, Sound(disk, K), Placed(disk)
  PROVE  Known = Live(disk)
<1>1. ASSUME NEW k \in Live(disk), k # 0 PROVE k \in Known
  <2>1. PICK a \in DOMAIN disk : IsName(disk, a) /\ disk[a].inum = k /\ k # None
    BY <1>1 DEF Live
  <2>2. PICK q \in Live(disk) : EntryOf(disk, q, a) \in tree.entries
    BY <2>1, NameEntry
  <2>3. EntryOf(disk, q, a).inum = k
    BY <2>1 DEF EntryOf
  <2>4. QED BY <2>1, <2>2, <2>3 DEF Known
<1>2. 0 \in Known
  BY DEF Known
<1>3. QED BY <1>1, <1>2, KnownLive

\* A name in a block of a known directory is a name of the tree.
LEMMA HoldsEntry ==
  ASSUME tree = TreeOf(disk), Sound(disk, Live(disk)), NEW p \in Known, IsDirAt(disk, p),
         NEW nm, nm \notin {".", "..", Free}, NEW k, Holds(disk, p, nm, k)
  PROVE  \E e \in tree.entries : e.dir = p /\ e.name = nm /\ e.inum = k
<1>1. p \in Live(disk)
  BY KnownLive
<1>2. PICK b \in Blocks, j \in Slots :
        /\ Blk(disk, p, b) # None /\ IsEntry(disk, Blk(disk, p, b) + j)
        /\ disk[Blk(disk, p, b) + j].name = nm /\ disk[Blk(disk, p, b) + j].inum = k
  BY DEF Holds
<1> DEFINE a == Blk(disk, p, b) + j
           e == EntryOf(disk, p, a)
<1>3. e \in Ents(disk)
  BY <1>1, <1>2, CellEntry DEF IsName
<1>4. e.dir = p /\ e.name = nm /\ e.inum = k
  BY <1>2 DEF EntryOf
<1>5. p = 0 \/ \E f \in Ents(disk) : f.inum = p
  <2>1. p = 0 \/ \E f \in tree.entries : f.inum = p
    BY DEF Known
  <2>2. tree.entries \subseteq Ents(disk)
    BY TreeNames
  <2>3. QED BY <2>1, <2>2
<1> HIDE DEF e
<1>6. e \in tree.entries
  BY <1>3, <1>4, <1>5, TreeNames
<1>7. QED BY <1>4, <1>6

\* What UNLINK finds in a known directory has a number.
LEMMA NamesNumbered ==
  ASSUME tree = TreeOf(disk), Sound(disk, Live(disk)), NEW p \in Known, IsDirAt(disk, p),
         NEW nm, nm \notin {".", "..", Free},
         \A e \in tree.entries : e.dir = p /\ e.name = nm => e.inum # None
  PROVE  Numbered(disk, p, nm)
<1>1. SUFFICES ASSUME NEW b \in Blocks, NEW j \in Slots, Blk(disk, p, b) # None,
                      IsEntry(disk, Blk(disk, p, b) + j), disk[Blk(disk, p, b) + j].name = nm
               PROVE  disk[Blk(disk, p, b) + j].inum # None
  BY DEF Numbered
<1>2. Holds(disk, p, nm, disk[Blk(disk, p, b) + j].inum)
  BY <1>1 DEF Holds
<1>3. QED BY <1>2, HoldsEntry

-----------------------------------------------------------------------------
(* The inductive invariant: the writes of the call that is served lead from *)
(* the image to a sound one over sound ones, and so does any end of them;   *)
(* they change what no file holds but the one the call is about; the names  *)
(* of directories stay unique, and the size of each covers its entries all  *)
(* along, until an UNLINK. All this ends where UNLINK makes a stray write.  *)

\* Directories whose size need not cover their entries; None is among them when a
\* call relied on one.
Off == (shrunk \ {None}) \cup (IF spoiled THEN {None} ELSE {})

\* What call c, answered r, is to have done on image d. CREAT does nothing when
\* LOOKUP finds the name, in the directory or outside it.
Did(d, c, r, U) ==
  \/ None \in U \/ r # 0
  \/ /\ c.lib = "CREAT" /\ c.name \in Names
     /\ Stores(d, c.inum, c.name) \/ (c.inum \in Live(d) /\ Exists(d, c.inum, c.name))
  \/ c.lib = "WRITE" /\ Wrote(d, c.inum, c.data, c.block)
  \/ c.lib = "UNLINK" /\ c.name \in Names /\ Lacks(d, c.inum, c.name)

\* What the writes s that are left of call c do.
Onward(d, s, c, r, U) ==
  \/ \E e : Leads(d, s, e, {}, U) /\ (c = Idle \/ Did(e, c, r, U))
  \/ c.lib = "WRITE" /\ \E e : Leads(d, s, e, Only(c.inum, c.block), U) /\ Did(e, c, r, U)
  \/ /\ c.lib = "UNLINK" /\ c.name \in Names
     /\ \E x \in TreeOf(d).entries :
          x.dir = c.inum /\ x.name = c.name /\ Removes(d, s, x.inum, U, c.inum, c.name)
LeadOn == Onward(disk, todo, call, ret, Off)

Orderly ==
  /\ tree = TreeOf(disk)
  /\ call = Idle => todo = <<>>
  /\ LeadOn

\* So until an UNLINK makes a stray write.
IInv == Stray \/ Orderly

\* The first write of UNLINK, and those that are left then.
LEMMA RemovesStep ==
  ASSUME NEW d, NEW s, NEW k, NEW U, NEW p, NEW nm, Removes(d, s, k, U, p, nm)
  PROVE  /\ s # <<>> /\ Well(d, U)
         /\ \E f : /\ Leads(Put(d, Head(s)[1], Head(s)[2]), Tail(s), f, {}, U)
                   /\ None \in U \/ Lacks(f, p, nm)
         /\ Goes(d, Put(d, Head(s)[1], Head(s)[2]), Only(k, 0), U)
<1>1. PICK w, t, e, f : /\ s = <<w>> \o t /\ Leads(d, <<w>>, e, Only(k, 0), U) /\ Leads(e, t, f, {}, U)
                        /\ None \in U \/ Lacks(f, p, nm)
  BY DEF Removes
<1>2. PICK S : t \in Seq(S)
  BY <1>1 DEF Leads
<1>3. s # <<>> /\ Head(s) = w /\ Tail(s) = t
  <2>1. t \in Seq(S \cup {w})
    BY <1>2
  <2>2. QED BY <2>1, <1>1
<1>4. <<w>> # <<>> /\ Head(<<w>>) = w /\ Tail(<<w>>) = <<>>
  OBVIOUS
<1> DEFINE d1 == Put(d, w[1], w[2])
<1>5. Leads(d1, <<>>, e, Only(k, 0), U) /\ Goes(d, d1, Only(k, 0), U)
  <2> DEFINE u == <<w>>
  <2>1. Leads(d, u, e, Only(k, 0), U) /\ u # <<>> /\ Head(u) = w /\ Tail(u) = <<>>
    BY <1>1, <1>4
  <2> HIDE DEF u
  <2>2. QED BY <2>1, LeadsStep
<1> HIDE DEF d1
<1>6. e = d1 /\ Well(d, U)
  BY <1>1, <1>5, LeadsSound
<1>7. QED BY <1>1, <1>3, <1>5, <1>6 DEF d1

\* The image is well on the way.
LEMMA OnwardWell ==
  ASSUME NEW d, NEW s, NEW c, NEW r, NEW U, Onward(d, s, c, r, U)
  PROVE  Well(d, U)
BY LeadsSound, RemovesStep DEF Onward

\* It gives what the properties need: everything named is in place.
LEMMA InvSound ==
  ASSUME Orderly
  PROVE  /\ Well(disk, Off) /\ Sound(disk, Live(disk))
         /\ Known \subseteq Live(disk) /\ tree = TreeOf(disk)
<1>1. Well(disk, Off)
  BY OnwardWell DEF Orderly, LeadOn
<1>2. QED BY <1>1, KnownLive DEF Orderly, Well

\* What a write on the way keeps.
Kept(d, e, c, U) ==
  \/ Goes(d, e, {}, U)
  \/ c.lib = "WRITE" /\ Goes(d, e, Only(c.inum, c.block), U)
  \/ /\ c.lib = "UNLINK"
     /\ \E x \in TreeOf(d).entries :
          x.dir = c.inum /\ x.name = c.name /\ Goes(d, e, Only(x.inum, 0), U)

\* A write on the way.
LEMMA WriteOn ==
  ASSUME NEW d, NEW s, s # <<>>, NEW c, c # Idle, NEW r, NEW U, Onward(d, s, c, r, U)
  PROVE  /\ Onward(Put(d, Head(s)[1], Head(s)[2]), Tail(s), c, r, U)
         /\ Kept(d, Put(d, Head(s)[1], Head(s)[2]), c, U)
<1> DEFINE d1 == Put(d, Head(s)[1], Head(s)[2])
           t  == Tail(s)
<1>1. CASE \E e : Leads(d, s, e, {}, U) /\ (c = Idle \/ Did(e, c, r, U))
  <2>1. PICK e : Leads(d, s, e, {}, U) /\ Did(e, c, r, U)
    BY <1>1
  <2>2. Leads(d1, t, e, {}, U) /\ Goes(d, d1, {}, U)
    BY <2>1, LeadsStep
  <2>3. QED BY <2>1, <2>2 DEF Onward, Kept
<1>2. CASE c.lib = "WRITE" /\ \E e : Leads(d, s, e, Only(c.inum, c.block), U) /\ Did(e, c, r, U)
  <2>1. PICK e : Leads(d, s, e, Only(c.inum, c.block), U) /\ Did(e, c, r, U)
    BY <1>2
  <2>2. Leads(d1, t, e, Only(c.inum, c.block), U) /\ Goes(d, d1, Only(c.inum, c.block), U)
    BY <2>1, LeadsStep
  <2>3. QED BY <2>1, <2>2, <1>2 DEF Onward, Kept
<1>3. CASE /\ c.lib = "UNLINK" /\ c.name \in Names
           /\ \E x \in TreeOf(d).entries :
                x.dir = c.inum /\ x.name = c.name /\ Removes(d, s, x.inum, U, c.inum, c.name)
  <2>1. PICK x \in TreeOf(d).entries :
          x.dir = c.inum /\ x.name = c.name /\ Removes(d, s, x.inum, U, c.inum, c.name)
    BY <1>3
  <2>2. /\ \E f : Leads(d1, t, f, {}, U) /\ (None \in U \/ Lacks(f, c.inum, c.name))
        /\ Goes(d, d1, Only(x.inum, 0), U)
    BY <2>1, RemovesStep
  <2>3. \E f : Leads(d1, t, f, {}, U) /\ Did(f, c, r, U)
    BY <2>2, <1>3 DEF Did
  <2>4. QED BY <2>1, <2>2, <2>3, <1>3 DEF Onward, Kept
<1>4. QED BY <1>1, <1>2, <1>3 DEF Onward

\* It is one of those left.
LEMMA WriteStep ==
  ASSUME Orderly, DiskWrite
  PROVE  Orderly' /\ Kept(disk, disk', call, Off)
<1>1. /\ todo # <<>> /\ disk' = Put(disk, Head(todo)[1], Head(todo)[2])
      /\ tree' = TreeOf(disk') /\ todo' = Tail(todo)
      /\ call' = call /\ ret' = ret /\ shrunk' = shrunk /\ spoiled' = spoiled
  BY DEF DiskWrite
<1>2. call # Idle
  BY <1>1 DEF Orderly
<1>3. Off' = Off
  BY <1>1 DEF Off
<1>4. /\ Onward(Put(disk, Head(todo)[1], Head(todo)[2]), Tail(todo), call, ret, Off)
      /\ Kept(disk, Put(disk, Head(todo)[1], Head(todo)[2]), call, Off)
  BY <1>1, <1>2, WriteOn DEF Orderly, LeadOn
<1>5. LeadOn'
  BY <1>1, <1>3, <1>4 DEF LeadOn
<1>6. QED BY <1>1, <1>2, <1>4, <1>5 DEF Orderly

\* The first server makes the image.
LEMMA InitInv == Init => Orderly
<1> SUFFICES ASSUME Init PROVE Orderly
  OBVIOUS
<1>1. Leads(Image, <<>>, Image, {}, {})
  BY ImageWell, LeadsNone
<1>2. Off = {}
  BY DEF Init, Off
<1>3. QED BY <1>1, <1>2 DEF Init, Orderly, LeadOn, Onward

\* A call is taken whose writes lead on.
LEMMA ServeInv ==
  ASSUME Orderly, NEW c, NEW r, Serve(c, r), c.lib # "IDLE", Onward(disk, r.writes, c, r.ret, Off')
  PROVE  Orderly'
<1>1. disk' = disk /\ tree' = tree /\ todo' = r.writes /\ call' = c /\ ret' = r.ret
  BY DEF Serve
<1>2. call' # Idle
  BY <1>1 DEF Idle
<1>3. LeadOn'
  BY <1>1 DEF LeadOn
<1>4. tree' = TreeOf(disk')
  BY <1>1 DEF Orderly
<1>5. QED BY <1>2, <1>3, <1>4 DEF Orderly

\* The image is as good then: what need not be covered has only become more.
LEMMA ServeOff ==
  ASSUME Orderly, NEW c, NEW r, Serve(c, r)
  PROVE  /\ Well(disk, Off') /\ Off \subseteq Off'
         /\ None \in Off' \/ Sized(c) \cap shrunk = {}
<1>1. /\ shrunk' = IF c.lib = "UNLINK" /\ r.writes # <<>> THEN shrunk \cup {c.inum} \cup Sized(c) ELSE shrunk
      /\ spoiled' = (spoiled \/ Sized(c) \cap shrunk # {})
  BY DEF Serve
<1>2. Off \subseteq Off'
  BY <1>1 DEF Off
<1>3. Well(disk, Off')
  BY <1>2, InvSound, FineLess DEF Well
<1>4. None \in Off' \/ Sized(c) \cap shrunk = {}
  BY <1>1 DEF Off
<1>5. QED BY <1>2, <1>3, <1>4

\* Every action keeps the invariant: CREAT,
LEMMA CreatInv ==
  ASSUME Orderly, NEW p \in Known, NEW type \in {MFS_DIRECTORY, MFS_REGULAR_FILE}, NEW nm \in Names,
         Creat(p, type, nm)
  PROVE  Orderly'
<1> DEFINE c == [lib |-> "CREAT", inum |-> p, type |-> type, name |-> nm]
           r == server_create(disk, p, type, nm)
<1>1. Serve(c, r) /\ c.lib = "CREAT" /\ c.inum = p /\ c.name = nm /\ Sized(c) = {p}
  BY DEF Creat, Sized
<1>2. p \in Live(disk) /\ p # None /\ tree = TreeOf(disk) /\ Sound(disk, Live(disk))
  <2>1. /\ p \in Live(disk) /\ tree = TreeOf(disk) /\ Sound(disk, Live(disk))
    BY InvSound
  <2>2. QED BY <2>1, Facts DEF Inums, None
<1> HIDE DEF c
<1>3. Well(disk, Off') /\ (None \in Off' \/ p \notin Off')
  <2>1. Well(disk, Off') /\ (None \in Off' \/ p \notin shrunk)
    BY <1>1, ServeOff
  <2>2. shrunk' = shrunk
    BY <1>1 DEF Serve
  <2>3. p \in Off' => p \in shrunk
    BY <1>2, <2>2 DEF Off
  <2>4. QED BY <2>1, <2>3
<1>4. PICK f : /\ Leads(disk, r.writes, f, {}, Off')
               /\ r.ret = 0 => (Exists(disk, p, nm) /\ f = disk) \/ None \in Off' \/ Stores(f, p, nm)
  <2>1. ASSUME NEW V, V = Off'
        PROVE  \E f : /\ Leads(disk, r.writes, f, {}, V)
                      /\ r.ret = 0 => (Exists(disk, p, nm) /\ f = disk) \/ None \in V \/ Stores(f, p, nm)
    BY <2>1, <1>2, <1>3, CreateLeads
  <2>2. QED BY <2>1
<1> HIDE DEF r
<1>6. Did(f, c, r.ret, Off')
  BY <1>1, <1>2, <1>4 DEF Did
<1>7. Onward(disk, r.writes, c, r.ret, Off')
  BY <1>4, <1>6 DEF Onward
<1>8. QED BY <1>1, <1>7, ServeInv

\* WRITE,
LEMMA WriteInv ==
  ASSUME Orderly, NEW k \in Known, NEW v \in Data, NEW b \in Blocks, Write(k, v, b)
  PROVE  Orderly'
<1> DEFINE c == [lib |-> "WRITE", inum |-> k, block |-> b, data |-> v]
           r == server_write(disk, k, v, b)
<1>1. Serve(c, r) /\ c.lib = "WRITE" /\ c.inum = k /\ c.block = b /\ c.data = v
  BY DEF Write
<1> HIDE DEF c
<1>2. k \in Live(disk) /\ Well(disk, Off')
  BY <1>1, InvSound, ServeOff
<1>3. PICK e : /\ Leads(disk, r.writes, e, Only(k, b), Off')
               /\ r.ret = 0 => None \in Off' \/ Wrote(e, k, v, b)
  <2>1. ASSUME NEW V, V = Off'
        PROVE  \E e : /\ Leads(disk, r.writes, e, Only(k, b), V)
                      /\ r.ret = 0 => None \in V \/ Wrote(e, k, v, b)
    BY <2>1, <1>2, WriteLeads
  <2>2. QED BY <2>1
<1> HIDE DEF r
<1>4. Did(e, c, r.ret, Off')
  BY <1>1, <1>3 DEF Did
<1>5. Onward(disk, r.writes, c, r.ret, Off')
  BY <1>1, <1>3, <1>4 DEF Onward
<1>6. QED BY <1>1, <1>5, ServeInv

\* UNLINK,
LEMMA UnlinkInv ==
  ASSUME Orderly, NEW p \in Known, NEW nm \in Names, Unlink(p, nm)
  PROVE  Orderly'
<1> DEFINE c == [lib |-> "UNLINK", inum |-> p, name |-> nm]
           V == Off' \cup {p} \cup Sized(c)
<1>15. PICK r \in server_unlink(disk, p, nm) : Serve(c, r)
  BY DEF Unlink
<1>1. /\ Serve(c, r) /\ c.lib = "UNLINK" /\ c.inum = p /\ c.name = nm
      /\ Sized(c) = {e.inum : e \in {e \in tree.entries : e.dir = p /\ e.name = nm}}
      /\ \A e \in tree.entries : e.dir = p /\ e.name = nm => e.inum # None
  BY <1>15 DEF Unlink, HasNumber, Sized
<1> HIDE DEF c
<1>2. /\ p \in Live(disk) /\ p # None /\ tree = TreeOf(disk) /\ Sound(disk, Live(disk))
      /\ Known \subseteq Live(disk) /\ Well(disk, Off)
  <2>1. /\ p \in Live(disk) /\ tree = TreeOf(disk) /\ Sound(disk, Live(disk))
        /\ Known \subseteq Live(disk) /\ Well(disk, Off)
    BY InvSound
  <2>2. QED BY <2>1, Facts DEF Inums, None
<1>3. nm \notin {".", "..", Free}
  BY LogAssumption DEF Free
<1>4. IsDirAt(disk, p) => Numbered(disk, p, nm)
  BY <1>1, <1>2, <1>3, NamesNumbered
<1>5. Well(disk, Off') /\ Off \subseteq Off' /\ (None \in Off' \/ Sized(c) \cap shrunk = {})
  BY <1>1, ServeOff
<1>6. None \notin Sized(c) /\ Off' \subseteq V /\ p \in V /\ Sized(c) \subseteq V /\ (None \in V <=> None \in Off')
  BY <1>1, <1>2
<1>7. r.writes # <<>> => V = Off'
  <2>1. r.writes # <<>> => shrunk' = shrunk \cup {p} \cup Sized(c)
    BY <1>1 DEF Serve
  <2>2. QED BY <2>1, <1>2, <1>6 DEF Off
<1> HIDE DEF V
<1>8. ASSUME NEW k, Holds(disk, p, nm, k), IsDirAt(disk, p)
      PROVE  \E x \in tree.entries : x.dir = p /\ x.name = nm /\ x.inum = k
  BY <1>2, <1>3, <1>8, HoldsEntry
<1>9. IsDirAt(disk, p) => Within(disk, p, nm, V)
  <2> SUFFICES ASSUME IsDirAt(disk, p), NEW k, Holds(disk, p, nm, k)
               PROVE  k \in V /\ (None \in V \/ Covered(disk, k))
    BY DEF Within
  <2>1. PICK x \in tree.entries : x.dir = p /\ x.name = nm /\ x.inum = k
    BY <1>8
  <2>2. k \in Sized(c) /\ k # None
    BY <2>1, <1>1
  <2>3. k \in Live(disk)
    BY <2>1, <2>2, <1>2 DEF Known
  <2>4. None \in Off' \/ k \notin Off
    BY <2>2, <1>5 DEF Off
  <2>5. None \in Off' \/ Covered(disk, k)
    BY <2>3, <2>4, <1>2 DEF Well, Fine, Covers
  <2>6. QED BY <2>2, <2>5, <1>6
<1>10. Well(disk, V)
  BY <1>5, <1>6, FineLess DEF Well
<1>11. \/ r.writes = <<>> /\ (r.ret = 0 => Lacks(disk, p, nm))
       \/ \E k : Holds(disk, p, nm, k) /\ IsDirAt(disk, p) /\ Removes(disk, r.writes, k, V, p, nm)
  <2>1. CASE IsDirAt(disk, p)
    BY <2>1, <1>2, <1>3, <1>4, <1>6, <1>9, <1>10, UnlinkLeads
  <2>2. CASE ~IsDirAt(disk, p)
    <3>1. ~IsDir(disk, p)
      <4>1. InPlace(disk, p) /\ Shaped(disk)
        BY <1>2 DEF Sound
      <4>2. QED BY <2>2, <4>1, LocIs DEF IsDir, IsDirAt
    <3>2. QED BY <3>1 DEF server_unlink, Reply, None
  <2>3. QED BY <2>1, <2>2
<1>12. CASE r.writes = <<>> /\ (r.ret = 0 => Lacks(disk, p, nm))
  <2>1. Leads(disk, r.writes, disk, {}, Off')
    <3>1. ASSUME NEW W, W = Off' PROVE Leads(disk, <<>>, disk, {}, W)
      BY <3>1, <1>5, LeadsNone
    <3>2. QED BY <3>1, <1>12
  <2>2. Did(disk, c, r.ret, Off')
    BY <1>1, <1>12 DEF Did
  <2>3. Onward(disk, r.writes, c, r.ret, Off')
    BY <2>1, <2>2 DEF Onward
  <2>4. QED BY <2>3, <1>1, ServeInv
<1>13. CASE \E k : Holds(disk, p, nm, k) /\ IsDirAt(disk, p) /\ Removes(disk, r.writes, k, V, p, nm)
  <2>1. PICK k : Holds(disk, p, nm, k) /\ IsDirAt(disk, p) /\ Removes(disk, r.writes, k, V, p, nm)
    BY <1>13
  <2>2. r.writes # <<>>
    BY <2>1, RemovesStep
  <2>3. PICK x \in tree.entries : x.dir = p /\ x.name = nm /\ x.inum = k
    BY <2>1, <1>8
  <2>4. V = Off'
    BY <2>2, <1>7
  <2>5. Onward(disk, r.writes, c, r.ret, V)
    BY <2>1, <2>3, <1>1, <1>2 DEF Onward
  <2>6. QED BY <2>4, <2>5, <1>1, ServeInv
<1>14. QED BY <1>11, <1>12, <1>13

\* and the steps of the server's process.
LEMMA NextInv == IInv /\ [Next]_vars => IInv'
<1> SUFFICES ASSUME IInv, [Next]_vars PROVE IInv'
  OBVIOUS
<1>1. CASE Stray
  <2>1. call # Idle /\ call' = call
    <3>1. call # Idle
      BY <1>1 DEF Stray, Idle
    <3>2. QED BY <3>1, <1>1 DEF Next, Creat, Write, Unlink, StrayUnlink, Serve, DiskWrite, Answer, Crash, vars
  <2>2. QED BY <2>1, <1>1 DEF IInv, Stray
<1>2. CASE Orderly
  <2>1. Well(disk, Off) /\ tree = TreeOf(disk)
    BY <1>2, InvSound
  <2>2. ASSUME NEW p \in Known, NEW type \in {MFS_DIRECTORY, MFS_REGULAR_FILE}, NEW nm \in Names,
               Creat(p, type, nm)
        PROVE  Orderly'
    BY <1>2, <2>2, CreatInv
  <2>3. ASSUME NEW k \in Known, NEW v \in Data, NEW b \in Blocks, Write(k, v, b)
        PROVE  Orderly'
    BY <1>2, <2>3, WriteInv
  <2>4. ASSUME NEW p \in Known, NEW nm \in Names, Unlink(p, nm)
        PROVE  Orderly'
    BY <1>2, <2>4, UnlinkInv
  <2>5. ASSUME NEW p \in Known, NEW nm \in Names, StrayUnlink(p, nm)
        PROVE  Stray'
    BY <2>5 DEF StrayUnlink, Serve, Stray
  <2>6. ASSUME DiskWrite PROVE Orderly'
    BY <1>2, <2>6, WriteStep
  <2>7. ASSUME Answer \/ Crash PROVE Orderly'
    <3>1. /\ disk' = disk /\ tree' = tree /\ todo' = <<>> /\ shrunk' = shrunk /\ spoiled' = spoiled
          /\ call' = Idle /\ ret' = ret
      BY <2>7 DEF Answer, Crash
    <3>2. Leads(disk, <<>>, disk, {}, Off) /\ Off' = Off
      BY <3>1, <2>1, LeadsNone DEF Off
    <3>3. LeadOn'
      BY <3>1, <3>2 DEF LeadOn, Onward
    <3>4. QED BY <3>1, <3>3, <2>1 DEF Orderly
  <2>8. CASE UNCHANGED vars
    <3>1. /\ disk' = disk /\ tree' = tree /\ todo' = todo /\ shrunk' = shrunk /\ spoiled' = spoiled
          /\ call' = call /\ ret' = ret
      BY <2>8 DEF vars
    <3>2. Off' = Off
      BY <3>1 DEF Off
    <3>3. Orderly'
      BY <1>2, <3>1, <3>2 DEF Orderly, LeadOn
    <3>4. QED BY <3>3 DEF IInv
  <2>9. Next => Orderly' \/ Stray'
    BY <2>2, <2>3, <2>4, <2>5, <2>6, <2>7 DEF Next
  <2>10. QED BY <2>8, <2>9 DEF IInv
<1>3. QED BY <1>1, <1>2 DEF IInv

\* In every state before an UNLINK makes a stray write the image is sound for the
\* inodes that have a name, and the writes that are left lead to one that is.
THEOREM Invariance == Spec => []IInv
<1>1. Init => IInv
  BY InitInv DEF IInv
<1>2. IInv /\ [Next]_vars => IInv'
  BY NextInv
<1>3. QED BY <1>1, <1>2, PTL DEF Spec

-----------------------------------------------------------------------------
(* The properties                                                          *)

\* Whatever a crash interrupted, server_lookup's numbers lead to an inode on
\* disk below the end of the log, until an UNLINK makes a stray write.
THEOREM NamesAlwaysResolve == Spec => []NamesResolve
<1>1. Orderly => NamesResolve
  <2> SUFFICES ASSUME Orderly, NEW k \in Known
               PROVE  IsInode(disk, k) /\ InodeLoc(disk)[k] < CR(disk).end
    BY DEF NamesResolve
  <2>1. InPlace(disk, k) /\ Shaped(disk)
    BY InvSound DEF Sound
  <2>2. InodeLoc(disk)[k] = Loc(disk, k) /\ IsInode(disk, k)
    BY <2>1, LocIs
  <2>3. Loc(disk, k) < CR(disk).end
    BY <2>1 DEF InPlace, Shaped
  <2>4. QED BY <2>2, <2>3
<1>2. Stray => NamesResolve
  BY DEF NamesResolve
<1>3. QED BY <1>1, <1>2, Invariance, PTL DEF IInv

\* The cells of an inode: its own and those of its blocks.
LEMMA ExtentIs ==
  ASSUME Shaped(disk), NEW k, InPlace(disk, k), NEW a \in Extent(k)
  PROVE  \/ a = Loc(disk, k)
         \/ \E b \in Blocks : Blk(disk, k, b) # None /\ a \in Blk(disk, k, b)..(Blk(disk, k, b) + DIRENTS - 1)
<1>1. InodeLoc(disk)[k] = Loc(disk, k) /\ Inode(disk, k) = disk[Loc(disk, k)]
  BY LocIs
<1>2. QED BY <1>1 DEF Extent, Blk

\* The log never gives out a cell twice to inodes that have a name, nor to one
\* of them and the map; until an UNLINK makes a stray write.
THEOREM NamedDisjoint == Spec => []Disjoint
<1>1. Orderly => Disjoint
  <2> SUFFICES ASSUME Orderly PROVE Disjoint
    OBVIOUS
  <2>1. Sound(disk, Live(disk)) /\ Known \subseteq Live(disk)
    BY InvSound
  <2>2. DIRENTS \in Nat /\ CR(disk).end \in Nat
    BY <2>1, Facts, Constants
  <2>3. ASSUME NEW k \in Known PROVE InPlace(disk, k) /\ Shaped(disk) /\ k \in Live(disk)
    BY <2>1 DEF Sound
  <2>4. ASSUME NEW k \in Known, NEW b \in Blocks, Blk(disk, k, b) # None
        PROVE  Blk(disk, k, b) \in Nat /\ Blk(disk, k, b) > 0
    BY <2>1, <2>2, <2>4, Facts
  <2>5. ASSUME NEW k \in Known PROVE Loc(disk, k) \in Nat /\ Loc(disk, k) > 0
    BY <2>1, <2>2, Facts
  <2>6. ASSUME NEW k \in Known, NEW l \in Known, k # l, NEW a, a \in Extent(k), a \in Extent(l)
        PROVE  FALSE
    <3>1. \/ a = Loc(disk, k)
          \/ \E b \in Blocks : Blk(disk, k, b) # None /\ a \in Blk(disk, k, b)..(Blk(disk, k, b) + DIRENTS - 1)
      BY <2>3, <2>6, ExtentIs
    <3>2. \/ a = Loc(disk, l)
          \/ \E b \in Blocks : Blk(disk, l, b) # None /\ a \in Blk(disk, l, b)..(Blk(disk, l, b) + DIRENTS - 1)
      BY <2>3, <2>6, ExtentIs
    <3>3. k \in Live(disk) /\ l \in Live(disk) /\ Separate(disk, Live(disk))
      BY <2>1 DEF Sound
    <3>4. /\ Loc(disk, k) # Loc(disk, l)
          /\ \A b \in Blocks : Blk(disk, l, b) # None => Outside(Loc(disk, k), Blk(disk, l, b))
          /\ \A b \in Blocks : Blk(disk, k, b) # None => Outside(Loc(disk, l), Blk(disk, k, b))
          /\ \A b, c \in Blocks : Blk(disk, k, b) # None /\ Blk(disk, l, c) # None =>
               Blk(disk, k, b) + DIRENTS <= Blk(disk, l, c) \/ Blk(disk, l, c) + DIRENTS <= Blk(disk, k, b)
      BY <2>6, <3>3 DEF Separate
    <3>5. CASE a = Loc(disk, k)
      BY <2>2, <2>4, <2>5, <3>2, <3>4, <3>5 DEF Outside
    <3>6. CASE \E b \in Blocks : Blk(disk, k, b) # None /\ a \in Blk(disk, k, b)..(Blk(disk, k, b) + DIRENTS - 1)
      <4>1. PICK b \in Blocks : Blk(disk, k, b) # None /\ a \in Blk(disk, k, b)..(Blk(disk, k, b) + DIRENTS - 1)
        BY <3>6
      <4>2. CASE a = Loc(disk, l)
        BY <2>2, <2>4, <2>5, <3>4, <4>1, <4>2 DEF Outside
      <4>3. CASE \E c \in Blocks : Blk(disk, l, c) # None /\ a \in Blk(disk, l, c)..(Blk(disk, l, c) + DIRENTS - 1)
        <5>1. PICK c \in Blocks : Blk(disk, l, c) # None /\ a \in Blk(disk, l, c)..(Blk(disk, l, c) + DIRENTS - 1)
          BY <4>3
        <5>2. Blk(disk, k, b) \in Nat /\ Blk(disk, l, c) \in Nat
          BY <2>4, <4>1, <5>1
        <5>3. QED BY <2>2, <3>4, <4>1, <5>1, <5>2
      <4>4. QED BY <3>2, <4>2, <4>3
    <3>7. QED BY <3>1, <3>5, <3>6
  <2>7. ASSUME NEW k \in Known, NEW a, a \in Extent(k), a \in MapCells \cup {0}
        PROVE  FALSE
    <3>1. \/ a = Loc(disk, k)
          \/ \E b \in Blocks : Blk(disk, k, b) # None /\ a \in Blk(disk, k, b)..(Blk(disk, k, b) + DIRENTS - 1)
      BY <2>3, <2>7, ExtentIs
    <3>2. k \in Live(disk) /\ Separate(disk, Live(disk))
      BY <2>1 DEF Sound
    <3>3. CASE a = 0
      BY <2>2, <2>4, <2>5, <3>1, <3>3
    <3>4. CASE a \in MapCells
      <4>1. PICK m \in Pieces : CR(disk).imap[m] # None /\ a = CR(disk).imap[m]
        BY <3>4 DEF MapCells, Pieces
      <4>2. /\ Loc(disk, k) # a
            /\ \A b \in Blocks : Blk(disk, k, b) # None => Outside(a, Blk(disk, k, b))
        BY <3>2, <4>1 DEF Separate
      <4>3. QED BY <2>2, <2>4, <3>1, <4>2 DEF Outside
    <3>5. QED BY <2>7, <3>3, <3>4
  <2>8. QED BY <2>6, <2>7 DEF Disjoint
<1>2. Stray => Disjoint
  BY DEF Disjoint
<1>3. QED BY <1>1, <1>2, Invariance, PTL DEF IInv

\* The content of the tree is what the blocks of files on the image hold.
LEMMA ContentIs ==
  ASSUME NEW d, Sound(d, Live(d)), NEW x \in DOMAIN TreeOf(d).content
  PROVE  \E k \in Live(d), b \in Blocks :
           /\ x = <<k, b>> /\ ~IsDirAt(d, k) /\ Blk(d, k, b) # None
           /\ TreeOf(d).content[x] = BlockAt(d, Blk(d, k, b))
<1> DEFINE named == TreeOf(d).entries
           files == {e.inum : e \in {e \in named : IsFile(d, e.inum)}}
           blks  == UNION {{<<k, b>> : b \in {b \in Blocks : Inode(d, k).block_loc[b] # None}} : k \in files}
<1>1. TreeOf(d).content = [z \in blks |-> BlockAt(d, Inode(d, z[1]).block_loc[z[2]])]
  BY DEF TreeOf
<1> HIDE DEF named
<1>2. PICK k \in files : x \in {<<k, b>> : b \in {b \in Blocks : Inode(d, k).block_loc[b] # None}}
  BY <1>1
<1>3. PICK b \in Blocks : x = <<k, b>> /\ Inode(d, k).block_loc[b] # None
  BY <1>2
<1>4. PICK e \in named : k = e.inum /\ IsFile(d, e.inum)
  BY <1>2
<1>5. k \in Live(d)
  <2>1. e \in Ents(d)
    BY <1>4, TreeNames DEF named
  <2>2. k \in Live(d) \cup {None}
    BY <2>1, <1>4, EntsLive
  <2>3. None \notin Inums
    BY DEF None, Inums
  <2>4. QED BY <2>2, <2>3, <1>4 DEF IsFile, IsInode
<1>6. Inode(d, k) = d[Loc(d, k)]
  <2>1. InPlace(d, k) /\ Shaped(d)
    BY <1>5 DEF Sound
  <2>2. QED BY <2>1, LocIs
<1>7. ~IsDirAt(d, k)
  BY <1>4, <1>6 DEF IsFile, IsDirAt, MFS_DIRECTORY, MFS_REGULAR_FILE
<1>8. Blk(d, k, b) = Inode(d, k).block_loc[b]
  BY <1>6 DEF Blk
<1>9. TreeOf(d).content[x] = BlockAt(d, Inode(d, x[1]).block_loc[x[2]])
  BY <1>1
<1>10. x[1] = k /\ x[2] = b
  BY <1>3
<1>11. QED BY <1>3, <1>5, <1>7, <1>8, <1>9, <1>10

\* A write that keeps every file but X changes no other content of the tree.
LEMMA KeptContent ==
  ASSUME NEW d, NEW e, NEW X, Sound(d, Live(d)), Sound(e, Live(e)), Keeps(d, e, Live(d), X),
         NEW x \in DOMAIN TreeOf(d).content, x \in DOMAIN TreeOf(e).content, x \notin X
  PROVE  TreeOf(e).content[x] = TreeOf(d).content[x]
<1>1. PICK k \in Live(d), b \in Blocks :
        /\ x = <<k, b>> /\ ~IsDirAt(d, k) /\ Blk(d, k, b) # None
        /\ TreeOf(d).content[x] = BlockAt(d, Blk(d, k, b))
  BY ContentIs
<1>2. PICK l \in Live(e), c \in Blocks :
        x = <<l, c>> /\ TreeOf(e).content[x] = BlockAt(e, Blk(e, l, c))
  BY ContentIs
<1>3. l = k /\ c = b
  BY <1>1, <1>2
<1>4. Blk(e, k, b) = Blk(d, k, b) /\ BlockAt(e, Blk(d, k, b)) = BlockAt(d, Blk(d, k, b))
  BY <1>1 DEF Keeps
<1>5. QED BY <1>1, <1>2, <1>3, <1>4

\* No call changes what a file with a name holds, but a WRITE in the block it
\* writes, an UNLINK in the file it removes and an UNLINK's stray write; nor does
\* a crash.
THEOREM NamedContentKept == Spec => ContentKept
<1> DEFINE Mine(x) ==
      \/ call.lib = "WRITE" /\ x = <<call.inum, call.block>>
      \/ call.lib = "UNLINK" /\ \E e \in tree.entries :
           e.dir = call.inum /\ e.name = call.name /\ e.inum = x[1]
      \/ Stray
<1>1. ASSUME Orderly, [Next]_vars,
             NEW x \in DOMAIN tree.content \cap DOMAIN tree'.content,
             tree'.content[x] # tree.content[x]
      PROVE  Mine(x)
  <2>1. DiskWrite
    <3>1. tree' # tree
      BY <1>1
    <3>2. QED BY <3>1, <1>1 DEF Next, Creat, Write, Unlink, StrayUnlink, Serve, Answer, Crash, vars
  <2>9. Orderly' /\ Kept(disk, disk', call, Off)
    BY <1>1, <2>1, WriteStep
  <2>2. /\ tree = TreeOf(disk) /\ Sound(disk, Live(disk))
        /\ tree' = TreeOf(disk') /\ Sound(disk', Live(disk'))
    <3>1. Sound(disk, Live(disk)) /\ tree = TreeOf(disk)
      BY <1>1, InvSound
    <3>2. Sound(disk', Live(disk')) /\ tree' = TreeOf(disk')
      BY <2>9, OnwardWell DEF Orderly, LeadOn, Well
    <3>3. QED BY <3>1, <3>2
  <2>3. ASSUME NEW X, Keeps(disk, disk', Live(disk), X)
        PROVE  x \in X
    BY <1>1, <2>2, <2>3, KeptContent
  <2>4. CASE Goes(disk, disk', {}, Off)
    BY <2>3, <2>4 DEF Goes
  <2>5. CASE call.lib = "WRITE" /\ Goes(disk, disk', Only(call.inum, call.block), Off)
    BY <2>3, <2>5 DEF Only, Goes
  <2>6. CASE /\ call.lib = "UNLINK"
             /\ \E e \in tree.entries : /\ e.dir = call.inum /\ e.name = call.name
                                       /\ Goes(disk, disk', Only(e.inum, 0), Off)
    <3>1. PICK e \in tree.entries : /\ e.dir = call.inum /\ e.name = call.name
                                    /\ Goes(disk, disk', Only(e.inum, 0), Off)
      BY <2>6
    <3>2. x = <<e.inum, 0>>
      BY <2>3, <3>1 DEF Only, Goes
    <3>3. QED BY <2>6, <3>1, <3>2
  <2>8. QED BY <2>2, <2>4, <2>5, <2>6, <2>9 DEF Kept
<1>2. IInv /\ [Next]_vars =>
        \A x \in DOMAIN tree.content \cap DOMAIN tree'.content :
          tree'.content[x] # tree.content[x] => Mine(x)
  BY <1>1 DEF IInv
<1>3. QED BY <1>2, Invariance, PTL DEF Spec, ContentKept

\* The size of a directory is never below the slots its entries use, whatever a
\* crash interrupts, until the first UNLINK in the directory or of it, or the
\* first that makes a stray write.
THEOREM SizesCover == Spec => []SizeCoversEntries
<1>1. Orderly => SizeCoversEntries
  <2> SUFFICES ASSUME Orderly, NEW p \in Dirs \ shrunk, NEW m \in DOMAIN OwnAddr(Inode(disk, p)),
                      disk[OwnAddr(Inode(disk, p))[m]].name # Free
               PROVE  m < Inode(disk, p).size
    BY DEF SizeCoversEntries
  <2>1. Well(disk, Off) /\ Sound(disk, Live(disk)) /\ p \in Live(disk) /\ p \notin Off
    <3>1. Well(disk, Off) /\ Sound(disk, Live(disk)) /\ p \in Live(disk)
      BY InvSound DEF Dirs
    <3>2. p # None
      BY <3>1, Facts DEF Inums, None
    <3>3. QED BY <3>1, <3>2 DEF Off
  <2>2. Inode(disk, p) = disk[Loc(disk, p)] /\ IsDirAt(disk, p)
    <3>1. InPlace(disk, p) /\ Shaped(disk)
      BY <2>1 DEF Sound
    <3>2. QED BY <3>1, LocIs DEF Dirs, IsDir, IsDirAt
  <2>3. Covered(disk, p)
    BY <2>1 DEF Well, Fine, Covers
  <2> DEFINE b == m \div DIRENTS
             j == m % DIRENTS
  <2>4. m \in Nat /\ m < BLOCKS * DIRENTS
    BY Constants DEF OwnAddr
  <2>5. b \in Blocks /\ j \in Slots /\ b * DIRENTS + j = m
    BY <2>4, NextBlock
  <2>6. /\ Blk(disk, p, b) # None
        /\ OwnAddr(Inode(disk, p))[m] = Blk(disk, p, b) + j
    BY <2>2 DEF OwnAddr, Blk
  <2> HIDE DEF b, j
  <2>7. QED BY <2>2, <2>3, <2>5, <2>6 DEF Covered
<1>2. Stray => SizeCoversEntries
  BY DEF SizeCoversEntries
<1>3. QED BY <1>1, <1>2, Invariance, PTL DEF IInv

\* A name of the tree is one that a directory, of those that have a name, has for
\* an inode.
LEMMA TreeHas ==
  ASSUME NEW d, Sound(d, Live(d)), NEW e \in TreeOf(d).entries, e.inum # None
  PROVE  /\ e.dir \in Live(d) /\ Has(d, e.dir, e.name, e.inum)
         /\ e = [dir |-> e.dir, name |-> e.name, inum |-> e.inum, isdir |-> IsDir(d, e.inum)]
<1>1. e \in Ents(d) /\ (e.dir = 0 \/ \E f \in Ents(d) : f.inum = e.dir)
  BY TreeNames
<1>2. PICK p \in Inums : /\ IsDir(d, p)
                         /\ \E x \in Entries(d, p) :
                              e = [dir |-> p, name |-> x.name, inum |-> x.inum, isdir |-> IsDir(d, x.inum)]
  BY <1>1 DEF Ents
<1>3. PICK x \in Entries(d, p) :
        e = [dir |-> p, name |-> x.name, inum |-> x.inum, isdir |-> IsDir(d, x.inum)]
  BY <1>2
<1>4. e.dir = p /\ e.name = x.name /\ e.inum = x.inum
  BY <1>3
<1>5. p \in Live(d)
  <2>1. 0 \in Live(d)
    BY DEF Live
  <2>2. p # None
    BY DEF Inums, None
  <2>3. \A f \in Ents(d) : f.inum \in Live(d) \cup {None}
    BY EntsLive
  <2>4. QED BY <2>1, <2>2, <2>3, <1>1, <1>4
<1>6. Inode(d, p) = d[Loc(d, p)] /\ IsDirAt(d, p)
  <2>1. InPlace(d, p) /\ Shaped(d)
    BY <1>5 DEF Sound
  <2>2. QED BY <2>1, <1>2, LocIs DEF IsDir, IsDirAt
<1> DEFINE addr == OwnAddr(Inode(d, p))
<1>7. PICK m \in DOMAIN addr : /\ IsEntry(d, addr[m]) /\ d[addr[m]].name \notin {".", "..", Free}
                              /\ x = d[addr[m]]
  BY DEF Entries
<1> DEFINE b == m \div DIRENTS
           j == m % DIRENTS
<1>8. b \in Blocks /\ j \in Slots
  <2>1. m \in Nat /\ m < BLOCKS * DIRENTS
    BY Constants DEF OwnAddr
  <2>2. QED BY <2>1, NextBlock
<1>9. Blk(d, p, b) # None /\ addr[m] = Blk(d, p, b) + j
  BY <1>6 DEF OwnAddr, Blk
<1> HIDE DEF addr, b, j
<1>10. Holds(d, p, x.name, x.inum)
  BY <1>7, <1>8, <1>9 DEF Holds
<1>11. Has(d, p, x.name, x.inum)
  BY <1>4, <1>6, <1>7, <1>10 DEF Has
<1>12. QED BY <1>3, <1>4, <1>5, <1>11

\* No crash and no order of calls gives a directory a name twice, or an inode a
\* second name, until an UNLINK makes a stray write; names that were stored
\* without a number do not count.
THEOREM NamesUnique == Spec => []UniqueNames
<1>1. Orderly => UniqueNames
  <2> SUFFICES ASSUME Orderly, NEW e \in tree.entries, NEW f \in tree.entries,
                      e.inum # None, f.inum # None,
                      (e.dir = f.dir /\ e.name = f.name) \/ e.inum = f.inum
               PROVE  e = f
    BY DEF UniqueNames
  <2>1. Sound(disk, Live(disk)) /\ Unique(disk, Live(disk)) /\ tree = TreeOf(disk)
    BY InvSound DEF Well, Fine
  <2>2. /\ e.dir \in Live(disk) /\ Has(disk, e.dir, e.name, e.inum)
        /\ e = [dir |-> e.dir, name |-> e.name, inum |-> e.inum, isdir |-> IsDir(disk, e.inum)]
    BY <2>1, TreeHas
  <2>3. /\ f.dir \in Live(disk) /\ Has(disk, f.dir, f.name, f.inum)
        /\ f = [dir |-> f.dir, name |-> f.name, inum |-> f.inum, isdir |-> IsDir(disk, f.inum)]
    BY <2>1, TreeHas
  <2>4. e.dir = f.dir /\ e.name = f.name /\ e.inum = f.inum
    BY <2>1, <2>2, <2>3 DEF Unique
  <2>5. QED BY <2>2, <2>3, <2>4
<1>2. Stray => UniqueNames
  BY DEF UniqueNames
<1>3. QED BY <1>1, <1>2, Invariance, PTL DEF IInv

\* LOOKUP finds `.' and `..' in the first two cells of a directory.
LEMMA FirstTwo ==
  ASSUME NEW d, NEW K, Sound(d, K), NEW p \in K, IsDirAt(d, p), DotsAt(d, p)
  PROVE  server_lookup(d, p, ".") = p /\ server_lookup(d, p, "..") = Parent(d, p)
<1> DEFINE at   == Blk(d, p, 0)
           addr == ScanAddr(d[Loc(d, p)])
<1>1. InPlace(d, p) /\ Inode(d, p) = d[Loc(d, p)] /\ IsDir(d, p)
  <2>1. InPlace(d, p) /\ Shaped(d)
    BY DEF Sound
  <2>2. QED BY <2>1, LocIs DEF IsDir, IsDirAt
<1>2. DIRENTS \in Nat /\ DIRENTS >= 4 /\ 0 \in Blocks /\ 0 \in Slots /\ 1 \in Slots
  BY Constants DEF Slots
<1>3. at \in Int /\ at # None /\ at + 0 = at
  <2>1. at \in Nat
    BY <1>1, Facts DEF InPlace
  <2>2. QED BY <2>1 DEF None
<1> HIDE DEF at
<1>4. d[at].name = "." /\ d[at].inum = p /\ d[at + 1].name = ".." /\ d[at + 1].inum = Parent(d, p)
  BY DEF DotsAt, Parent, at
<1>5. ASSUME NEW q \in Blocks, NEW r \in Slots, q * DIRENTS + r <= 1
      PROVE  q = 0 /\ r \in {0, 1} /\ q * DIRENTS + r = r
  <2>1. q \in Nat /\ r \in Nat /\ q * DIRENTS \in Nat
    BY <1>2, Constants DEF Blocks, Slots
  <2>2. q >= 1 => q * DIRENTS >= DIRENTS
    BY <2>1, <1>2
  <2>3. q = 0
    BY <2>1, <2>2, <1>2, <1>5
  <2>4. QED BY <2>1, <2>3, <1>2, <1>5
<1>6. ASSUME NEW nm, NEW i \in {0, 1}, d[at + i].name = nm
      PROVE  \E r \in {0, 1} : r <= i /\ d[at + r].name = nm /\ Find(d, addr, nm) = d[at + r].inum
  <2>1. i \in Slots /\ 0 * DIRENTS + i = i
    BY <1>2
  <2>a. PICK b \in Blocks : b = 0
    BY <1>2
  <2>b. PICK q \in Blocks, r \in Slots :
          /\ q * DIRENTS + r <= b * DIRENTS + i
          /\ Blk(d, p, q) # None /\ IsEntry(d, Blk(d, p, q) + r) /\ d[Blk(d, p, q) + r].name = nm
          /\ Find(d, ScanAddr(d[Loc(d, p)]), nm) = d[Blk(d, p, q) + r].inum
    <3> HIDE DEF addr
    <3>1. InPlace(d, p) /\ IsDirAt(d, p) /\ i \in Slots
      BY <1>1, <2>1
    <3>2. Blk(d, p, b) # None /\ d[Blk(d, p, b) + i].name = nm
      BY <2>a, <1>3, <1>6 DEF at
    <3>3. QED BY <3>1, <3>2, ScanFinds
  <2>2. /\ q * DIRENTS + r <= 0 * DIRENTS + i
        /\ d[Blk(d, p, q) + r].name = nm
        /\ Find(d, addr, nm) = d[Blk(d, p, q) + r].inum
    BY <2>a, <2>b
  <2> HIDE DEF addr
  <2>3. q = 0 /\ r \in {0, 1} /\ r <= i
    <3>1. q * DIRENTS + r \in Int
      BY <1>2 DEF Blocks, Slots
    <3>2. q * DIRENTS + r <= i
      BY <2>1, <2>2
    <3>3. q * DIRENTS + r <= 1
      BY <3>1, <3>2
    <3>4. QED BY <3>2, <3>3, <1>5
  <2>4. QED BY <2>2, <2>3 DEF at
<1>7. server_lookup(d, p, ".") = p
  <2>1. PICK r \in {0, 1} : r <= 0 /\ Find(d, addr, ".") = d[at + r].inum
    BY <1>3, <1>4, <1>6
  <2>2. r = 0
    BY <2>1
  <2>3. QED BY <2>1, <2>2, <1>1, <1>3, <1>4 DEF server_lookup
<1>8. server_lookup(d, p, "..") = Parent(d, p)
  <2>1. PICK r \in {0, 1} : d[at + r].name = ".." /\ Find(d, addr, "..") = d[at + r].inum
    BY <1>4, <1>6
  <2>2. r = 1
    BY <2>1, <1>3, <1>4
  <2>3. QED BY <2>1, <2>2, <1>1, <1>4 DEF server_lookup
<1>9. QED BY <1>7, <1>8

\* `.' is the directory and `..' the one that names it, whatever a crash interrupts,
\* until a call relies on a size that UNLINK has reset or an UNLINK makes a stray
\* write.
THEOREM DotsRight == Spec => []DotsPointUnspoiled
<1>1. Orderly => DotsPointUnspoiled
  <2> SUFFICES ASSUME Orderly, ~spoiled, NEW p \in Dirs
               PROVE  /\ server_lookup(disk, p, ".") = p
                      /\ LET up == server_lookup(disk, p, "..")
                         IN  IF p = 0 THEN up = 0
                             ELSE up \in Dirs /\ \E e \in Entries(disk, up) : e.inum = p
    BY DEF DotsPointUnspoiled, DotsPoint
  <2>1. /\ Sound(disk, Live(disk)) /\ Placed(disk) /\ Dots(disk, Live(disk)) /\ tree = TreeOf(disk)
        /\ p \in Live(disk)
    <3>1. Well(disk, Off) /\ tree = TreeOf(disk) /\ p \in Live(disk)
      BY InvSound DEF Dirs
    <3>2. None \notin Off
      BY DEF Off
    <3>3. QED BY <3>1, <3>2 DEF Well, Fine, Proper
  <2>2. ASSUME NEW q \in Live(disk) PROVE IsDir(disk, q) <=> IsDirAt(disk, q)
    <3>1. InPlace(disk, q) /\ Shaped(disk)
      BY <2>1 DEF Sound
    <3>2. QED BY <3>1, LocIs DEF IsDir, IsDirAt
  <2>3. IsDirAt(disk, p) /\ DotsAt(disk, p)
    BY <2>1, <2>2 DEF Dirs, Dots
  <2>4. server_lookup(disk, p, ".") = p /\ server_lookup(disk, p, "..") = Parent(disk, p)
    BY <2>1, <2>3, FirstTwo
  <2>5. CASE p = 0
    BY <2>3, <2>4, <2>5 DEF DotsAt, Parent
  <2>6. CASE p # 0
    <3>1. PICK a \in DOMAIN disk : IsName(disk, a) /\ disk[a].inum = p /\ p # None
      BY <2>1, <2>6 DEF Live
    <3>2. PICK q \in Live(disk) :
            IsDirAt(disk, q) /\ Holds(disk, q, disk[a].name, disk[a].inum) /\ disk[a] \in Entries(disk, q)
      BY <2>1, <3>1, NameEntry
    <3>3. Has(disk, q, disk[a].name, p)
      BY <3>1, <3>2 DEF Has, IsName
    <3>4. Parent(disk, p) = q
      BY <2>1, <2>3, <3>3 DEF Dots
    <3>5. q \in Dirs
      BY <2>1, <2>2, <3>2, LiveKnown DEF Dirs
    <3>6. QED BY <2>4, <2>6, <3>1, <3>2, <3>4, <3>5
  <2>7. QED BY <2>4, <2>5, <2>6
<1>2. Stray => DotsPointUnspoiled
  BY DEF DotsPointUnspoiled
<1>3. QED BY <1>1, <1>2, Invariance, PTL DEF IInv

\* A directory that stores a name has it.
LEMMA StoresNamed ==
  ASSUME Sound(disk, Live(disk)), NEW p, NEW nm, nm \notin {".", "..", Free}, Stores(disk, p, nm)
  PROVE  HasName(p, nm)
<1>1. PICK k : Holds(disk, p, nm, k) /\ p \in Live(disk) /\ IsDirAt(disk, p)
  BY DEF Stores
<1>2. PICK b \in Blocks, j \in Slots :
        /\ Blk(disk, p, b) # None /\ IsEntry(disk, Blk(disk, p, b) + j)
        /\ disk[Blk(disk, p, b) + j].name = nm
  BY <1>1 DEF Holds
<1>3. disk[Blk(disk, p, b) + j] \in Entries(disk, p)
  BY <1>1, <1>2, EntriesHold DEF IsName
<1>4. QED BY <1>2, <1>3 DEF HasName

\* What LOOKUP finds is a name of the directory, or outside its blocks.
LEMMA FoundNamed ==
  ASSUME Sound(disk, Live(disk)), NEW p \in Live(disk), NEW nm, nm \notin {".", "..", Free},
         Exists(disk, p, nm)
  PROVE  HasName(p, nm) \/ Lookalike(p, nm)
<1> DEFINE ino   == Inode(disk, p)
           addr  == OwnAddr(ino)
           found == Matches(disk, ScanAddr(ino), nm)
<1>1. server_lookup(disk, p, nm) >= 0 /\ ~(None >= 0)
  BY DEF Exists, None
<1>2. IsDir(disk, p) /\ found # {}
  BY <1>1 DEF server_lookup, Find
<1>3. PICK m \in found : TRUE
  BY <1>2
<1>4. CASE m \notin DOMAIN addr
  BY <1>4 DEF Lookalike
<1>5. CASE m \in DOMAIN addr
  <2>1. InPlace(disk, p) /\ IsDirAt(disk, p) /\ ino = disk[Loc(disk, p)]
    <3>1. InPlace(disk, p) /\ Shaped(disk)
      BY DEF Sound
    <3>2. QED BY <1>2, <3>1, LocIs DEF IsDir, IsDirAt
  <2> DEFINE b == m \div DIRENTS
             j == m % DIRENTS
  <2>2. m \in Nat /\ m < BLOCKS * DIRENTS
    BY <1>5, Constants DEF OwnAddr
  <2>3. b \in Blocks /\ j \in Slots /\ b * DIRENTS + j = m
    BY <2>2, NextBlock
  <2>4. ino.block_loc[b] # None /\ addr[m] = ino.block_loc[b] + j
    BY <1>5 DEF OwnAddr
  <2>7. EntryAt(disk, ScanAddr(ino)[m]).name = nm
    BY DEF Matches
  <2> HIDE DEF b, j, addr, ino
  <2>5. IsEntry(disk, addr[m])
    <3>1. Blk(disk, p, b) = ino.block_loc[b]
      BY <2>1 DEF Blk
    <3>2. QED BY <3>1, <2>1, <2>3, <2>4 DEF InPlace
  <2>6. ScanAddr(ino)[m] = addr[m]
    BY <2>3, <2>4, ScanAt
  <2>8. disk[addr[m]].name = nm
    BY <2>5, <2>6, <2>7 DEF EntryAt
  <2>9. disk[addr[m]] \in Entries(disk, p)
    BY <1>5, <2>5, <2>8 DEF Entries, addr, ino
  <2>10. QED BY <2>8, <2>9 DEF HasName
<1>6. QED BY <1>4, <1>5

\* A call answered 0 has done what it was asked: no order of calls and crashes
\* before it makes CREAT answer without the name, WRITE without the data or UNLINK
\* with the name still there, until a call relies on a size that UNLINK has reset
\* or an UNLINK makes a stray write. CREAT alone does less when the search for the
\* name meets what reads as one outside the directory: a block of another one, or
\* the data of a file.
THEOREM AnsweredDone == Spec => []AnsweredIsDone
<1>1. Orderly => AnsweredIsDone
  <2> SUFFICES ASSUME Orderly, ~spoiled, call # Idle, todo = <<>>, ret = 0
               PROVE  Done(call)
    BY DEF AnsweredIsDone
  <2>1. Sound(disk, Live(disk)) /\ None \notin Off
    BY InvSound DEF Off
  <2>2. Did(disk, call, ret, Off)
    <3>1. Onward(disk, <<>>, call, ret, Off)
      BY DEF Orderly, LeadOn
    <3>2. QED BY <3>1, LeadsSound, RemovesStep DEF Onward
  <2>3. CASE call.lib = "CREAT"
    <3>1. HasName(call.inum, call.name) \/ Lookalike(call.inum, call.name)
      <4>1. /\ call.name \in Names
            /\ Stores(disk, call.inum, call.name)
               \/ (call.inum \in Live(disk) /\ Exists(disk, call.inum, call.name))
        BY <2>1, <2>2, <2>3 DEF Did
      <4>2. call.name \notin {".", "..", Free}
        BY <4>1, LogAssumption DEF Free
      <4>3. QED BY <2>1, <4>1, <4>2, StoresNamed, FoundNamed
    <3>2. QED BY <2>3, <3>1 DEF Done
  <2>4. CASE call.lib = "WRITE"
    BY <2>1, <2>2, <2>4 DEF Did, Wrote, Reads, Done
  <2>5. CASE call.lib = "UNLINK"
    <3>1. call.inum \in Live(disk) /\ \A l : ~Holds(disk, call.inum, call.name, l)
      BY <2>1, <2>2, <2>5 DEF Did, Lacks
    <3>2. \A e \in Entries(disk, call.inum) : e.name # call.name
      BY <2>1, <3>1, EntriesHold
    <3>3. QED BY <2>5, <3>2 DEF Done, HasName
  <2>6. QED BY <2>1, <2>2, <2>3, <2>4, <2>5 DEF Did
<1>2. Stray => AnsweredIsDone
  BY DEF AnsweredIsDone
<1>3. QED BY <1>1, <1>2, Invariance, PTL DEF IInv

-----------------------------------------------------------------------------
(* The image implements the tree                                           *)

\* An image on which every name has a number and is where it should be.
Fit(d) ==
  /\ Sound(d, Live(d)) /\ Placed(d) /\ NoNone(d)
  /\ Dots(d, Live(d)) /\ Unique(d, Live(d))

\* The entry of the tree for the name nm that directory p has for inode k.
Row(d, p, nm, k) == [dir |-> p, name |-> nm, inum |-> k, isdir |-> IsDirAt(d, k)]

\* Block b of a file that has a name, and all of them.
IsBlock(d, k, b) ==
  k \in Live(d) /\ k # 0 /\ b \in Blocks /\ ~IsDirAt(d, k) /\ Blk(d, k, b) # None
Content(d) == {x \in Inums \X Blocks : IsBlock(d, x[1], x[2])}

\* An inode with a name is a directory or a file, in place.
LEMMA LiveType ==
  ASSUME NEW d, Sound(d, Live(d)), NEW k \in Live(d)
  PROVE  /\ IsDir(d, k) = IsDirAt(d, k) /\ IsFile(d, k) = ~IsDirAt(d, k)
         /\ Inode(d, k) = d[Loc(d, k)] /\ k \in Inums
<1>1. InPlace(d, k) /\ Shaped(d)
  BY DEF Sound
<1>2. Inode(d, k) = d[Loc(d, k)] /\ IsInode(d, k) /\ k \in Inums
  BY <1>1, LocIs DEF InPlace
<1>3. d[Loc(d, k)].type \in {MFS_DIRECTORY, MFS_REGULAR_FILE}
  BY <1>1 DEF InPlace, Shaped, InodeCells
<1>4. IsDir(d, k) = IsDirAt(d, k)
  BY <1>2 DEF IsDir, IsDirAt
<1>5. IsFile(d, k) = ~IsDirAt(d, k)
  BY <1>2, <1>3 DEF IsFile, IsDirAt, MFS_DIRECTORY, MFS_REGULAR_FILE
<1>6. QED BY <1>2, <1>4, <1>5

\* What a directory has, is in one of its blocks, and is a name for an inode.
LEMMA HasCell ==
  ASSUME NEW d, NEW p, NEW nm, NEW k, Has(d, p, nm, k)
  PROVE  /\ k \in Live(d) /\ IsDirAt(d, p)
         /\ \E b \in Blocks, j \in Slots :
              LET a == Blk(d, p, b) + j
              IN  Blk(d, p, b) # None /\ IsName(d, a) /\ d[a].name = nm /\ d[a].inum = k
<1>1. PICK b \in Blocks, j \in Slots :
        LET a == Blk(d, p, b) + j
        IN  Blk(d, p, b) # None /\ IsEntry(d, a) /\ d[a].name = nm /\ d[a].inum = k
  BY DEF Has, Holds
<1> DEFINE a == Blk(d, p, b) + j
<1>2. Blk(d, p, b) # None /\ IsName(d, a) /\ d[a].name = nm /\ d[a].inum = k
  BY <1>1 DEF Has, IsName
<1>3. k \in Live(d)
  <2> HIDE DEF a
  <2>1. a \in DOMAIN d /\ k # None
    BY <1>2 DEF IsName, IsEntry, Has
  <2>2. QED BY <2>1, <1>2 DEF Live
<1>4. QED BY <1>2, <1>3 DEF Has

\* The tree has an entry for each name,
LEMMA HasRow ==
  ASSUME NEW d, Fit(d), NEW p \in Live(d), NEW nm, NEW k, Has(d, p, nm, k)
  PROVE  Row(d, p, nm, k) \in TreeOf(d).entries
<1>1. Sound(d, Live(d)) /\ Placed(d) /\ k \in Live(d) /\ IsDirAt(d, p)
  BY HasCell DEF Fit
<1>2. PICK b \in Blocks, j \in Slots :
        LET a == Blk(d, p, b) + j
        IN  Blk(d, p, b) # None /\ IsName(d, a) /\ d[a].name = nm /\ d[a].inum = k
  BY HasCell
<1> DEFINE a == Blk(d, p, b) + j
           x == EntryOf(d, p, a)
<1>3. x \in Ents(d)
  BY <1>1, <1>2, CellEntry
<1>4. x = Row(d, p, nm, k) /\ x.dir = p
  BY <1>1, <1>2, LiveType DEF EntryOf, Row
<1> HIDE DEF x
<1>5. QED BY <1>1, <1>3, <1>4, DirNamed

\* and no other:
LEMMA RowHas ==
  ASSUME NEW d, Fit(d), NEW x \in TreeOf(d).entries
  PROVE  /\ x.dir \in Live(d) /\ x.inum \in Live(d) /\ Has(d, x.dir, x.name, x.inum)
         /\ x = Row(d, x.dir, x.name, x.inum)
<1>1. Sound(d, Live(d)) /\ NoNone(d)
  BY DEF Fit
<1>2. x.inum # None
  <2>1. x \in Ents(d)
    BY TreeNames
  <2>2. PICK p \in Inums : \E c \in Entries(d, p) :
          x = [dir |-> p, name |-> c.name, inum |-> c.inum, isdir |-> IsDir(d, c.inum)]
    BY <2>1 DEF Ents
  <2>3. PICK c \in Entries(d, p) : x.inum = c.inum
    BY <2>2
  <2>4. PICK a : IsEntry(d, a) /\ d[a].name \notin {".", "..", Free} /\ c = d[a]
    BY DEF Entries
  <2>5. a \in DOMAIN d /\ IsName(d, a)
    BY <2>4 DEF IsName, IsEntry
  <2>6. QED BY <1>1, <2>3, <2>4, <2>5 DEF NoNone
<1>3. /\ x.dir \in Live(d) /\ Has(d, x.dir, x.name, x.inum)
      /\ x = [dir |-> x.dir, name |-> x.name, inum |-> x.inum, isdir |-> IsDir(d, x.inum)]
  BY <1>1, <1>2, TreeHas
<1>4. x.inum \in Live(d)
  BY <1>3, HasCell
<1>5. IsDir(d, x.inum) = IsDirAt(d, x.inum)
  BY <1>1, <1>4, LiveType
<1>6. QED BY <1>3, <1>4, <1>5 DEF Row

\* an inode that has a name has one in the tree, which is not the root.
LEMMA LiveRow ==
  ASSUME NEW d, Fit(d), NEW k \in Live(d), k # 0
  PROVE  \E x \in TreeOf(d).entries : x.inum = k /\ x.isdir = IsDirAt(d, k)
<1>1. Sound(d, Live(d)) /\ Placed(d)
  BY DEF Fit
<1>2. PICK a \in DOMAIN d : IsName(d, a) /\ d[a].inum = k
  BY DEF Live
<1>3. PICK q \in Live(d) : EntryOf(d, q, a) \in TreeOf(d).entries
  BY <1>1, <1>2, NameEntry
<1>4. EntryOf(d, q, a).inum = k /\ EntryOf(d, q, a).isdir = IsDirAt(d, k)
  BY <1>1, <1>2, LiveType DEF EntryOf
<1>5. QED BY <1>3, <1>4

\* The root has no name.
LEMMA RowNotRoot ==
  ASSUME NEW d, Fit(d), NEW x \in TreeOf(d).entries
  PROVE  x.inum # 0
BY RowHas DEF Fit, Dots

\* The content of the tree is that of the blocks of files that have a name.
LEMMA ContentOf ==
  ASSUME NEW d, Fit(d)
  PROVE  TreeOf(d).content = [x \in Content(d) |-> BlockAt(d, Blk(d, x[1], x[2]))]
<1> DEFINE named == TreeOf(d).entries
           files == {e.inum : e \in {e \in named : IsFile(d, e.inum)}}
           blks  == UNION {{<<k, b>> : b \in {b \in Blocks : Inode(d, k).block_loc[b] # None}} : k \in files}
<1>1. TreeOf(d).content = [z \in blks |-> BlockAt(d, Inode(d, z[1]).block_loc[z[2]])]
  BY DEF TreeOf
<1>2. ASSUME NEW k
      PROVE  k \in files <=> k \in Live(d) /\ k # 0 /\ ~IsDirAt(d, k)
  <2>1. ASSUME k \in files PROVE k \in Live(d) /\ k # 0 /\ ~IsDirAt(d, k)
    <3>1. PICK e \in named : k = e.inum /\ IsFile(d, e.inum)
      BY <2>1
    <3>2. e.inum \in Live(d) /\ e.inum # 0
      BY RowHas, RowNotRoot
    <3>3. IsFile(d, k) = ~IsDirAt(d, k)
      BY <3>1, <3>2, LiveType DEF Fit
    <3>4. QED BY <3>1, <3>2, <3>3
  <2>2. ASSUME k \in Live(d), k # 0, ~IsDirAt(d, k) PROVE k \in files
    <3>1. PICK e \in named : e.inum = k
      BY <2>2, LiveRow
    <3>2. IsFile(d, k) = ~IsDirAt(d, k)
      BY <2>2, LiveType DEF Fit
    <3>3. QED BY <2>2, <3>1, <3>2
  <2>3. QED BY <2>1, <2>2
<1>3. ASSUME NEW k \in Live(d) PROVE Inode(d, k) = d[Loc(d, k)] /\ k \in Inums
  BY LiveType DEF Fit
<1> HIDE DEF named, files
<1>4. blks = Content(d)
  <2>1. ASSUME NEW x \in blks PROVE x \in Content(d)
    <3>1. PICK k \in files : x \in {<<k, b>> : b \in {b \in Blocks : Inode(d, k).block_loc[b] # None}}
      OBVIOUS
    <3>2. PICK b \in Blocks : x = <<k, b>> /\ Inode(d, k).block_loc[b] # None
      BY <3>1
    <3>3. IsBlock(d, k, b) /\ k \in Inums
      BY <1>2, <1>3, <3>2 DEF IsBlock, Blk
    <3>4. QED BY <3>2, <3>3 DEF Content
  <2>2. ASSUME NEW x \in Content(d) PROVE x \in blks
    <3>1. PICK k \in Inums, b \in Blocks : x = <<k, b>> /\ IsBlock(d, k, b)
      BY DEF Content
    <3>2. k \in files /\ Inode(d, k).block_loc[b] # None
      BY <1>2, <1>3, <3>1 DEF IsBlock, Blk
    <3>3. QED BY <3>1, <3>2
  <2> HIDE DEF blks
  <2>3. QED BY <2>1, <2>2
<1> HIDE DEF blks
<1>5. ASSUME NEW x \in Content(d)
      PROVE  Inode(d, x[1]).block_loc[x[2]] = Blk(d, x[1], x[2])
  BY <1>3 DEF Content, IsBlock, Blk
<1>6. QED BY <1>1, <1>4, <1>5

\* Two contents are one when they have the same blocks, which hold the same.
LEMMA ContentSame ==
  ASSUME NEW d, NEW e, Fit(d), Fit(e),
         \A k \in Inums, b \in Blocks : IsBlock(e, k, b) <=> IsBlock(d, k, b),
         \A k \in Inums, b \in Blocks :
           IsBlock(d, k, b) => BlockAt(e, Blk(e, k, b)) = BlockAt(d, Blk(d, k, b))
  PROVE  TreeOf(e).content = TreeOf(d).content
<1>1. Content(e) = Content(d)
  BY DEF Content
<1>2. ASSUME NEW x \in Content(d)
      PROVE  BlockAt(e, Blk(e, x[1], x[2])) = BlockAt(d, Blk(d, x[1], x[2]))
  BY DEF Content
<1> DEFINE F(y) == [x \in Content(y) |-> BlockAt(y, Blk(y, x[1], x[2]))]
<1>3. F(e) = F(d)
  BY <1>1, <1>2
<1>4. TreeOf(e).content = F(e) /\ TreeOf(d).content = F(d)
  BY ContentOf
<1> HIDE DEF F
<1>5. QED BY <1>3, <1>4

\* What was a block of a file among K, save the X, is one and holds what it did.
LEMMA BlockSame ==
  ASSUME NEW d, NEW e, NEW K, NEW X, SameFiles(d, e, K, X), NEW k \in K, NEW b \in Blocks,
         <<k, b>> \notin X, k \in Live(d), k \in Live(e), IsDirAt(e, k) = IsDirAt(d, k)
  PROVE  /\ IsBlock(e, k, b) <=> IsBlock(d, k, b)
         /\ IsBlock(d, k, b) => BlockAt(e, Blk(e, k, b)) = BlockAt(d, Blk(d, k, b))
<1>1. CASE IsDirAt(d, k)
  BY <1>1 DEF IsBlock
<1>2. CASE ~IsDirAt(d, k)
  <2>1. SameBlock(d, e, k, b)
    BY <1>2 DEF SameFiles
  <2>2. QED BY <1>2, <2>1 DEF SameBlock, IsBlock
<1>3. QED BY <1>1, <1>2

\* The rows of an image are some of those of another whose names it has.
LEMMA RowsFrom ==
  ASSUME NEW d, NEW e, Fit(d), Fit(e), NEW x \in TreeOf(e).entries,
         x.dir \in Live(d), Has(d, x.dir, x.name, x.inum), IsDirAt(e, x.inum) = IsDirAt(d, x.inum)
  PROVE  x \in TreeOf(d).entries
<1>1. x = Row(e, x.dir, x.name, x.inum)
  BY RowHas
<1>2. Row(d, x.dir, x.name, x.inum) \in TreeOf(d).entries
  BY HasRow
<1>3. Row(d, x.dir, x.name, x.inum) = Row(e, x.dir, x.name, x.inum)
  BY DEF Row
<1>4. QED BY <1>1, <1>2, <1>3

\* A write that leaves the names leaves the entries.
LEMMA EntriesSame ==
  ASSUME NEW d, NEW e, Fit(d), Fit(e), SameTree(d, e)
  PROVE  TreeOf(e).entries = TreeOf(d).entries
<1>1. /\ Live(e) = Live(d)
      /\ \A p \in Live(d) : IsDirAt(e, p) = IsDirAt(d, p)
      /\ \A p \in Live(d) : \A nm, k : Has(e, p, nm, k) <=> Has(d, p, nm, k)
  BY DEF SameTree, SameDirs, SameType
<1>2. ASSUME NEW x \in TreeOf(e).entries PROVE x \in TreeOf(d).entries
  <2>1. x.dir \in Live(e) /\ x.inum \in Live(e) /\ Has(e, x.dir, x.name, x.inum)
    BY RowHas
  <2>2. QED BY <1>1, <2>1, RowsFrom
<1>3. ASSUME NEW x \in TreeOf(d).entries PROVE x \in TreeOf(e).entries
  <2>1. x.dir \in Live(d) /\ x.inum \in Live(d) /\ Has(d, x.dir, x.name, x.inum)
    BY RowHas
  <2>2. x.dir \in Live(e) /\ Has(e, x.dir, x.name, x.inum) /\ IsDirAt(d, x.inum) = IsDirAt(e, x.inum)
    BY <1>1, <2>1
  <2>3. QED BY <2>2, RowsFrom
<1>4. QED BY <1>2, <1>3

\* The step of the tree from one image to the next: none,
TreeStill(d, e) == TreeOf(e).entries = TreeOf(d).entries /\ TreeOf(e).content = TreeOf(d).content
\* or a block of a file with a name that comes to hold v.
Sets(d, e, k, b, v) ==
  /\ TreeOf(e).entries = TreeOf(d).entries
  /\ TreeOf(e).content =
       [y \in DOMAIN TreeOf(d).content \cup {<<k, b>>} |->
          IF y = <<k, b>> THEN v ELSE TreeOf(d).content[y]]
  /\ b \in Blocks /\ \E x \in TreeOf(d).entries : x.inum = k /\ ~x.isdir

\* A write that shows nothing is no step of the tree.
LEMMA StillTree ==
  ASSUME NEW d, NEW e, Fit(d), Fit(e), Still(d, e)
  PROVE  TreeStill(d, e)
<1>1. SameTree(d, e) /\ SameFiles(d, e, Live(d), {})
  BY DEF Still
<1>2. /\ Live(e) = Live(d) /\ \A k \in Live(d) : IsDirAt(e, k) = IsDirAt(d, k)
  BY <1>1 DEF SameTree, SameDirs, SameType
<1>3. ASSUME NEW k \in Inums, NEW b \in Blocks
      PROVE  /\ IsBlock(e, k, b) <=> IsBlock(d, k, b)
             /\ IsBlock(d, k, b) => BlockAt(e, Blk(e, k, b)) = BlockAt(d, Blk(d, k, b))
  <2>1. CASE k \in Live(d)
    <3>1. PICK X : X = {}
      OBVIOUS
    <3>2. SameFiles(d, e, Live(d), X) /\ <<k, b>> \notin X
      BY <1>1, <3>1
    <3>3. QED BY <1>2, <2>1, <3>2, BlockSame
  <2>2. CASE k \notin Live(d)
    BY <1>2, <2>2 DEF IsBlock
  <2>3. QED BY <2>1, <2>2
<1>4. QED BY <1>1, <1>3, EntriesSame, ContentSame DEF TreeStill

\* One that shows a block is none, when it is a block of the root, or one in that
\* block.
LEMMA ChangesTree ==
  ASSUME NEW d, NEW e, Fit(d), Fit(e), NEW k \in Live(d), NEW b \in Blocks, Changes(d, e, k, b)
  PROVE  \/ TreeStill(d, e)
         \/ <<k, b>> \notin DOMAIN TreeOf(d).content /\ Sets(d, e, k, b, Junk)
         \/ <<k, b>> \in DOMAIN TreeOf(d).content /\ \E v \in Data \cup {Junk} : Sets(d, e, k, b, v)
<1> DEFINE v == BlockAt(e, Blk(e, k, b))
<1>1. /\ SameTree(d, e) /\ SameFiles(d, e, Live(d), Only(k, b))
      /\ ~IsDirAt(d, k) /\ Blk(e, k, b) # None
  BY DEF Changes
<1>2. v \in IF Blk(d, k, b) = None THEN {Junk} ELSE Data \cup {Junk}
  BY DEF Changes
<1>3. /\ Live(e) = Live(d) /\ \A l \in Live(d) : IsDirAt(e, l) = IsDirAt(d, l)
  BY <1>1 DEF SameTree, SameDirs, SameType
<1>4. ASSUME NEW l \in Inums, NEW c \in Blocks, <<l, c>> # <<k, b>>
      PROVE  /\ IsBlock(e, l, c) <=> IsBlock(d, l, c)
             /\ IsBlock(d, l, c) => BlockAt(e, Blk(e, l, c)) = BlockAt(d, Blk(d, l, c))
  <2>1. CASE l \in Live(d)
    <3>1. <<l, c>> \notin Only(k, b)
      BY <1>4 DEF Only
    <3>2. QED BY <1>1, <1>3, <2>1, <3>1, BlockSame
  <2>2. CASE l \notin Live(d)
    BY <1>3, <2>2 DEF IsBlock
  <2>3. QED BY <2>1, <2>2
<1>5. TreeOf(e).entries = TreeOf(d).entries
  BY <1>1, EntriesSame
<1>6. k \in Inums
  BY LiveType DEF Fit
<1>7. CASE k = 0
  <2>1. ASSUME NEW l \in Inums, NEW c \in Blocks
        PROVE  /\ IsBlock(e, l, c) <=> IsBlock(d, l, c)
               /\ IsBlock(d, l, c) => BlockAt(e, Blk(e, l, c)) = BlockAt(d, Blk(d, l, c))
    <3>1. CASE l = k
      BY <1>7, <3>1 DEF IsBlock
    <3>2. CASE l # k
      <4>1. <<l, c>> # <<k, b>>
        BY <3>2
      <4>2. QED BY <1>4, <4>1
    <3>3. QED BY <3>1, <3>2
  <2>2. TreeOf(e).content = TreeOf(d).content
    BY <2>1, ContentSame
  <2>3. QED BY <1>5, <2>2 DEF TreeStill
<1>8. CASE k # 0
  <2>1. IsBlock(e, k, b)
    BY <1>1, <1>3, <1>8 DEF IsBlock
  <2>2. DOMAIN TreeOf(d).content = Content(d)
    BY ContentOf
  <2>3. <<k, b>> \in Content(d) <=> Blk(d, k, b) # None
    BY <1>1, <1>6, <1>8 DEF Content, IsBlock
  <2>4. Content(e) = Content(d) \cup {<<k, b>>}
    <3>1. ASSUME NEW x \in Inums \X Blocks
          PROVE  x \in Content(e) <=> x \in Content(d) \/ x = <<k, b>>
      <4>1. PICK l \in Inums, c \in Blocks : x = <<l, c>>
        OBVIOUS
      <4>2. x \in Content(e) <=> IsBlock(e, l, c)
        BY <4>1 DEF Content
      <4>3. x \in Content(d) <=> IsBlock(d, l, c)
        BY <4>1 DEF Content
      <4>4. CASE x = <<k, b>>
        BY <4>1, <4>2, <4>4, <2>1
      <4>5. CASE x # <<k, b>>
        BY <4>1, <4>2, <4>3, <4>5, <1>4
      <4>6. QED BY <4>4, <4>5
    <3>2. <<k, b>> \in Inums \X Blocks /\ Content(d) \subseteq Inums \X Blocks /\ Content(e) \subseteq Inums \X Blocks
      BY <1>6 DEF Content
    <3>3. QED BY <3>1, <3>2
  <2>5. TreeOf(e).content =
          [y \in Content(d) \cup {<<k, b>>} |-> IF y = <<k, b>> THEN v ELSE TreeOf(d).content[y]]
    <3>1. ASSUME NEW y \in Content(d) \cup {<<k, b>>}
          PROVE  BlockAt(e, Blk(e, y[1], y[2])) = IF y = <<k, b>> THEN v ELSE TreeOf(d).content[y]
      <4>1. CASE y = <<k, b>>
        <5>1. y[1] = k /\ y[2] = b
          BY <4>1
        <5>2. QED BY <4>1, <5>1
      <4>2. CASE y # <<k, b>>
        <5>1. PICK l \in Inums, c \in Blocks : y = <<l, c>> /\ IsBlock(d, l, c)
          BY <4>2 DEF Content
        <5>2. BlockAt(e, Blk(e, l, c)) = BlockAt(d, Blk(d, l, c))
          BY <1>4, <4>2, <5>1
        <5>3. y \in Content(d) /\ y[1] = l /\ y[2] = c
          BY <4>2, <5>1
        <5>4. TreeOf(d).content[y] = BlockAt(d, Blk(d, l, c))
          BY <5>3, ContentOf
        <5>5. QED BY <4>2, <5>2, <5>3, <5>4
      <4>3. QED BY <4>1, <4>2
    <3>2. TreeOf(e).content = [y \in Content(e) |-> BlockAt(e, Blk(e, y[1], y[2]))]
      BY ContentOf
    <3> HIDE DEF v
    <3>3. QED BY <2>4, <3>1, <3>2
  <2>6. \E x \in TreeOf(d).entries : x.inum = k /\ ~x.isdir
    BY <1>1, <1>8, LiveRow
  <2> HIDE DEF v
  <2>7. Sets(d, e, k, b, v)
    BY <1>5, <2>2, <2>5, <2>6 DEF Sets
  <2>8. CASE Blk(d, k, b) = None
    BY <1>2, <2>2, <2>3, <2>7, <2>8
  <2>9. CASE Blk(d, k, b) # None
    BY <1>2, <2>2, <2>3, <2>7, <2>9
  <2>10. QED BY <2>8, <2>9
<1>9. QED BY <1>7, <1>8

\* A name for an inode that had none.
EntersTree(d, e, x) ==
  /\ x \notin TreeOf(d).entries /\ TreeOf(e).entries = TreeOf(d).entries \cup {x}
  /\ x.name \in Names /\ x.inum \in Inums \ {0}
  /\ x.dir = 0 \/ \E y \in TreeOf(d).entries : y.inum = x.dir /\ y.isdir
  /\ \A y \in TreeOf(d).entries : (y.dir # x.dir \/ y.name # x.name) /\ y.inum # x.inum
  /\ TreeOf(e).content =
       IF x.isdir THEN TreeOf(d).content
       ELSE [y \in DOMAIN TreeOf(d).content \cup {<<x.inum, 0>>} |->
               IF y = <<x.inum, 0>> THEN Junk ELSE TreeOf(d).content[y]]

\* One that shows a name, enters it.
LEMMA EnterTree ==
  ASSUME NEW d, NEW e, Fit(d), Fit(e), NEW p \in Live(d), NEW i \in Inums \ Live(d), NEW nm \in Names,
         Enters(d, e, p, nm, i)
  PROVE  EntersTree(d, e, Row(e, p, nm, i))
<1> DEFINE x == Row(e, p, nm, i)
<1>1. /\ IsDirAt(d, p) /\ Live(e) = With(Live(d), i)
      /\ \A q \in Live(d) : IsDirAt(e, q) = IsDirAt(d, q)
      /\ SameFiles(d, e, Live(d), {}) /\ Bare(e, i) /\ BlockAt(e, Blk(e, i, 0)) = Junk
  BY DEF Enters, SameType
<1>2. \A q \in Live(d) : \A on, k : Has(e, q, on, k) <=> Has(d, q, on, k) \/ (q = p /\ on = nm /\ k = i)
  BY DEF Enters
<1>3. \A b \in Blocks : ~IsDirAt(e, i) => (Blk(e, i, b) # None <=> b = 0)
  BY DEF Enters
<1>4. Live(d) \subseteq Live(e) /\ i \in Live(e) /\ \A k \in Live(e) : k \in Live(d) \/ k = i
  BY <1>1 DEF With
<1>5. i # 0 /\ i \in Inums /\ 0 \in Live(d)
  BY DEF Live
<1>6. Has(e, p, nm, i)
  BY <1>2
<1>7. x \in TreeOf(e).entries
  BY <1>4, <1>6, HasRow
<1>8. x.dir = p /\ x.name = nm /\ x.inum = i /\ x.isdir = IsDirAt(e, i)
  BY DEF Row
<1> HIDE DEF x
<1>9. ASSUME NEW y \in TreeOf(d).entries
      PROVE  y \in TreeOf(e).entries /\ (y.dir # p \/ y.name # nm) /\ y.inum # i
  <2>1. y.dir \in Live(d) /\ y.inum \in Live(d) /\ Has(d, y.dir, y.name, y.inum)
    BY RowHas
  <2>2. y.inum # i
    BY <2>1
  <2>3. y.dir \in Live(e) /\ Has(e, y.dir, y.name, y.inum) /\ IsDirAt(d, y.inum) = IsDirAt(e, y.inum)
    BY <1>1, <1>2, <1>4, <2>1
  <2>4. y \in TreeOf(e).entries
    BY <2>3, RowsFrom
  <2>5. ASSUME y.dir = p, y.name = nm PROVE FALSE
    <3>1. Has(e, p, nm, y.inum) /\ p \in Live(e) /\ Unique(e, Live(e))
      BY <1>4, <2>3, <2>5 DEF Fit
    <3>2. y.inum = i
      BY <1>6, <3>1 DEF Unique
    <3>3. QED BY <2>2, <3>2
  <2>6. QED BY <2>2, <2>4, <2>5
<1>10. ASSUME NEW y \in TreeOf(e).entries, y # x PROVE y \in TreeOf(d).entries
  <2>1. y.dir \in Live(e) /\ y.inum \in Live(e) /\ Has(e, y.dir, y.name, y.inum)
        /\ y = Row(e, y.dir, y.name, y.inum)
    BY RowHas
  <2>2. y.dir \in Live(d)
    BY <1>1, <1>4, <2>1 DEF Bare
  <2>3. Has(d, y.dir, y.name, y.inum)
    <3>1. ~(y.dir = p /\ y.name = nm /\ y.inum = i)
      BY <1>10, <2>1 DEF x
    <3>2. QED BY <1>2, <2>1, <2>2, <3>1
  <2>4. y.inum \in Live(d)
    BY <2>3, HasCell
  <2>5. IsDirAt(e, y.inum) = IsDirAt(d, y.inum)
    BY <1>1, <2>4
  <2>6. QED BY <2>2, <2>3, <2>5, RowsFrom
<1>11. TreeOf(e).entries = TreeOf(d).entries \cup {x}
  BY <1>7, <1>9, <1>10
<1>12. x \notin TreeOf(d).entries
  BY <1>8, <1>9
<1>13. p = 0 \/ \E y \in TreeOf(d).entries : y.inum = p /\ y.isdir
  BY <1>1, LiveRow
<1>14. ASSUME NEW l \in Inums, NEW c \in Blocks, l # i
       PROVE  /\ IsBlock(e, l, c) <=> IsBlock(d, l, c)
              /\ IsBlock(d, l, c) => BlockAt(e, Blk(e, l, c)) = BlockAt(d, Blk(d, l, c))
  <2>1. CASE l \in Live(d)
    <3>1. PICK X : X = {}
      OBVIOUS
    <3>2. SameFiles(d, e, Live(d), X) /\ <<l, c>> \notin X
      BY <1>1, <3>1
    <3>3. l \in Live(e) /\ IsDirAt(e, l) = IsDirAt(d, l)
      BY <1>1, <1>4, <2>1
    <3>4. QED BY <2>1, <3>2, <3>3, BlockSame
  <2>2. CASE l \notin Live(d)
    BY <1>4, <1>14, <2>2 DEF IsBlock
  <2>3. QED BY <2>1, <2>2
<1>15. ASSUME NEW c \in Blocks PROVE ~IsBlock(d, i, c)
  BY DEF IsBlock
<1>16. ASSUME NEW c \in Blocks PROVE IsBlock(e, i, c) <=> ~IsDirAt(e, i) /\ c = 0
  BY <1>3, <1>4, <1>5 DEF IsBlock
<1>17. CASE IsDirAt(e, i)
  <2>1. ASSUME NEW l \in Inums, NEW c \in Blocks
        PROVE  /\ IsBlock(e, l, c) <=> IsBlock(d, l, c)
               /\ IsBlock(d, l, c) => BlockAt(e, Blk(e, l, c)) = BlockAt(d, Blk(d, l, c))
    BY <1>14, <1>15, <1>16, <1>17
  <2>2. TreeOf(e).content = TreeOf(d).content
    BY <2>1, ContentSame
  <2>3. QED BY <1>5, <1>8, <1>9, <1>11, <1>12, <1>13, <1>17, <2>2 DEF EntersTree, x
<1>18. CASE ~IsDirAt(e, i)
  <2>1. 0 \in Blocks
    BY Constants
  <2>2. ASSUME NEW y \in Inums \X Blocks
        PROVE  y \in Content(e) <=> y \in Content(d) \/ y = <<i, 0>>
    <3>1. PICK l \in Inums, c \in Blocks : y = <<l, c>>
      OBVIOUS
    <3>2. y \in Content(e) <=> IsBlock(e, l, c)
      BY <3>1 DEF Content
    <3>3. y \in Content(d) <=> IsBlock(d, l, c)
      BY <3>1 DEF Content
    <3>4. CASE l = i
      BY <1>15, <1>16, <1>18, <3>1, <3>2, <3>3, <3>4
    <3>5. CASE l # i
      BY <1>14, <3>1, <3>2, <3>3, <3>5
    <3>6. QED BY <3>4, <3>5
  <2>3. Content(e) = Content(d) \cup {<<i, 0>>}
    <3>1. <<i, 0>> \in Inums \X Blocks /\ Content(d) \subseteq Inums \X Blocks /\ Content(e) \subseteq Inums \X Blocks
      BY <2>1 DEF Content
    <3>2. QED BY <2>2, <3>1
  <2>4. ASSUME NEW y \in Content(d) \cup {<<i, 0>>}
        PROVE  BlockAt(e, Blk(e, y[1], y[2])) = IF y = <<i, 0>> THEN Junk ELSE TreeOf(d).content[y]
    <3>1. CASE y = <<i, 0>>
      <4>1. y[1] = i /\ y[2] = 0
        BY <3>1
      <4>2. QED BY <1>1, <3>1, <4>1
    <3>2. CASE y # <<i, 0>>
      <4>1. PICK l \in Inums, c \in Blocks : y = <<l, c>> /\ IsBlock(d, l, c)
        BY <3>2 DEF Content
      <4>2. l # i
        BY <1>15, <4>1
      <4>3. BlockAt(e, Blk(e, l, c)) = BlockAt(d, Blk(d, l, c))
        BY <1>14, <4>1, <4>2
      <4>4. y \in Content(d) /\ y[1] = l /\ y[2] = c
        BY <3>2, <4>1
      <4>5. TreeOf(d).content[y] = BlockAt(d, Blk(d, l, c))
        BY <4>4, ContentOf
      <4>6. QED BY <3>2, <4>3, <4>4, <4>5
    <3>3. QED BY <3>1, <3>2
  <2>5. DOMAIN TreeOf(d).content = Content(d)
    BY ContentOf
  <2>6. TreeOf(e).content = [y \in Content(e) |-> BlockAt(e, Blk(e, y[1], y[2]))]
    BY ContentOf
  <2>7. TreeOf(e).content = [y \in DOMAIN TreeOf(d).content \cup {<<i, 0>>} |->
                               IF y = <<i, 0>> THEN Junk ELSE TreeOf(d).content[y]]
    BY <2>3, <2>4, <2>5, <2>6
  <2>8. QED BY <1>5, <1>8, <1>9, <1>11, <1>12, <1>13, <1>18, <2>7 DEF EntersTree, x
<1>19. QED BY <1>17, <1>18

\* A name that goes, and what the inode held.
LeavesTree(d, e, x) ==
  /\ x \in TreeOf(d).entries /\ TreeOf(e).entries = TreeOf(d).entries \ {x}
  /\ \A y \in TreeOf(d).entries : y.dir # x.inum
  /\ TreeOf(e).content =
       [y \in {y \in DOMAIN TreeOf(d).content : y[1] # x.inum} |-> TreeOf(d).content[y]]

\* A write that removes a name, removes it from the tree.
LEMMA LeaveTree ==
  ASSUME NEW d, NEW e, Fit(d), Fit(e), NEW p \in Live(d), NEW k \in Live(d), NEW nm,
         Leaves(d, e, p, nm, k)
  PROVE  LeavesTree(d, e, Row(d, p, nm, k))
<1> DEFINE x == Row(d, p, nm, k)
<1>1. /\ Has(d, p, nm, k) /\ k # 0 /\ Live(e) = Others(Live(d), k)
      /\ \A q \in Live(e) : IsDirAt(e, q) = IsDirAt(d, q)
      /\ SameFiles(d, e, Live(e), {}) /\ Bare(d, k)
  BY DEF Leaves, SameType
<1>2. \A q \in Live(e) : \A on, l : Has(e, q, on, l) <=> Has(d, q, on, l) /\ ~(q = p /\ on = nm)
  BY DEF Leaves
<1>3. Live(e) \subseteq Live(d) /\ k \notin Live(e) /\ \A l \in Live(d) : l \in Live(e) \/ l = k
  BY <1>1 DEF Others
<1>4. x \in TreeOf(d).entries
  BY <1>1, HasRow
<1>5. x.dir = p /\ x.name = nm /\ x.inum = k
  BY DEF Row
<1> HIDE DEF x
<1>6. ASSUME NEW y \in TreeOf(e).entries PROVE y \in TreeOf(d).entries /\ y # x
  <2>1. y.dir \in Live(e) /\ y.inum \in Live(e) /\ Has(e, y.dir, y.name, y.inum)
    BY RowHas
  <2>2. Has(d, y.dir, y.name, y.inum) /\ y.dir \in Live(d) /\ IsDirAt(e, y.inum) = IsDirAt(d, y.inum)
    BY <1>1, <1>2, <1>3, <2>1
  <2>3. y # x
    BY <1>2, <1>5, <2>1
  <2>4. QED BY <2>2, <2>3, RowsFrom
<1>7. ASSUME NEW y \in TreeOf(d).entries
      PROVE  y.dir # k /\ (y # x => y \in TreeOf(e).entries)
  <2>1. y.dir \in Live(d) /\ y.inum \in Live(d) /\ Has(d, y.dir, y.name, y.inum)
        /\ y = Row(d, y.dir, y.name, y.inum)
    BY RowHas
  <2>2. y.dir # k
    BY <1>1, <2>1 DEF Bare
  <2>3. ASSUME y # x PROVE y \in TreeOf(e).entries
    <3>1. ~(y.dir = p /\ y.name = nm)
      <4>1. ASSUME y.dir = p, y.name = nm PROVE FALSE
        <5>1. Unique(d, Live(d))
          BY DEF Fit
        <5>2. y.inum = k
          BY <1>1, <2>1, <4>1, <5>1 DEF Unique
        <5>3. QED BY <2>1, <2>3, <4>1, <5>2 DEF x
      <4>2. QED BY <4>1
    <3>2. y.dir \in Live(e)
      BY <1>3, <2>1, <2>2
    <3>3. Has(e, y.dir, y.name, y.inum)
      BY <1>2, <2>1, <3>1, <3>2
    <3>4. y.inum \in Live(e)
      BY <3>3, HasCell
    <3>5. IsDirAt(d, y.inum) = IsDirAt(e, y.inum)
      BY <1>1, <3>4
    <3>6. QED BY <3>2, <3>3, <3>5, RowsFrom
  <2>4. QED BY <2>2, <2>3
<1>8. TreeOf(e).entries = TreeOf(d).entries \ {x}
  BY <1>6, <1>7
<1>9. ASSUME NEW l \in Inums, NEW c \in Blocks, l # k
      PROVE  /\ IsBlock(e, l, c) <=> IsBlock(d, l, c)
             /\ IsBlock(d, l, c) => BlockAt(e, Blk(e, l, c)) = BlockAt(d, Blk(d, l, c))
  <2>1. CASE l \in Live(d)
    <3>1. PICK X : X = {}
      OBVIOUS
    <3>2. SameFiles(d, e, Live(e), X) /\ <<l, c>> \notin X
      BY <1>1, <3>1
    <3>3. l \in Live(e) /\ IsDirAt(e, l) = IsDirAt(d, l)
      BY <1>1, <1>3, <1>9, <2>1
    <3>4. QED BY <2>1, <3>2, <3>3, BlockSame
  <2>2. CASE l \notin Live(d)
    BY <1>3, <2>2 DEF IsBlock
  <2>3. QED BY <2>1, <2>2
<1>10. ASSUME NEW c PROVE ~IsBlock(e, k, c)
  BY <1>3 DEF IsBlock
<1>11. Content(e) = {y \in Content(d) : y[1] # k}
  <2>1. ASSUME NEW y \in Inums \X Blocks
        PROVE  y \in Content(e) <=> y \in Content(d) /\ y[1] # k
    <3>1. PICK l \in Inums, c \in Blocks : y = <<l, c>> /\ y[1] = l
      OBVIOUS
    <3>2. y \in Content(e) <=> IsBlock(e, l, c)
      BY <3>1 DEF Content
    <3>3. y \in Content(d) <=> IsBlock(d, l, c)
      BY <3>1 DEF Content
    <3>4. QED BY <1>9, <1>10, <3>1, <3>2, <3>3
  <2>2. Content(d) \subseteq Inums \X Blocks /\ Content(e) \subseteq Inums \X Blocks
    BY DEF Content
  <2>3. QED BY <2>1, <2>2
<1>12. ASSUME NEW y \in Content(d), y[1] # k
       PROVE  BlockAt(e, Blk(e, y[1], y[2])) = TreeOf(d).content[y]
  <2>1. PICK l \in Inums, c \in Blocks : y = <<l, c>> /\ y[1] = l /\ y[2] = c /\ IsBlock(d, l, c)
    BY DEF Content
  <2>2. BlockAt(e, Blk(e, l, c)) = BlockAt(d, Blk(d, l, c))
    BY <1>9, <1>12, <2>1
  <2>3. TreeOf(d).content[y] = BlockAt(d, Blk(d, l, c))
    BY <2>1, ContentOf
  <2>4. QED BY <2>1, <2>2, <2>3
<1>13. DOMAIN TreeOf(d).content = Content(d)
  BY ContentOf
<1>14. TreeOf(e).content = [y \in Content(e) |-> BlockAt(e, Blk(e, y[1], y[2]))]
  BY ContentOf
<1>15. TreeOf(e).content =
         [y \in {y \in DOMAIN TreeOf(d).content : y[1] # k} |-> TreeOf(d).content[y]]
  BY <1>11, <1>12, <1>13, <1>14
<1>16. QED BY <1>4, <1>5, <1>7, <1>8, <1>15 DEF LeavesTree, x

\* A write of the server is a step of the tree, or none.
LEMMA WriteIsStep ==
  ASSUME tree = TreeOf(disk), tree' = TreeOf(disk'), Fit(disk), Fit(disk'), Shows(disk, disk')
  PROVE  [Tree!Next]_(Tree!treevars)
<1> USE DEF Tree!treevars
<1>1. ASSUME TreeStill(disk, disk') PROVE UNCHANGED Tree!treevars
  BY <1>1 DEF TreeStill
<1>2. CASE Still(disk, disk')
  BY <1>1, <1>2, StillTree
<1>3. CASE \E k \in Live(disk), b \in Blocks : Changes(disk, disk', k, b)
  <2>1. PICK k \in Live(disk), b \in Blocks : Changes(disk, disk', k, b)
    BY <1>3
  <2> DEFINE y == <<k, b>>
  <2>2. \/ TreeStill(disk, disk')
        \/ y \notin DOMAIN tree.content /\ Sets(disk, disk', k, b, Junk)
        \/ y \in DOMAIN tree.content /\ \E v \in Data \cup {Junk} : Sets(disk, disk', k, b, v)
    BY <2>1, ChangesTree
  <2>3. CASE y \notin DOMAIN tree.content /\ Sets(disk, disk', k, b, Junk)
    <3>1. y \in DOMAIN tree'.content \ DOMAIN tree.content
      BY <2>3 DEF Sets
    <3>2. y[1] = k /\ y[2] = b
      OBVIOUS
    <3>3. Tree!Grow(y)
      BY <2>3, <3>2 DEF Sets, Tree!Grow, Tree!Added
    <3> HIDE DEF y
    <3>4. QED BY <3>1, <3>3 DEF Tree!Next
  <2>4. CASE y \in DOMAIN tree.content /\ \E v \in Data \cup {Junk} : Sets(disk, disk', k, b, v)
    <3>1. PICK v \in Data \cup {Junk} : Sets(disk, disk', k, b, v)
      BY <2>4
    <3>2. tree'.content = [tree.content EXCEPT ![y] = v] /\ tree'.entries = tree.entries
      <4>1. DOMAIN tree.content \cup {y} = DOMAIN tree.content
        BY <2>4
      <4>2. tree'.content = [z \in DOMAIN tree.content |-> IF z = y THEN v ELSE tree.content[z]]
        BY <3>1, <4>1 DEF Sets
      <4> HIDE DEF y
      <4>3. tree.content = [z \in DOMAIN tree.content |-> tree.content[z]]
        BY DEF TreeOf
      <4>4. QED BY <2>4, <3>1, <4>2, <4>3 DEF Sets
    <3> HIDE DEF y
    <3>3. y \in DOMAIN tree.content \cap DOMAIN tree'.content /\ tree'.content[y] = v
      BY <2>4, <3>2
    <3>4. CASE v \in Data
      <4>1. Tree!Write(y, tree'.content[y])
        BY <3>2, <3>3 DEF Tree!Write
      <4>2. QED BY <3>3, <3>4, <4>1 DEF Tree!Next
    <3>5. CASE v = Junk
      <4>1. Tree!Erase(y)
        BY <3>2, <3>5 DEF Tree!Erase
      <4>2. QED BY <3>3, <4>1 DEF Tree!Next
    <3>6. QED BY <3>4, <3>5
  <2>5. QED BY <1>1, <2>2, <2>3, <2>4
<1>4. CASE \E p \in Live(disk), i \in Inums \ Live(disk), nm \in Names : Enters(disk, disk', p, nm, i)
  <2>1. PICK p \in Live(disk), i \in Inums \ Live(disk), nm \in Names : Enters(disk, disk', p, nm, i)
    BY <1>4
  <2>2. PICK x : EntersTree(disk, disk', x)
    BY <2>1, EnterTree
  <2>3. Tree!Creat(x)
    BY <2>2 DEF EntersTree, Tree!Creat, Tree!IsDirectory, Tree!Added
  <2>4. x \in tree'.entries \ tree.entries
    BY <2>2 DEF EntersTree
  <2>5. QED BY <2>3, <2>4 DEF Tree!Next
<1>5. CASE \E p, k \in Live(disk) : \E nm : Leaves(disk, disk', p, nm, k)
  <2>1. PICK p \in Live(disk), k \in Live(disk) : \E nm : Leaves(disk, disk', p, nm, k)
    BY <1>5
  <2>2. PICK x : LeavesTree(disk, disk', x)
    BY <2>1, LeaveTree
  <2>3. Tree!Unlink(x)
    BY <2>2 DEF LeavesTree, Tree!Unlink
  <2>4. x \in tree.entries \ tree'.entries
    BY <2>2 DEF LeavesTree
  <2>5. QED BY <2>3, <2>4 DEF Tree!Next
<1>6. QED BY <1>2, <1>3, <1>4, <1>5 DEF Shows

\* A good image is fit, or the tree has a name without a number.
LEMMA FitIf ==
  ASSUME NEW d, NEW U, Well(d, U), None \notin U
  PROVE  Fit(d) \/ \E e \in TreeOf(d).entries : e.inum = None
<1>1. Sound(d, Live(d)) /\ Placed(d) /\ Dots(d, Live(d)) /\ Unique(d, Live(d))
  BY DEF Well, Fine, Proper
<1>2. CASE NoNone(d)
  BY <1>1, <1>2 DEF Fit
<1>3. CASE ~NoNone(d)
  <2>1. PICK a \in DOMAIN d : IsName(d, a) /\ d[a].inum = None
    BY <1>3 DEF NoNone
  <2>2. PICK q \in Live(d) : EntryOf(d, q, a) \in TreeOf(d).entries
    BY <1>1, <2>1, NameEntry
  <2>3. EntryOf(d, q, a).inum = None
    BY <2>1 DEF EntryOf
  <2>4. QED BY <2>2, <2>3
<1>4. QED BY <1>2, <1>3

\* The image implements the tree: whatever order of calls and crashes, every write
\* of server.c shows as one step of the tree or as none, for as long as no call
\* relies on a size that UNLINK has reset, every name has a number and no UNLINK
\* makes a stray write.
THEOREM TreeImplemented == Spec => TreeSpec
<1> USE DEF Tree!treevars
<1>1. Init => Tree!Init
  <2> SUFFICES ASSUME Init PROVE tree.entries = {} /\ tree.content = <<>>
    BY DEF Tree!Init
  <2>1. /\ Well(Image, {}) /\ \A a \in DOMAIN Image : ~IsName(Image, a)
    BY ImageWell
  <2>2. /\ tree = TreeOf(Image) /\ Sound(Image, Live(Image)) /\ Live(Image) = {0}
        /\ Fit(Image)
    <3>1. tree = TreeOf(Image) /\ Live(Image) = {0} /\ NoNone(Image)
      BY <2>1 DEF Init, Live, NoNone
    <3>2. QED BY <2>1, <3>1 DEF Well, Fine, Proper, Fit
  <2>3. ASSUME NEW x \in TreeOf(Image).entries PROVE FALSE
    BY <2>2, RowHas, RowNotRoot
  <2>4. ASSUME NEW x \in Content(Image) PROVE FALSE
    BY <2>2 DEF Content, IsBlock
  <2>5. tree.content = [x \in {} |-> BlockAt(Image, Blk(Image, x[1], x[2]))]
    BY <2>2, <2>4, ContentOf
  <2>6. QED BY <2>2, <2>3, <2>5
<1>2. ASSUME Orderly, [Next]_vars
      PROVE  [Tree!Next \/ spoiled \/ Numberless' \/ Stray]_(Tree!treevars)
  <2>1. CASE tree' = tree
    BY <2>1
  <2>2. CASE tree' # tree
    <3>1. DiskWrite
      BY <1>2, <2>2 DEF Next, Creat, Write, Unlink, StrayUnlink, Serve, Answer, Crash, vars
    <3>9. Orderly'
      BY <1>2, <3>1, WriteStep
    <3>2. SUFFICES ASSUME ~spoiled, ~Numberless' PROVE [Tree!Next]_(Tree!treevars)
      BY <3>1
    <3>3. tree = TreeOf(disk) /\ tree' = TreeOf(disk') /\ spoiled' = spoiled
      BY <1>2, <3>1 DEF Orderly, DiskWrite
    <3>4. Shown(disk, disk', Off)
      BY <1>2, <3>1, WriteStep DEF Kept, Goes
    <3>5. None \notin Off
      BY <3>2 DEF Off
    <3>6. Fit(disk')
      <4>1. Well(disk', Off')
        BY <3>9, OnwardWell DEF Orderly, LeadOn
      <4>2. None \notin Off'
        BY <3>2, <3>3 DEF Off
      <4>3. ~ \E e \in TreeOf(disk').entries : e.inum = None
        BY <3>2, <3>3 DEF Numberless
      <4>4. QED BY <4>1, <4>2, <4>3, FitIf
    <3>7. Fit(disk) /\ Shows(disk, disk')
      <4>1. NoNone(disk) /\ Shows(disk, disk')
        BY <3>4, <3>5, <3>6 DEF Shown, Fit
      <4>2. Well(disk, Off)
        BY <1>2, InvSound
      <4>3. QED BY <4>1, <4>2, <3>5 DEF Well, Fine, Proper, Fit
    <3>8. QED BY <3>3, <3>6, <3>7, WriteIsStep
  <2>3. QED BY <2>1, <2>2
<1>3. IInv /\ [Next]_vars => [Tree!Next \/ spoiled \/ Numberless' \/ Stray]_(Tree!treevars)
  BY <1>2 DEF IInv
<1>4. QED BY <1>1, <1>3, Invariance, PTL DEF Spec, TreeSpec

-----------------------------------------------------------------------------
(* A call that is sent again                                               *)

\* The image is nothing but its cells.
Cells(d) == d = [a \in DOMAIN d |-> d[a]]

\* It is so after any write,
LEMMA PutCells ==
  ASSUME NEW d, NEW at, NEW cells
  PROVE  Cells(Put(d, at, cells))
BY DEF Cells, Put

\* and therefore always.
LEMMA AlwaysCells == Spec => []Cells(disk)
<1>1. Init => Cells(disk)
  <2> SUFFICES ASSUME Init PROVE Cells(disk)
    OBVIOUS
  <2>1. \E d, at, cells : disk = Put(d, at, cells)
    BY DEF Init, Image
  <2>2. QED BY <2>1, PutCells
<1>2. Cells(disk) /\ [Next]_vars => Cells(disk)'
  <2> SUFFICES ASSUME Cells(disk), [Next]_vars PROVE Cells(disk)'
    OBVIOUS
  <2>1. disk' = disk \/ disk' = Put(disk, Head(todo)[1], Head(todo)[2])
    BY DEF Next, Creat, Write, Unlink, StrayUnlink, Serve, DiskWrite, Answer, Crash, vars
  <2>2. Cells(Put(disk, Head(todo)[1], Head(todo)[2]))
    BY PutCells
  <2>3. QED BY <2>1, <2>2 DEF Cells
<1>3. QED BY <1>1, <1>2, PTL DEF Spec

\* Writing what is there changes nothing.
LEMMA PutSame ==
  ASSUME NEW d, Cells(d), NEW at \in Int, NEW cells, DOMAIN cells \subseteq Int,
         \A j \in DOMAIN cells : at + j \in DOMAIN d /\ d[at + j] = cells[j]
  PROVE  Put(d, at, cells) = d
<1> DEFINE new == {at + j : j \in DOMAIN cells}
<1>1. DOMAIN d \cup new = DOMAIN d
  OBVIOUS
<1>2. ASSUME NEW a \in new PROVE cells[a - at] = d[a]
  <2>1. PICK j \in DOMAIN cells : a = at + j
    OBVIOUS
  <2>2. a - at = j
    BY <2>1
  <2>3. QED BY <2>1, <2>2
<1>3. Put(d, at, cells) = [a \in DOMAIN d \cup new |-> IF a \in new THEN cells[a - at] ELSE d[a]]
  BY DEF Put
<1> HIDE DEF new
<1>4. Put(d, at, cells) = [a \in DOMAIN d |-> d[a]]
  BY <1>1, <1>2, <1>3
<1>5. QED BY <1>4 DEF Cells

\* CREAT finds the name,
LEMMA CreatAgain ==
  ASSUME NEW d, Fit(d), NEW p, NEW nm \in Names, NEW type,
         Stores(d, p, nm) \/ (p \in Live(d) /\ Exists(d, p, nm))
  PROVE  Harmless(d, server_create(d, p, type, nm))
<1>1. Sound(d, Live(d)) /\ NoNone(d) /\ p \in Live(d)
  BY DEF Fit, Stores
<1>2. Exists(d, p, nm)
  <2> SUFFICES ASSUME Stores(d, p, nm), ~Exists(d, p, nm) PROVE FALSE
    OBVIOUS
  <2>1. PICK k : Holds(d, p, nm, k) /\ IsDirAt(d, p)
    BY DEF Stores
  <2>2. nm \notin {".", "..", Free}
    BY LogAssumption DEF Free
  <2>3. k # None
    <3>1. PICK b \in Blocks, j \in Slots :
            /\ IsEntry(d, Blk(d, p, b) + j)
            /\ d[Blk(d, p, b) + j].name = nm /\ d[Blk(d, p, b) + j].inum = k
      BY <2>1 DEF Holds
    <3>2. QED BY <1>1, <2>2, <3>1 DEF NoNone, IsName, IsEntry
  <2>4. Has(d, p, nm, k)
    BY <2>1, <2>2, <2>3 DEF Has
  <2>5. QED BY <1>1, <2>1, <2>4, NotThere
<1>3. IsInode(d, p) /\ p \in Inums
  <2>1. InPlace(d, p) /\ Shaped(d)
    BY <1>1 DEF Sound
  <2>2. QED BY <1>1, <2>1, LocIs, Facts
<1>4. server_create(d, p, type, nm) = Reply(0)
  BY <1>2, <1>3 DEF server_create
<1>5. QED BY <1>4 DEF Harmless, Reply

\* UNLINK does not,
LEMMA UnlinkAgain ==
  ASSUME NEW d, Sound(d, Live(d)), NEW p, NEW nm \in Names, Lacks(d, p, nm),
         NEW h \in server_unlink(d, p, nm)
  PROVE  Harmless(d, h)
<1> DEFINE ino   == Inode(d, p)
           found == Matches(d, OwnAddr(ino), nm)
<1>1. nm \notin {".", "..", Free}
  BY LogAssumption DEF Free
<1>2. p \in Live(d) /\ IsDir(d, p) /\ IsDirAt(d, p) /\ ino = d[Loc(d, p)] /\ InPlace(d, p)
  BY LiveType DEF Lacks, Sound
<1>3. found = {}
  <2> SUFFICES ASSUME found # {} PROVE FALSE
    OBVIOUS
  <2> DEFINE at == OwnAddr(ino)[Min(found)]
  <2>1. ino \in InodeCells /\ Listed(d, ino)
    <3>1. d[Loc(d, p)] \in InodeCells
      BY <1>2, Facts
    <3>2. QED BY <1>2, <3>1 DEF InPlace, Listed, Blk
  <2>2. /\ IsEntry(d, at) /\ d[at].name = nm
        /\ \E b \in Blocks, j \in Slots : ino.block_loc[b] # None /\ at = ino.block_loc[b] + j
    <3> HIDE DEF ino
    <3>1. QED BY <2>1, FoundIn
  <2> HIDE DEF at
  <2>3. Holds(d, p, nm, d[at].inum)
    BY <1>2, <2>2 DEF Holds, Blk
  <2>4. QED BY <2>3 DEF Lacks
<1>4. h = Reply(0)
  BY <1>1, <1>2, <1>3 DEF server_unlink
<1>5. QED BY <1>4 DEF Harmless, Reply

\* and WRITE puts the inode and the data where they are.
LEMMA WriteAgain ==
  ASSUME NEW d, Sound(d, Live(d)), Cells(d), NEW k, NEW v, NEW b, Wrote(d, k, v, b)
  PROVE  Harmless(d, server_write(d, k, v, b))
<1> DEFINE ino == d[Loc(d, k)]
           loc == Blk(d, k, b)
           w   == << <<Loc(d, k), One(ino)>>, <<loc, DataBlock(v)>> >>
<1>1. k \in Live(d) /\ IsFile(d, k) /\ b \in Blocks /\ ino.size = b + 1 /\ loc # None /\ Filled(d, loc, v)
  BY DEF Wrote
<1>2. Inode(d, k) = ino /\ InodeLoc(d)[k] = Loc(d, k)
  <2>1. InPlace(d, k) /\ Shaped(d)
    BY <1>1 DEF Sound
  <2>2. QED BY <2>1, LocIs
<1>3. ino \in InodeCells /\ Loc(d, k) \in Int /\ Loc(d, k) \in DOMAIN d /\ loc \in Int
  BY <1>1, Facts
<1>4. [ino EXCEPT !.size = b + 1, !.block_loc[b] = loc] = ino
  <2>1. loc = ino.block_loc[b]
    BY DEF Blk
  <2> HIDE DEF ino, loc
  <2>2. ino.block_loc \in [Blocks -> Int]
    BY <1>3 DEF InodeCells
  <2>3. [ino.block_loc EXCEPT ![b] = loc] = ino.block_loc
    BY <1>1, <2>1, <2>2
  <2>4. [ino EXCEPT !.size = b + 1, !.block_loc[b] = loc] =
        [ino EXCEPT !.size = b + 1, !.block_loc = [ino.block_loc EXCEPT ![b] = loc]]
    BY <1>3, <2>2 DEF InodeCells
  <2>5. QED BY <1>1, <1>3, <2>3, <2>4 DEF InodeCells
<1>5. server_write(d, k, v, b).ret = 0 /\ server_write(d, k, v, b).writes = <<>> \o w
  BY <1>1, <1>2, <1>4 DEF server_write, DataAt, Blk
<1>6. <<>> \o w = w
  OBVIOUS
<1>7. Put(d, Loc(d, k), One(ino)) = d
  <2>1. DOMAIN One(ino) = {0} /\ One(ino)[0] = ino /\ Loc(d, k) + 0 = Loc(d, k)
    BY <1>3 DEF One
  <2> DEFINE c == One(ino)
             l == Loc(d, k)
  <2>2. l \in Int /\ DOMAIN c \subseteq Int /\ \A j \in DOMAIN c : l + j \in DOMAIN d /\ d[l + j] = c[j]
    BY <1>3, <2>1
  <2> HIDE DEF c, l
  <2>3. Put(d, l, c) = d
    BY <2>2, PutSame
  <2>4. QED BY <2>3 DEF c, l
<1>8. Put(d, loc, DataBlock(v)) = d
  <2> DEFINE c == DataBlock(v)
  <2>1. DOMAIN c = Slots /\ Slots \subseteq Int /\ \A j \in Slots : c[j] = DataCell(v)
    BY DEF DataBlock, Slots
  <2>2. \A j \in DOMAIN c : loc + j \in DOMAIN d /\ d[loc + j] = c[j]
    BY <1>1, <2>1 DEF Filled
  <2> HIDE DEF c, loc
  <2>3. Put(d, loc, c) = d
    BY <1>3, <2>1, <2>2, PutSame
  <2>4. QED BY <2>3 DEF c
<1>9. DOMAIN w = 1..2 /\ w[1][1] = Loc(d, k) /\ w[1][2] = One(ino) /\ w[2][1] = loc /\ w[2][2] = DataBlock(v)
  OBVIOUS
<1> HIDE DEF w, loc, ino
<1>10. \A j \in DOMAIN w : Put(d, w[j][1], w[j][2]) = d
  BY <1>7, <1>8, <1>9
<1>11. QED BY <1>5, <1>6, <1>10 DEF Harmless

\* A call that was answered 0 can be executed again, as it is when its answer is
\* lost and libmfs sends it again: it is answered 0 and the image stays as it is,
\* whatever crashes and calls came before. So until a call relies on a size that
\* UNLINK has reset or an UNLINK makes a stray write; and a CREAT as long as every
\* name has a number.
THEOREM RepeatsHarmless == Spec => []RepeatIsHarmless
<1>1. Orderly /\ Cells(disk) => RepeatIsHarmless
  <2> SUFFICES ASSUME Orderly, Cells(disk), ~spoiled, call # Idle, todo = <<>>, ret = 0,
                      call.lib = "CREAT" => ~Numberless
               PROVE  \A h \in Again(call) : Harmless(disk, h)
    BY DEF RepeatIsHarmless
  <2>1. None \notin Off /\ Well(disk, Off) /\ tree = TreeOf(disk) /\ Sound(disk, Live(disk))
    BY InvSound DEF Off
  <2>2. call.lib = "CREAT" => Fit(disk)
    BY <2>1, FitIf DEF Numberless
  <2>3. Did(disk, call, ret, Off)
    <3>1. Onward(disk, <<>>, call, ret, Off)
      BY DEF Orderly, LeadOn
    <3>2. QED BY <3>1, LeadsSound, RemovesStep DEF Onward
  <2>4. CASE call.lib = "CREAT"
    <3>1. /\ call.name \in Names
          /\ Stores(disk, call.inum, call.name)
             \/ (call.inum \in Live(disk) /\ Exists(disk, call.inum, call.name))
      BY <2>1, <2>3, <2>4 DEF Did
    <3>2. Harmless(disk, server_create(disk, call.inum, call.type, call.name))
      BY <2>2, <2>4, <3>1, CreatAgain
    <3>3. QED BY <2>4, <3>2 DEF Again
  <2>5. CASE call.lib = "WRITE"
    <3>1. Wrote(disk, call.inum, call.data, call.block)
      BY <2>1, <2>3, <2>5 DEF Did
    <3>2. Harmless(disk, server_write(disk, call.inum, call.data, call.block))
      BY <2>1, <3>1, WriteAgain
    <3>3. QED BY <2>5, <3>2 DEF Again
  <2>6. CASE call.lib = "UNLINK"
    <3>1. call.name \in Names /\ Lacks(disk, call.inum, call.name)
      BY <2>1, <2>3, <2>6 DEF Did
    <3>2. \A h \in server_unlink(disk, call.inum, call.name) : Harmless(disk, h)
      BY <2>1, <3>1, UnlinkAgain
    <3>3. QED BY <2>6, <3>2 DEF Again
  <2>7. QED BY <2>1, <2>3, <2>4, <2>5, <2>6 DEF Did
<1>2. Stray => RepeatIsHarmless
  BY DEF RepeatIsHarmless
<1>3. QED BY <1>1, <1>2, Invariance, AlwaysCells, PTL DEF IInv
=============================================================================
