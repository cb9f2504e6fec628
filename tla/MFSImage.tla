------------------------------ MODULE MFSImage ------------------------------
(***************************************************************************)
(* What holds of the image of the file server at every write: a notion of  *)
(* a sound image, and the kinds of writes that lead from one to another.   *)
(*                                                                         *)
(* An image is sound for a set K of inodes (Sound) when all of K are in    *)
(* place - the map leads to the inode, its blocks are below the end of the *)
(* log, the blocks of a directory hold entries - no two share a cell, and  *)
(* every name on the image is that of one of K.  Nothing is asked of the   *)
(* rest of the image: a crash leaves there inodes that no name leads to,   *)
(* pieces of the map that were never written and blocks half entered.      *)
(* Every write of server.c is of one of five kinds, one lemma each:        *)
(* the checkpoint region (WriteCR), a piece of the map (WritePiece),       *)
(* the free part of the log (WriteFree), a block (WriteBlock) and an inode *)
(* (WriteInode).                                                           *)
(***************************************************************************)
EXTENDS MFSLog, Wrap, SequenceTheorems, WellFoundedInduction, TLAPS

\* The pieces of the inode map, and the places of entries in a block.
Pieces == 0..(IMAPS - 1)
Slots  == 0..(DIRENTS - 1)

\* The inodes the server writes.
InodeCells == [kind : {"inode"}, type : {MFS_DIRECTORY, MFS_REGULAR_FILE},
               size : Nat, block_loc : [Blocks -> Int]]

\* Where the inode map has inode k, the inode's address, and that of its block b.
PieceOf(k) == k \div INODES
IndexOf(k) == k % INODES
MapAt(d, k)  == CR(d).imap[PieceOf(k)]
Loc(d, k)    == d[MapAt(d, k)].inode_loc[IndexOf(k)]
Blk(d, k, b) == d[Loc(d, k)].block_loc[b]
IsDirAt(d, k) == d[Loc(d, k)].type = MFS_DIRECTORY

\* The names on the image, wherever they are, and the inodes that have one.
IsName(d, a) == IsEntry(d, a) /\ d[a].name \notin {".", "..", Free}
Live(d) == {0} \cup ({d[a].inum : a \in {a \in DOMAIN d : IsName(d, a)}} \ {None})

\* The checkpoint region points to pieces below the end of the log, each once,
\* and what is written as a piece or an inode has the words of one.
Shaped(d) ==
  /\ DOMAIN d \subseteq Nat /\ 0 \in DOMAIN d /\ d[0].kind = "cr"
  /\ CR(d).imap \in [Pieces -> Int] /\ CR(d).end \in Nat
  /\ \A m \in Pieces : CR(d).imap[m] # None => CR(d).imap[m] \in 1..(CR(d).end - 1)
  /\ \A m, n \in Pieces : m # n /\ CR(d).imap[m] # None => CR(d).imap[m] # CR(d).imap[n]
  /\ \A a \in DOMAIN d :
       /\ d[a].kind = "imap" => d[a].inode_loc \in [0..(INODES - 1) -> Int]
       /\ d[a].kind = "inode" => d[a] \in InodeCells

\* The blocks of k in use are the first ones.
Gapless(d, k) == \A b, c \in Blocks : c < b /\ Blk(d, k, b) # None => Blk(d, k, c) # None

\* The map leads to the inode k, which is in place with its blocks.
InPlace(d, k) ==
  /\ k \in Inums
  /\ MapAt(d, k) # None /\ MapAt(d, k) \in DOMAIN d
  /\ d[MapAt(d, k)].kind = "imap" /\ d[MapAt(d, k)].inode_loc[0] # None
  /\ Loc(d, k) \in 1..(CR(d).end - 1) /\ Loc(d, k) \in DOMAIN d
  /\ d[Loc(d, k)].kind = "inode"
  /\ Blk(d, k, 0) = Loc(d, k) + 1
  /\ \A b \in Blocks :
       Blk(d, k, b) # None => Blk(d, k, b) \in 1..(CR(d).end - DIRENTS)
  /\ IsDirAt(d, k) =>
       /\ d[Loc(d, k)].size > 0
       /\ \A b \in Blocks : b * DIRENTS < d[Loc(d, k)].size => Blk(d, k, b) # None
       /\ Gapless(d, k)
       /\ \A b \in Blocks : Blk(d, k, b) # None =>
            \A j \in Slots : IsEntry(d, Blk(d, k, b) + j)

\* Address a is not in the block at address at.
Outside(a, at) == a < at \/ at + DIRENTS <= a

\* No two of the inodes K, their blocks and the map pieces share a cell.
Separate(d, K) ==
  /\ \A k \in K, m \in Pieces : CR(d).imap[m] # None =>
       /\ Loc(d, k) # CR(d).imap[m]
       /\ \A b \in Blocks : Blk(d, k, b) # None => Outside(CR(d).imap[m], Blk(d, k, b))
  /\ \A k, l \in K :
       /\ k # l => Loc(d, k) # Loc(d, l)
       /\ \A b \in Blocks : Blk(d, l, b) # None => Outside(Loc(d, k), Blk(d, l, b))
       /\ \A b, c \in Blocks :
            (k # l \/ b # c) /\ Blk(d, k, b) # None /\ Blk(d, l, c) # None =>
            Blk(d, k, b) + DIRENTS <= Blk(d, l, c) \/ Blk(d, l, c) + DIRENTS <= Blk(d, k, b)

\* The image in which the inodes K, and all that have a name, are in place.
Sound(d, K) ==
  Shaped(d) /\ Live(d) \subseteq K /\ Separate(d, K) /\ \A k \in K : InPlace(d, k)

-----------------------------------------------------------------------------
(* Inode numbers, the map and single writes                                *)

\* What the proofs need of the constants.
LEMMA Constants ==
  /\ BLOCKS \in Nat /\ BLOCKS > 0 /\ DIRENTS \in Nat /\ DIRENTS >= 4 /\ BLOCKS < DIRENTS
  /\ IMAPS \in Nat /\ IMAPS > 0 /\ INODES \in Nat /\ INODES > 0
  /\ 0 \in Blocks /\ 0 \in Pieces /\ 0 \in Inums
<1>1. IMAPS * INODES \in Nat /\ IMAPS * INODES > 0
  BY LogAssumption
<1>2. QED BY <1>1, LogAssumption DEF Blocks, Pieces, Inums

\* A number has its place in one piece.
LEMMA Split ==
  ASSUME NEW k \in Inums
  PROVE  PieceOf(k) \in Pieces /\ IndexOf(k) \in 0..(INODES - 1)
<1>1. k \in Int /\ 0 <= k /\ k < IMAPS * INODES /\ INODES \in Nat \ {0} /\ IMAPS \in Nat
  BY LogAssumption DEF Inums
<1> DEFINE q == k \div INODES
           r == k % INODES
<1>2. q \in Int /\ r \in 0..(INODES - 1) /\ k = INODES * q + r
  BY <1>1, DivMod, Zenon
<1> HIDE DEF q, r
<1>3. 0 <= q
  <2>1. SUFFICES ASSUME q <= -1 PROVE FALSE
    BY <1>2
  <2>2. INODES * q <= INODES * (-1)
    BY <2>1, <1>1, <1>2
  <2>3. QED BY <2>2, <1>1, <1>2
<1>4. q < IMAPS
  <2>1. SUFFICES ASSUME q >= IMAPS PROVE FALSE
    BY <1>1, <1>2
  <2>2. INODES * q >= INODES * IMAPS
    BY <2>1, <1>1, <1>2
  <2>3. INODES * IMAPS = IMAPS * INODES
    BY <1>1
  <2>4. QED BY <2>2, <2>3, <1>1, <1>2
<1>5. QED BY <1>1, <1>2, <1>3, <1>4 DEF q, r, PieceOf, IndexOf, Pieces

\* A number is given by its piece and its place there.
LEMMA SameNumber ==
  ASSUME NEW k \in Inums, NEW l \in Inums, PieceOf(k) = PieceOf(l), IndexOf(k) = IndexOf(l)
  PROVE  k = l
<1>1. k \in Int /\ l \in Int /\ INODES \in Nat \ {0}
  BY LogAssumption DEF Inums
<1>2. k = INODES * (k \div INODES) + (k % INODES) /\ l = INODES * (l \div INODES) + (l % INODES)
  BY <1>1, DivMod, Zenon
<1>3. QED BY <1>2 DEF PieceOf, IndexOf

\* The first number of a piece, and the numbers of later pieces.
LEMMA FirstOfPiece ==
  ASSUME NEW q \in Pieces
  PROVE  /\ q * INODES \in Inums /\ PieceOf(q * INODES) = q /\ IndexOf(q * INODES) = 0
         /\ \A k \in Inums : PieceOf(k) >= q /\ (PieceOf(k) # q \/ IndexOf(k) # 0) => q * INODES < k
<1>1. q \in Nat /\ q < IMAPS /\ INODES \in Nat \ {0} /\ IMAPS \in Nat
  BY LogAssumption DEF Pieces
<1>2. q * INODES = INODES * q /\ INODES * q \in Nat
  BY <1>1
<1>3. q * INODES \in Inums
  <2>1. (q + 1) * INODES <= IMAPS * INODES
    BY <1>1
  <2>2. (q + 1) * INODES = q * INODES + INODES
    BY <1>1
  <2>3. \A c, P \in Int : c + INODES <= P /\ 0 <= c => c \in 0..(P - 1)
    BY <1>1
  <2>4. QED BY <2>1, <2>2, <2>3, <1>1, <1>2 DEF Inums
<1>4. (q * INODES) % INODES = 0 /\ (q * INODES) \div INODES = q
  <2>1. 0 \in 0..(INODES - 1) /\ q \in Int
    BY <1>1
  <2>2. (q * INODES + 0) % INODES = 0
    BY <2>1, <1>1, ModIs, Zenon
  <2>3. q * INODES + 0 = q * INODES
    BY <1>2
  <2>4. (q * INODES) % INODES = 0
    BY <2>2, <2>3
  <2> DEFINE a == q * INODES
             p == a \div INODES
  <2>5. a \in Int
    BY <1>2
  <2>6. p \in Int /\ a = INODES * p + (a % INODES)
    BY <2>5, <1>1, DivMod, Zenon
  <2> HIDE DEF p
  <2>7. INODES * p = INODES * q
    BY <2>6, <2>4, <1>2, <1>1
  <2>8. p = q
    <3>1. INODES * (p - q) = INODES * p - INODES * q
      BY <2>6, <1>1
    <3>2. (p - q) * INODES = 0
      BY <3>1, <2>7, <2>6, <1>1
    <3>3. p - q \in Int /\ INODES > 0
      BY <2>6, <1>1
    <3>4. p - q = 0
      BY <3>2, <3>3, <1>1, SmallMultiple
    <3>5. QED BY <3>4, <2>6, <1>1
  <2>9. QED BY <2>8, <2>4 DEF p
<1>5. ASSUME NEW k \in Inums, PieceOf(k) >= q, PieceOf(k) # q \/ IndexOf(k) # 0
      PROVE  q * INODES < k
  <2>1. k \in Int
    BY LogAssumption DEF Inums
  <2> DEFINE r == k \div INODES
             x == k % INODES
  <2>2. r \in Int /\ x \in 0..(INODES - 1) /\ k = INODES * r + x
    BY <2>1, <1>1, DivMod, Zenon
  <2>3. r >= q /\ (r # q \/ x # 0)
    BY <1>5 DEF PieceOf, IndexOf
  <2> HIDE DEF r, x
  <2>4. CASE r = q
    <3>1. \A c \in Int : k = c + x => c < k
      BY <2>2, <2>3, <2>4, <1>1
    <3>2. QED BY <3>1, <2>2, <2>4, <1>2
  <2>5. CASE r >= q + 1
    <3>1. INODES * r >= INODES * (q + 1)
      BY <2>5, <2>2, <1>1
    <3>2. INODES * (q + 1) = INODES * q + INODES
      BY <1>1
    <3>3. INODES * r \in Int
      BY <2>2, <1>1
    <3>4. \A c, e \in Int : k = c + x /\ c >= e + INODES => e < k
      BY <2>2, <1>1
    <3>5. QED BY <3>1, <3>2, <3>3, <3>4, <2>2, <1>2
  <2>6. QED BY <2>3, <2>4, <2>5, <2>2, <1>1
<1>6. QED BY <1>3, <1>4, <1>5 DEF PieceOf, IndexOf

\* Min is the least number of a set.
LEMMA Least ==
  ASSUME NEW S, S \subseteq Nat, S # {}
  PROVE  Min(S) \in S /\ \A y \in S : Min(S) <= y
<1> DEFINE Lt == {ss \in Nat \X Nat : ss[1] < ss[2]}
<1>1. IsWellFoundedOn(Lt, Nat)
  BY NatLessThanWellFounded DEF OpToRel
<1> HIDE DEF Lt
<1>2. PICK x \in S : \A y \in S : <<y, x>> \notin Lt
  BY <1>1, WFMin
<1>3. ASSUME NEW y \in S PROVE x <= y
  <2>1. x \in Nat /\ y \in Nat /\ ~(<<y, x>> \in Lt)
    BY <1>2
  <2>2. ~(y < x)
    BY <2>1, Zenon DEF Lt
  <2>3. QED BY <2>1, <2>2
<1>4. QED BY <1>3 DEF Min

\* lseek and write of one cell: the cells there are then, the new one, the old ones.
LEMMA OneDomain ==
  \A d, cell : \A at \in Int : DOMAIN Put(d, at, One(cell)) = DOMAIN d \cup {at}
BY DEF Put, One

\* The cell written is what is read there.
LEMMA OneNew ==
  \A d, cell : \A at \in Int : Put(d, at, One(cell))[at] = cell
BY DEF Put, One

\* The other cells stay.
LEMMA OneOld ==
  \A d, cell : \A at \in Int : \A a \in DOMAIN d :
    a # at => Put(d, at, One(cell))[a] = d[a]
BY DEF Put, One

\* The same of a write of n cells: the cells there are then.
LEMMA CellsDomain ==
  \A d, cells : \A at \in Int, n \in Nat : DOMAIN cells = 0..(n - 1) =>
    DOMAIN Put(d, at, cells) = DOMAIN d \cup at..(at + n - 1)
<1> TAKE d, cells
<1> TAKE at \in Int, n \in Nat
<1> HAVE DOMAIN cells = 0..(n - 1)
<1> DEFINE new == {at + j : j \in DOMAIN cells}
<1>1. new = at..(at + n - 1)
  <2>1. ASSUME NEW a \in at..(at + n - 1) PROVE a \in new
    <3>1. a - at \in 0..(n - 1) /\ at + (a - at) = a
      OBVIOUS
    <3>2. QED BY <3>1
  <2>2. QED BY <2>1
<1>2. QED BY <1>1 DEF Put

\* The cells written are what is read there.
LEMMA CellsNew ==
  \A d, cells : \A at \in Int, n \in Nat : DOMAIN cells = 0..(n - 1) =>
    \A j \in 0..(n - 1) : Put(d, at, cells)[at + j] = cells[j]
<1> TAKE d, cells
<1> TAKE at \in Int, n \in Nat
<1> HAVE DOMAIN cells = 0..(n - 1)
<1> TAKE j \in 0..(n - 1)
<1>1. at + j \in {at + i : i \in DOMAIN cells}
  BY Zenon
<1>2. (at + j) - at = j
  OBVIOUS
<1>3. QED BY <1>1, <1>2 DEF Put

\* The cells before and after stay.
LEMMA CellsOld ==
  \A d, cells : \A at \in Int, n \in Nat : DOMAIN cells = 0..(n - 1) =>
    \A a \in DOMAIN d : a \notin at..(at + n - 1) => Put(d, at, cells)[a] = d[a]
<1> TAKE d, cells
<1> TAKE at \in Int, n \in Nat
<1> HAVE DOMAIN cells = 0..(n - 1)
<1> TAKE a \in DOMAIN d
<1> HAVE a \notin at..(at + n - 1)
<1>1. a \notin {at + i : i \in DOMAIN cells}
  OBVIOUS
<1>2. QED BY <1>1 DEF Put

\* A write brings no name but those of inodes in K.
LEMMA NoNewNames ==
  ASSUME NEW d, NEW e, NEW K, Live(d) \subseteq K,
         \A a \in DOMAIN e : IsName(e, a) =>
           e[a].inum \in K \cup {None} \/ (a \in DOMAIN d /\ e[a] = d[a])
  PROVE  Live(e) \subseteq K
<1>1. 0 \in K
  BY DEF Live
<1>2. ASSUME NEW a \in DOMAIN e, IsName(e, a), e[a].inum # None
      PROVE  e[a].inum \in K
  <2>1. CASE a \in DOMAIN d /\ e[a] = d[a]
    BY <2>1, <1>2 DEF IsName, IsEntry, Live
  <2>2. QED BY <2>1, <1>2
<1>3. QED BY <1>1, <1>2 DEF Live

\* An image on which everything of the inodes K is where it was.
LEMMA Unmoved ==
  ASSUME NEW d, NEW e, NEW K, Sound(d, K), Shaped(e), Live(e) \subseteq K,
         CR(e).end >= CR(d).end,
         \A m \in Pieces : CR(e).imap[m] # None =>
           CR(e).imap[m] = CR(d).imap[m] \/ CR(e).imap[m] >= CR(d).end,
         \A k \in K :
           /\ MapAt(e, k) = MapAt(d, k) /\ MapAt(d, k) \in DOMAIN e
           /\ e[MapAt(d, k)].kind = "imap" /\ e[MapAt(d, k)].inode_loc[0] # None
           /\ Loc(e, k) = Loc(d, k) /\ Loc(d, k) \in DOMAIN e
           /\ e[Loc(d, k)] = d[Loc(d, k)]
           /\ IsDirAt(d, k) => \A b \in Blocks : Blk(d, k, b) # None =>
                \A j \in Slots : IsEntry(e, Blk(d, k, b) + j)
  PROVE  Sound(e, K)
<1>1. \A k \in K, b \in Blocks : Blk(e, k, b) = Blk(d, k, b)
  BY DEF Blk
<1>2. \A k \in K : IsDirAt(e, k) = IsDirAt(d, k)
  BY DEF IsDirAt
<1>3. /\ CR(d).end \in Nat /\ CR(e).end \in Nat /\ DIRENTS \in Nat
      /\ \A m \in Pieces : CR(d).imap[m] \in Int /\ CR(e).imap[m] \in Int
  BY Constants DEF Sound, Shaped
<1>4. ASSUME NEW k \in K
      PROVE  InPlace(e, k)
  <2>1. InPlace(d, k)
    BY DEF Sound
  <2>2. /\ Loc(d, k) \in 1..(CR(e).end - 1)
        /\ \A b \in Blocks : Blk(d, k, b) # None => Blk(d, k, b) \in 1..(CR(e).end - DIRENTS)
    BY <2>1, <1>3 DEF InPlace
  <2>3. /\ Loc(e, k) \in DOMAIN e /\ e[Loc(e, k)] = d[Loc(d, k)]
        /\ Loc(e, k) = Loc(d, k) /\ MapAt(e, k) = MapAt(d, k)
    OBVIOUS
  <2>4. IsDirAt(e, k) =>
          /\ e[Loc(e, k)].size > 0
          /\ \A b \in Blocks : b * DIRENTS < e[Loc(e, k)].size => Blk(e, k, b) # None
          /\ Gapless(e, k)
          /\ \A b \in Blocks : Blk(e, k, b) # None => \A j \in Slots : IsEntry(e, Blk(e, k, b) + j)
    BY <2>1, <2>3, <1>1, <1>2 DEF InPlace, Gapless
  <2>5. Blk(e, k, 0) = Loc(e, k) + 1
    BY <2>1, <2>3, <1>1, Constants DEF InPlace
  <2>6. /\ k \in Inums /\ MapAt(e, k) # None /\ MapAt(e, k) \in DOMAIN e
        /\ e[MapAt(e, k)].kind = "imap" /\ e[MapAt(e, k)].inode_loc[0] # None
        /\ e[Loc(e, k)].kind = "inode"
    BY <2>1, <2>3 DEF InPlace
  <2> HIDE DEF IsDirAt
  <2>7. QED BY <2>2, <2>3, <2>4, <2>5, <2>6, <1>1 DEF InPlace
<1>5. Separate(e, K)
  <2>1. ASSUME NEW k \in K, NEW m \in Pieces, CR(e).imap[m] # None
        PROVE  /\ Loc(e, k) # CR(e).imap[m]
               /\ \A b \in Blocks : Blk(e, k, b) # None => Outside(CR(e).imap[m], Blk(e, k, b))
    <3>1. InPlace(d, k)
      BY DEF Sound
    <3>2. CASE CR(e).imap[m] = CR(d).imap[m]
      BY <3>2, <2>1, <1>1 DEF Sound, Separate
    <3>3. CASE CR(e).imap[m] >= CR(d).end
      BY <3>1, <3>3, <2>1, <1>1, <1>3 DEF InPlace, Outside
    <3>4. QED BY <3>2, <3>3, <2>1
  <2>2. \A k \in K : Loc(e, k) = Loc(d, k)
    OBVIOUS
  <2>3. QED BY <2>1, <2>2, <1>1 DEF Sound, Separate
<1>6. QED BY <1>4, <1>5 DEF Sound

-----------------------------------------------------------------------------
(* The kinds of writes the server makes                                    *)

\* What a piece of K says of K, and the inodes of K, are where they were.
Same(d, e, K) ==
  \A k \in K : /\ MapAt(e, k) = MapAt(d, k) /\ Loc(e, k) = Loc(d, k)
               /\ e[Loc(d, k)] = d[Loc(d, k)]

\* Everything of K, and the map, is below address l.
Below(d, K, l) ==
  /\ \A m \in Pieces : CR(d).imap[m] # None => CR(d).imap[m] < l
  /\ \A k \in K : /\ Loc(d, k) < l
                  /\ \A b \in Blocks : Blk(d, k, b) # None => Blk(d, k, b) + DIRENTS <= l

\* The content of the cell at address a has not changed, nor has it been written.
SameCell(d, e, a) == (a \in DOMAIN e <=> a \in DOMAIN d) /\ (a \in DOMAIN d => e[a] = d[a])

\* The files among K have the blocks they had, and what they hold has not
\* changed, save that of the blocks X.
Keeps(d, e, K, X) ==
  \A k \in K, b \in Blocks : ~IsDirAt(d, k) /\ Blk(d, k, b) # None =>
    /\ Blk(e, k, b) = Blk(d, k, b)
    /\ <<k, b>> \in X \/ BlockAt(e, Blk(d, k, b)) = BlockAt(d, Blk(d, k, b))

\* A block at address at holds v throughout.
Filled(d, at, v) == \A j \in Slots : at + j \in DOMAIN d /\ d[at + j] = DataCell(v)

\* Block b of file k.
Only(k, b) == {<<k, b>>}

\* What the cells of the directories among K hold has not changed.
DirsStay(d, e, K) ==
  \A k \in K, b \in Blocks, j \in Slots :
    IsDirAt(d, k) /\ Blk(d, k, b) # None => e[Blk(d, k, b) + j] = d[Blk(d, k, b) + j]

\* The size of directory k covers its entries, and that of each of K but the U.
Covered(d, k) ==
  IsDirAt(d, k) => \A b \in Blocks, j \in Slots :
    Blk(d, k, b) # None =>
      d[Blk(d, k, b) + j].name = Free \/ b * DIRENTS + j < d[Loc(d, k)].size
Covers(d, K, U) == \A k \in K : k \in U \/ Covered(d, k)

Others(K, k) == K \ {k}

\* A block of directory p has the name nm for inode k.
Holds(d, p, nm, k) ==
  \E b \in Blocks, j \in Slots :
    /\ Blk(d, p, b) # None /\ IsEntry(d, Blk(d, p, b) + j)
    /\ d[Blk(d, p, b) + j].name = nm /\ d[Blk(d, p, b) + j].inum = k

\* Directory p has the name nm, which a client gave, for inode k.
Has(d, p, nm, k) ==
  IsDirAt(d, p) /\ Holds(d, p, nm, k) /\ nm \notin {".", "..", Free} /\ k # None

\* Directory p, and each of the inodes K, has no name that it did not have.
NoNew(d, e, p)  == \A nm, k : Has(e, p, nm, k) => Has(d, p, nm, k)
NoGain(d, e, K) == \A p \in K : NoNew(d, e, p)

\* Among the directories K an inode has one name, and a directory a name once.
Unique(d, K) ==
  \A p, q \in K : \A nm, k, on, l :
    Has(d, p, nm, k) /\ Has(d, q, on, l) /\ (k = l \/ (p = q /\ nm = on)) =>
      p = q /\ nm = on /\ k = l

\* The numbers without an inode, and the pieces that are not in the map.
Unused(d) == {x \in Inums : InodeLoc(d)[x] = None}
FreePieces(d) == {x \in Pieces : CR(d).imap[x] = None}

\* Piece q of the map was written and has no number in it, nor is one left in a
\* piece before it.
EmptyPiece(d, q) ==
  /\ CR(d).imap[q] \in DOMAIN d /\ d[CR(d).imap[q]].kind = "imap"
  /\ d[CR(d).imap[q]].inode_loc[0] = None
  /\ \A x \in Unused(d) : q <= PieceOf(x)

\* No number is left: those that are would need a new piece, and there is none.
Full(d) == FreePieces(d) = {} /\ (Unused(d) = {} \/ \E q \in Pieces : EmptyPiece(d, q))

\* Every name has a number.  CREAT stores a name without one when no number is
\* left, and LOOKUP and CREAT then take the name for one that does not exist.
NoNone(d) == \A a \in DOMAIN d : IsName(d, a) => d[a].inum # None
Settled(d) == NoNone(d) \/ Full(d)

\* A write that brings no name without a number, and leaves no number if none was.
NoneStay(d, e) == NoNone(d) => NoNone(e)
Stays(d, e) == NoneStay(d, e) /\ (Full(d) => Full(e))

\* The map has the pieces it had, and what it says has not changed.
MapStay(d, e) ==
  /\ CR(e).imap = CR(d).imap /\ DOMAIN d \subseteq DOMAIN e
  /\ \A m \in Pieces : CR(d).imap[m] # None => SameCell(d, e, CR(d).imap[m])

\* Every name is in a block of a directory that has a name, and no inode has two.
IsPlaced(d, a) ==
  \E p \in Live(d), b \in Blocks, j \in Slots :
    IsDirAt(d, p) /\ Blk(d, p, b) # None /\ a = Blk(d, p, b) + j
Single(d) ==
  \A a, c \in DOMAIN d :
    IsName(d, a) /\ IsName(d, c) /\ d[a].inum = d[c].inum /\ d[a].inum # None => a = c
Placed(d) == (\A a \in DOMAIN d : IsName(d, a) => IsPlaced(d, a)) /\ Single(d)

\* The first two cells of directory p are `.' and `..', and what `..' points to.
DotsAt(d, p) ==
  LET a == Blk(d, p, 0)
  IN  d[a].name = "." /\ d[a].inum = p /\ d[a + 1].name = ".." /\ (p = 0 => d[a + 1].inum = 0)
Parent(d, p) == d[Blk(d, p, 0) + 1].inum

\* They are right in each directory among K: `..' is the one that names it, and
\* none names the root.
Dots(d, K) ==
  /\ \A p \in K : IsDirAt(d, p) => DotsAt(d, p)
  /\ \A p, q \in K : \A nm : Has(d, q, nm, p) => p # 0 /\ (IsDirAt(d, p) => Parent(d, p) = q)

\* Both hold until a call relied on a size that UNLINK has reset: then None is
\* one of the U.
Proper(d, K, U) == None \in U \/ (Placed(d) /\ Dots(d, K))

\* Nothing was written in a block beyond the end of the log.
JunkBeyond(d) == \A a \in DOMAIN d : a >= CR(d).end /\ d[a].kind = "data" => d[a].val = Junk

\* What holds of the directories among K: sizes cover the entries, save in the U,
\* names are unique, and the directories are linked to one another.
Fine(d, K, U) ==
  Covers(d, K, U) /\ Unique(d, K) /\ Settled(d) /\ Proper(d, K, U) /\ JunkBeyond(d)

\* A write that brings no name, and one that brings no data beyond the end.
NamesFrom(d, e)  == \A a \in DOMAIN e : IsName(e, a) => a \in DOMAIN d /\ e[a] = d[a]
JunkStays(d, e) == JunkBeyond(d) => JunkBeyond(e)
Calm(d, e) == NamesFrom(d, e) /\ JunkStays(d, e)

\* The directories among K have the entries they had, where they were; what was
\* not in use may have changed.
DirsKept(d, e, K) ==
  \A p \in K : IsDirAt(d, p) => \A b \in Blocks, j \in Slots :
    Blk(d, p, b) # None /\ d[Blk(d, p, b) + j].name # Free =>
      Blk(e, p, b) = Blk(d, p, b) /\ e[Blk(d, p, b) + j] = d[Blk(d, p, b) + j]
SameType(d, e, K) == \A p \in K : IsDirAt(e, p) = IsDirAt(d, p)

\* The directories among K have the names they had.
SameDirs(d, e, K) ==
  SameType(d, e, K) /\ \A p \in K : \A nm, k : Has(e, p, nm, k) <=> Has(d, p, nm, k)

\* Block b of file k is there if it was and holds what it held; so for the files
\* among K, save the blocks X.
SameBlock(d, e, k, b) ==
  /\ Blk(e, k, b) = None <=> Blk(d, k, b) = None
  /\ Blk(d, k, b) # None => BlockAt(e, Blk(e, k, b)) = BlockAt(d, Blk(d, k, b))
SameFiles(d, e, K, X) ==
  \A k \in K, b \in Blocks : ~IsDirAt(d, k) => <<k, b>> \in X \/ SameBlock(d, e, k, b)

\* Nothing that has a name is another, and no inode has come to be named or lost
\* its name.
SameTree(d, e) == Live(e) = Live(d) /\ SameDirs(d, e, Live(d))

\* The inodes K and k; inode k has no name in it.
With(K, k) == K \cup {k}
Bare(d, k) == \A nm, l : ~Has(d, k, nm, l)

\* Inode k is that of a new file, or of a new directory made in directory p.
Newborn(d, k, p) ==
  /\ Bare(d, k) /\ \A b \in Blocks : Blk(d, k, b) # None <=> b = 0
  /\ BlockAt(d, Blk(d, k, 0)) = Junk
  /\ IsDirAt(d, k) => DotsAt(d, k) /\ Parent(d, k) = p

\* What a write can show: nothing;
Still(d, e) == SameTree(d, e) /\ SameFiles(d, e, Live(d), {})
\* a block of a file that is new, or holds something else;
Changes(d, e, k, b) ==
  /\ SameTree(d, e) /\ SameFiles(d, e, Live(d), Only(k, b))
  /\ ~IsDirAt(d, k) /\ Blk(e, k, b) # None
  /\ BlockAt(e, Blk(e, k, b)) \in IF Blk(d, k, b) = None THEN {Junk} ELSE Data \cup {Junk}
\* a name for an inode that had none, and is empty;
Enters(d, e, p, nm, i) ==
  /\ IsDirAt(d, p) /\ Live(e) = With(Live(d), i) /\ SameType(d, e, Live(d))
  /\ \A q \in Live(d) : \A on, k : Has(e, q, on, k) <=> Has(d, q, on, k) \/ (q = p /\ on = nm /\ k = i)
  /\ SameFiles(d, e, Live(d), {})
  /\ Bare(e, i) /\ \A b \in Blocks : ~IsDirAt(e, i) => (Blk(e, i, b) # None <=> b = 0)
  /\ BlockAt(e, Blk(e, i, 0)) = Junk
\* a name that goes, with an inode that is empty.
Leaves(d, e, p, nm, k) ==
  /\ Has(d, p, nm, k) /\ k # 0 /\ Live(e) = Others(Live(d), k) /\ SameType(d, e, Live(e))
  /\ \A q \in Live(e) : \A on, l : Has(e, q, on, l) <=> Has(d, q, on, l) /\ ~(q = p /\ on = nm)
  /\ SameFiles(d, e, Live(e), {}) /\ Bare(d, k)

Shows(d, e) ==
  \/ Still(d, e)
  \/ \E k \in Live(d), b \in Blocks : Changes(d, e, k, b)
  \/ \E p \in Live(d), i \in Inums \ Live(d), nm \in Names : Enters(d, e, p, nm, i)
  \/ \E p, k \in Live(d) : \E nm : Leaves(d, e, p, nm, k)

\* As long as every name has a number and no call relied on a size that UNLINK
\* has reset.
Shown(d, e, U) == None \in U \/ ~NoNone(e) \/ (NoNone(d) /\ Shows(d, e))

\* What holds of the inodes of a sound image, as numbers.
LEMMA Facts ==
  ASSUME NEW d, NEW K, Sound(d, K)
  PROVE  /\ CR(d).end \in Nat /\ CR(d).end > 1 /\ 0 \in K /\ d[0].kind = "cr" /\ CR(d) = d[0]
         /\ \A m \in Pieces : CR(d).imap[m] \in Int
         /\ \A m \in Pieces : CR(d).imap[m] # None => CR(d).imap[m] \in 1..(CR(d).end - 1)
         /\ \A k \in K : /\ k \in Inums /\ PieceOf(k) \in Pieces /\ IndexOf(k) \in 0..(INODES - 1)
                         /\ MapAt(d, k) \in 1..(CR(d).end - 1) /\ MapAt(d, k) # None
                         /\ MapAt(d, k) = CR(d).imap[PieceOf(k)]
                         /\ MapAt(d, k) \in DOMAIN d /\ d[MapAt(d, k)].kind = "imap"
                         /\ Loc(d, k) \in 1..(CR(d).end - 1) /\ Loc(d, k) \in DOMAIN d
                         /\ d[Loc(d, k)] \in InodeCells /\ d[Loc(d, k)].kind = "inode"
                         /\ \A b \in Blocks :
                              Blk(d, k, b) # None => Blk(d, k, b) \in 1..(CR(d).end - DIRENTS)
         /\ Below(d, K, CR(d).end)
<1>1. /\ CR(d).end \in Nat /\ d[0].kind = "cr" /\ CR(d) = d[0] /\ 0 \in K
      /\ \A m \in Pieces : CR(d).imap[m] \in Int
      /\ \A m \in Pieces : CR(d).imap[m] # None => CR(d).imap[m] \in 1..(CR(d).end - 1)
  BY DEF Sound, Shaped, Live, CR
<1>2. ASSUME NEW k \in K
      PROVE  /\ k \in Inums /\ PieceOf(k) \in Pieces /\ IndexOf(k) \in 0..(INODES - 1)
             /\ MapAt(d, k) \in 1..(CR(d).end - 1) /\ MapAt(d, k) # None
             /\ MapAt(d, k) = CR(d).imap[PieceOf(k)]
             /\ MapAt(d, k) \in DOMAIN d /\ d[MapAt(d, k)].kind = "imap"
             /\ Loc(d, k) \in 1..(CR(d).end - 1) /\ Loc(d, k) \in DOMAIN d
             /\ d[Loc(d, k)] \in InodeCells /\ d[Loc(d, k)].kind = "inode"
             /\ \A b \in Blocks : Blk(d, k, b) # None => Blk(d, k, b) \in 1..(CR(d).end - DIRENTS)
  <2>1. InPlace(d, k)
    BY DEF Sound
  <2>2. PieceOf(k) \in Pieces /\ IndexOf(k) \in 0..(INODES - 1) /\ k \in Inums
    BY <2>1, Split DEF InPlace
  <2>3. MapAt(d, k) = CR(d).imap[PieceOf(k)]
    BY DEF MapAt
  <2>4. d[Loc(d, k)] \in InodeCells
    BY <2>1 DEF InPlace, Sound, Shaped
  <2>5. QED BY <2>1, <2>2, <2>3, <2>4, <1>1 DEF InPlace
<1>3. CR(d).end > 1
  BY <1>1, <1>2
<1>4. Below(d, K, CR(d).end)
  BY <1>1, <1>2, Constants DEF Below
<1>5. QED BY <1>1, <1>2, <1>3, <1>4

\* Files are kept when their inodes and the first cells of their blocks are.
LEMMA KeepsIf ==
  ASSUME NEW d, NEW e, NEW K, NEW X, Same(d, e, K),
         \A k \in K, b \in Blocks : ~IsDirAt(d, k) /\ Blk(d, k, b) # None =>
           <<k, b>> \in X \/ SameCell(d, e, Blk(d, k, b))
  PROVE  Keeps(d, e, K, X)
<1> SUFFICES ASSUME NEW k \in K, NEW b \in Blocks, ~IsDirAt(d, k), Blk(d, k, b) # None
             PROVE  /\ Blk(e, k, b) = Blk(d, k, b)
                    /\ <<k, b>> \in X \/ BlockAt(e, Blk(d, k, b)) = BlockAt(d, Blk(d, k, b))
  BY DEF Keeps
<1>1. Blk(e, k, b) = Blk(d, k, b)
  BY DEF Same, Blk
<1>2. ASSUME NEW a, SameCell(d, e, a) PROVE BlockAt(e, a) = BlockAt(d, a)
  BY <1>2 DEF SameCell, BlockAt
<1>3. QED BY <1>1, <1>2

\* Fewer files are kept, and those of more blocks may change.
LEMMA KeepsLess ==
  ASSUME NEW d, NEW e, NEW K, NEW X, Keeps(d, e, K, X), NEW L, L \subseteq K, NEW Y, X \subseteq Y
  PROVE  Keeps(d, e, L, Y)
BY DEF Keeps

\* The cells of a directory are below the end of the log.
LEMMA EntryCells ==
  ASSUME NEW d, NEW K, Sound(d, K), NEW k \in K, IsDirAt(d, k),
         NEW b \in Blocks, Blk(d, k, b) # None, NEW j \in Slots
  PROVE  LET a == Blk(d, k, b) + j IN  a \in DOMAIN d /\ a \in Nat /\ a > 0 /\ a < CR(d).end
<1>1. InPlace(d, k)
  BY DEF Sound
<1>2. Blk(d, k, b) + j \in DOMAIN d
  BY <1>1 DEF InPlace, IsEntry
<1>3. Blk(d, k, b) \in 1..(CR(d).end - DIRENTS) /\ CR(d).end \in Nat
  BY Facts
<1>4. QED BY <1>2, <1>3, Constants DEF Slots

\* Directories stay covered when neither they nor their entries change.
LEMMA CoversSame ==
  ASSUME NEW d, NEW e, NEW K, NEW U, Same(d, e, K), DirsStay(d, e, K), Covers(d, K, U)
  PROVE  Covers(e, K, U)
<1> SUFFICES ASSUME NEW k \in K, k \notin U, IsDirAt(e, k),
                    NEW b \in Blocks, NEW j \in Slots, Blk(e, k, b) # None
             PROVE  e[Blk(e, k, b) + j].name = Free \/ b * DIRENTS + j < e[Loc(e, k)].size
  BY DEF Covers, Covered
<1>1. e[Loc(e, k)] = d[Loc(d, k)]
  BY DEF Same
<1>2. IsDirAt(d, k) /\ Blk(e, k, b) = Blk(d, k, b)
  BY <1>1 DEF IsDirAt, Blk
<1>3. e[Blk(d, k, b) + j] = d[Blk(d, k, b) + j]
  BY <1>2 DEF DirsStay
<1>4. QED BY <1>1, <1>2, <1>3 DEF Covers, Covered

\* One directory changes, and is covered or need not be.
LEMMA CoversBut ==
  ASSUME NEW d, NEW e, NEW K, NEW U, NEW k, Same(d, e, Others(K, k)), DirsStay(d, e, Others(K, k)),
         Covers(d, K, U), k \in U \/ Covered(e, k)
  PROVE  Covers(e, K, U)
<1>1. Covers(d, Others(K, k), U)
  BY DEF Covers, Others
<1>2. Covers(e, Others(K, k), U)
  BY <1>1, CoversSame
<1>3. QED BY <1>2 DEF Covers, Others

\* What a directory has a name for is an inode with a name.
LEMMA HasLive ==
  ASSUME NEW d, NEW p, NEW nm, NEW k, Has(d, p, nm, k)
  PROVE  k \in Live(d)
<1>1. PICK b \in Blocks, j \in Slots :
        LET a == Blk(d, p, b) + j IN IsEntry(d, a) /\ d[a].name = nm /\ d[a].inum = k
  BY DEF Has, Holds
<1> DEFINE a == Blk(d, p, b) + j
<1>2. a \in DOMAIN d /\ IsName(d, a) /\ d[a].inum = k /\ k # None
  BY <1>1 DEF Has, IsName, IsEntry
<1> HIDE DEF a
<1>3. QED BY <1>2 DEF Live

\* `.' and `..' are right with a new inode, which has no name yet.
LEMMA DotsMore ==
  ASSUME NEW d, NEW K, Live(d) \subseteq K, Dots(d, K), NEW k, k \notin K, NEW p, Newborn(d, k, p)
  PROVE  Dots(d, With(K, k))
<1>1. ASSUME NEW q \in With(K, k), IsDirAt(d, q) PROVE DotsAt(d, q)
  BY <1>1 DEF With, Newborn, Dots
<1>2. ASSUME NEW x \in With(K, k), NEW q \in With(K, k), NEW nm, Has(d, q, nm, x)
      PROVE  x # 0 /\ (IsDirAt(d, x) => Parent(d, x) = q)
  <2>1. x \in K
    BY <1>2, HasLive
  <2>2. q \in K
    BY <1>2 DEF With, Newborn, Bare
  <2>3. QED BY <1>2, <2>1, <2>2 DEF Dots
<1>3. QED BY <1>1, <1>2 DEF Dots

\* Fewer directories are covered, and more need not be.
LEMMA FineLess ==
  ASSUME NEW d, NEW K, NEW U, Fine(d, K, U), NEW L, L \subseteq K, NEW V, U \subseteq V
  PROVE  Fine(d, L, V)
<1>1. Covers(d, L, V)
  BY DEF Fine, Covers
<1>2. Unique(d, L)
  BY DEF Fine, Unique
<1>3. Proper(d, L, V)
  BY DEF Fine, Proper, Dots
<1>4. QED BY <1>1, <1>2, <1>3 DEF Fine

\* Directories that have not changed have no new names.
LEMMA SameNames ==
  ASSUME NEW d, NEW e, NEW K, NEW L, L \subseteq K, Sound(d, K), Same(d, e, L), DirsStay(d, e, L)
  PROVE  NoGain(d, e, L)
<1> SUFFICES ASSUME NEW p \in L, NEW nm, NEW k, Has(e, p, nm, k) PROVE Has(d, p, nm, k)
  BY DEF NoGain, NoNew
<1>1. /\ IsDirAt(d, p) /\ InPlace(d, p) /\ \A b \in Blocks : Blk(e, p, b) = Blk(d, p, b)
  BY DEF Has, Same, IsDirAt, Blk, Sound
<1>2. PICK b \in Blocks, j \in Slots :
        /\ Blk(e, p, b) # None /\ IsEntry(e, Blk(e, p, b) + j)
        /\ e[Blk(e, p, b) + j].name = nm /\ e[Blk(e, p, b) + j].inum = k
  BY DEF Has, Holds
<1>3. Blk(d, p, b) # None /\ e[Blk(d, p, b) + j] = d[Blk(d, p, b) + j]
  BY <1>1, <1>2 DEF DirsStay
<1>4. IsEntry(d, Blk(d, p, b) + j)
  BY <1>1, <1>3 DEF InPlace
<1>5. Holds(d, p, nm, k)
  BY <1>1, <1>2, <1>3, <1>4 DEF Holds
<1>6. QED BY <1>1, <1>5 DEF Has

\* Names stay unique when none is new.
LEMMA UniqueStays ==
  ASSUME NEW d, NEW e, NEW K, NoGain(d, e, K), Unique(d, K)
  PROVE  Unique(e, K)
BY DEF NoGain, NoNew, Unique

\* Directories that are the same are kept.
LEMMA SameKept ==
  ASSUME NEW d, NEW e, NEW K, Same(d, e, K), DirsStay(d, e, K)
  PROVE  DirsKept(d, e, K) /\ SameType(d, e, K) /\ \A k \in K, b \in Blocks : Blk(e, k, b) = Blk(d, k, b)
<1>1. \A k \in K, b \in Blocks : Blk(e, k, b) = Blk(d, k, b)
  BY DEF Same, Blk
<1>2. SameType(d, e, K)
  BY DEF Same, SameType, IsDirAt
<1>3. QED BY <1>1, <1>2 DEF DirsKept, DirsStay

\* A kept directory has the names it had.
LEMMA KeptNames ==
  ASSUME NEW d, NEW e, NEW K, Sound(d, K), DirsKept(d, e, K), SameType(d, e, K), Sound(e, K),
         NEW p \in K, NEW nm, NEW k, Has(d, p, nm, k)
  PROVE  Has(e, p, nm, k)
<1>1. PICK b \in Blocks, j \in Slots :
        /\ Blk(d, p, b) # None /\ IsEntry(d, Blk(d, p, b) + j)
        /\ d[Blk(d, p, b) + j].name = nm /\ d[Blk(d, p, b) + j].inum = k
  BY DEF Has, Holds
<1>2. IsDirAt(d, p) /\ IsDirAt(e, p) /\ InPlace(e, p)
  BY DEF Has, SameType, Sound
<1>6. d[Blk(d, p, b) + j].name # Free
  BY <1>1 DEF Has
<1>3. Blk(e, p, b) = Blk(d, p, b) /\ e[Blk(d, p, b) + j] = d[Blk(d, p, b) + j]
  BY <1>1, <1>2, <1>6 DEF DirsKept
<1>4. IsEntry(e, Blk(e, p, b) + j)
  BY <1>1, <1>2, <1>3 DEF InPlace
<1>5. Holds(e, p, nm, k)
  BY <1>1, <1>3, <1>4 DEF Holds
<1>7. QED BY <1>2, <1>5 DEF Has

\* When the directories are kept and no name is new, what has a name is what had
\* one, and all names are placed.
LEMMA LiveSame ==
  ASSUME NEW d, NEW e, NEW K, Sound(d, K), Sound(e, K), DirsKept(d, e, K), SameType(d, e, K),
         NoGain(d, e, K), NamesFrom(d, e), Placed(d)
  PROVE  SameTree(d, e) /\ Placed(e) /\ (NoNone(e) => NoNone(d))
<1>1. Live(d) \subseteq K
  BY DEF Sound
<1>2. ASSUME NEW a \in DOMAIN d, IsName(d, a)
      PROVE  a \in DOMAIN e /\ e[a] = d[a] /\ IsName(e, a)
  <2>1. PICK p \in Live(d), b \in Blocks, j \in Slots :
          IsDirAt(d, p) /\ Blk(d, p, b) # None /\ a = Blk(d, p, b) + j
    BY <1>2 DEF Placed, IsPlaced
  <2>2. p \in K /\ IsDirAt(e, p) /\ InPlace(e, p)
    BY <1>1, <2>1 DEF SameType, Sound
  <2>6. d[Blk(d, p, b) + j].name # Free
    BY <1>2, <2>1 DEF IsName
  <2>3. Blk(e, p, b) = Blk(d, p, b) /\ e[a] = d[a]
    BY <2>1, <2>2, <2>6 DEF DirsKept
  <2>4. IsEntry(e, Blk(e, p, b) + j)
    BY <2>1, <2>2, <2>3 DEF InPlace
  <2>5. QED BY <1>2, <2>1, <2>3, <2>4 DEF IsName, IsEntry
<1>3. ASSUME NEW a \in DOMAIN e, IsName(e, a)
      PROVE  a \in DOMAIN d /\ e[a] = d[a] /\ IsName(d, a)
  BY <1>3 DEF NamesFrom, IsName, IsEntry
<1>4. Live(e) = Live(d)
  <2>1. Live(d) \subseteq Live(e)
    BY <1>2 DEF Live
  <2>2. Live(e) \subseteq Live(d)
    BY <1>3 DEF Live
  <2>3. QED BY <2>1, <2>2
<1>5. Placed(e)
  <2>5. Single(e)
    BY <1>3 DEF Placed, Single
  <2> SUFFICES ASSUME NEW a \in DOMAIN e, IsName(e, a) PROVE IsPlaced(e, a)
    BY <2>5 DEF Placed
  <2>1. PICK p \in Live(d), b \in Blocks, j \in Slots :
          IsDirAt(d, p) /\ Blk(d, p, b) # None /\ a = Blk(d, p, b) + j
    BY <1>3 DEF Placed, IsPlaced
  <2>4. d[Blk(d, p, b) + j].name # Free
    BY <1>3, <2>1 DEF IsName
  <2>2. p \in K /\ IsDirAt(e, p) /\ Blk(e, p, b) = Blk(d, p, b)
    BY <1>1, <2>1, <2>4 DEF SameType, DirsKept
  <2>3. QED BY <2>1, <2>2, <1>4 DEF IsPlaced
<1>6. SameDirs(d, e, Live(d))
  <2>1. \A p \in Live(d) : p \in K
    BY <1>1
  <2>2. SameType(d, e, Live(d))
    BY <2>1 DEF SameType
  <2>3. ASSUME NEW p \in Live(d), NEW nm, NEW k PROVE Has(e, p, nm, k) <=> Has(d, p, nm, k)
    BY <2>1, KeptNames DEF NoGain, NoNew
  <2>4. QED BY <2>2, <2>3 DEF SameDirs
<1>7. NoNone(e) => NoNone(d)
  BY <1>2 DEF NoNone
<1>8. QED BY <1>4, <1>5, <1>6, <1>7 DEF SameTree

\* And `.' and `..' stay right.
LEMMA DotsSame ==
  ASSUME NEW d, NEW e, NEW K, Sound(d, K), DirsKept(d, e, K), SameType(d, e, K), NoGain(d, e, K), Dots(d, K)
  PROVE  Dots(e, K)
<1>1. 0 \in Blocks /\ 0 \in Slots /\ 1 \in Slots
  BY Constants DEF Slots
<1>2. ASSUME NEW p \in K, IsDirAt(d, p)
      PROVE  /\ Blk(e, p, 0) = Blk(d, p, 0) /\ e[Blk(d, p, 0)] = d[Blk(d, p, 0)]
             /\ e[Blk(d, p, 0) + 1] = d[Blk(d, p, 0) + 1]
  <2>1. Blk(d, p, 0) # None /\ Blk(d, p, 0) \in Int
    <3>1. InPlace(d, p)
      BY DEF Sound
    <3>2. Blk(d, p, 0) \in Nat
      BY <3>1, Facts DEF InPlace
    <3>3. QED BY <3>2 DEF None
  <2>2. Blk(d, p, 0) + 0 = Blk(d, p, 0)
    BY <2>1
  <2>5. d[Blk(d, p, 0) + 0].name # Free /\ d[Blk(d, p, 0) + 1].name # Free
    BY <1>1, <1>2, <2>2 DEF Dots, DotsAt, Free
  <2>3. /\ Blk(e, p, 0) = Blk(d, p, 0) /\ e[Blk(d, p, 0) + 0] = d[Blk(d, p, 0) + 0]
        /\ e[Blk(d, p, 0) + 1] = d[Blk(d, p, 0) + 1]
    BY <1>1, <1>2, <2>1, <2>5 DEF DirsKept
  <2>4. QED BY <1>1, <2>2, <2>3
<1>3. ASSUME NEW p \in K, IsDirAt(e, p) PROVE DotsAt(e, p)
  <2>1. IsDirAt(d, p)
    BY <1>3 DEF SameType
  <2>2. DotsAt(d, p)
    BY <2>1 DEF Dots
  <2>3. QED BY <2>1, <2>2, <1>2 DEF DotsAt
<1>4. ASSUME NEW p \in K, NEW q \in K, NEW nm, Has(e, q, nm, p)
      PROVE  p # 0 /\ (IsDirAt(e, p) => Parent(e, p) = q)
  <2>1. Has(d, q, nm, p)
    BY <1>4 DEF NoGain, NoNew
  <2>2. p # 0 /\ (IsDirAt(d, p) => Parent(d, p) = q)
    BY <2>1 DEF Dots
  <2>3. IsDirAt(e, p) => Parent(e, p) = Parent(d, p) /\ IsDirAt(d, p)
    BY <1>2 DEF Parent, SameType
  <2>4. QED BY <2>2, <2>3
<1>5. QED BY <1>3, <1>4 DEF Dots

\* The tree is the same afterwards, unless a size was relied on.
TreeStays(d, e, U) == None \in U \/ (SameTree(d, e) /\ (NoNone(e) => NoNone(d)))

\* Nor do two writes.
LEMMA TreeOn ==
  ASSUME NEW d, NEW e, NEW f, NEW U, TreeStays(d, e, U), TreeStays(e, f, U)
  PROVE  TreeStays(d, f, U)
<1>1. ASSUME SameTree(d, e), SameTree(e, f) PROVE SameTree(d, f)
  BY <1>1 DEF SameTree, SameDirs, SameType
<1>2. QED BY <1>1 DEF TreeStays

\* So directories that are kept stay linked.
LEMMA ProperStays ==
  ASSUME NEW d, NEW e, NEW K, NEW U, Sound(d, K), Sound(e, K), DirsKept(d, e, K), SameType(d, e, K),
         NoGain(d, e, K), NamesFrom(d, e), Proper(d, K, U)
  PROVE  Proper(e, K, U) /\ TreeStays(d, e, U)
<1>1. CASE None \in U
  BY <1>1 DEF Proper, TreeStays
<1>2. CASE Placed(d) /\ Dots(d, K)
  BY <1>2, LiveSame, DotsSame DEF Proper, TreeStays
<1>3. QED BY <1>1, <1>2 DEF Proper

\* Directories stay fine when neither they nor their entries change, and the tree
\* is the same.
LEMMA FineSame ==
  ASSUME NEW d, NEW e, NEW K, NEW U, Sound(d, K), Sound(e, K), Same(d, e, K), DirsStay(d, e, K),
         Calm(d, e), Fine(d, K, U), Stays(d, e) \/ NoNone(e)
  PROVE  Fine(e, K, U) /\ TreeStays(d, e, U)
<1>1. Covers(e, K, U)
  BY CoversSame DEF Fine
<1>5. NoGain(d, e, K)
  BY SameNames
<1>2. Unique(e, K)
  BY <1>5, UniqueStays DEF Fine
<1>3. Settled(e)
  BY DEF Fine, Settled, Stays, NoneStay
<1>6. DirsKept(d, e, K) /\ SameType(d, e, K)
  BY SameKept
<1>7. Proper(e, K, U) /\ TreeStays(d, e, U)
  BY <1>5, <1>6, ProperStays DEF Fine, Calm
<1>4. QED BY <1>1, <1>2, <1>3, <1>7 DEF Fine, Calm, JunkStays

\* The tree is shown unchanged when the files are kept as well.
LEMMA ShownStill ==
  ASSUME NEW d, NEW e, NEW K, NEW U, Sound(d, K), TreeStays(d, e, U), Keeps(d, e, K, {}),
         \A k \in K, b \in Blocks : ~IsDirAt(d, k) /\ Blk(d, k, b) = None => Blk(e, k, b) = None
  PROVE  Shown(d, e, U)
<1>1. \A k \in Live(d) : k \in K
  BY DEF Sound
<1>2. SameFiles(d, e, Live(d), {})
  BY <1>1 DEF SameFiles, SameBlock, Keeps
<1>3. QED BY <1>2 DEF TreeStays, Shown, Shows, Still

\* The same of the writes of FineSame.
LEMMA ShownSame ==
  ASSUME NEW d, NEW e, NEW K, NEW U, Sound(d, K), TreeStays(d, e, U), Keeps(d, e, K, {}),
         Same(d, e, K), DirsStay(d, e, K)
  PROVE  Shown(d, e, U)
BY SameKept, ShownStill

\* One directory changes: it is covered or need not be, and has no new name.
LEMMA FineBut ==
  ASSUME NEW d, NEW e, NEW K, NEW U, NEW k, Sound(d, K),
         Same(d, e, Others(K, k)), DirsStay(d, e, Others(K, k)), Proper(e, K, U), JunkStays(d, e),
         Fine(d, K, U), k \in U \/ Covered(e, k), NoNew(d, e, k), Stays(d, e)
  PROVE  Fine(e, K, U)
<1>1. Covers(e, K, U)
  BY CoversBut DEF Fine
<1>2. Unique(e, K)
  <2>1. Others(K, k) \subseteq K
    BY DEF Others
  <2>2. NoGain(d, e, Others(K, k))
    BY <2>1, SameNames
  <2>3. NoGain(d, e, K)
    BY <2>2 DEF NoGain, Others
  <2>4. QED BY <2>3, UniqueStays DEF Fine
<1>3. Settled(e)
  BY DEF Fine, Settled, Stays, NoneStay
<1>4. QED BY <1>1, <1>2, <1>3 DEF Fine, JunkStays

\* Nothing is used in the block at address at.
Vacant(d, at) == \A j \in Slots : d[at + j].name = Free

\* One inode changes, and if it is a directory keeps its blocks, save those in
\* which nothing was used.
LEMMA FineInode ==
  ASSUME NEW d, NEW e, NEW K, NEW U, NEW k \in K, Sound(d, K), Sound(e, K),
         Same(d, e, Others(K, k)), DirsStay(d, e, K), Calm(d, e), IsDirAt(e, k) = IsDirAt(d, k),
         None \in U \/ ~IsDirAt(d, k) \/ \A b \in Blocks :
           Blk(d, k, b) # None => Vacant(d, Blk(d, k, b)) \/ Blk(e, k, b) = Blk(d, k, b),
         Fine(d, K, U), k \in U \/ Covered(e, k), NoNew(d, e, k), Stays(d, e)
  PROVE  Fine(e, K, U) /\ TreeStays(d, e, U)
<1> DEFINE L == Others(K, k)
<1>1. L \subseteq K /\ \A p \in K : p = k \/ p \in L
  BY DEF Others
<1>2. DirsStay(d, e, L)
  BY DEF DirsStay, Others
<1> HIDE DEF L
<1>3. Same(d, e, L)
  BY DEF L
<1>4. DirsKept(d, e, L) /\ SameType(d, e, L)
  BY <1>2, <1>3, SameKept
<1>5. None \in U \/ DirsKept(d, e, K)
  BY <1>1, <1>4 DEF DirsKept, DirsStay, Vacant
<1>6. SameType(d, e, K)
  BY <1>1, <1>4 DEF SameType
<1>7. NoGain(d, e, L)
  BY <1>1, <1>2, <1>3, SameNames
<1>8. NoGain(d, e, K)
  BY <1>1, <1>7 DEF NoGain
<1>9. Proper(e, K, U) /\ TreeStays(d, e, U)
  <2>1. CASE None \in U
    BY <2>1 DEF Proper, TreeStays
  <2>2. CASE DirsKept(d, e, K)
    BY <2>2, <1>6, <1>8, ProperStays DEF Fine, Calm
  <2>3. QED BY <2>1, <2>2, <1>5
<1>10. Fine(e, K, U)
  BY <1>2, <1>9, FineBut DEF L, Calm
<1>11. QED BY <1>9, <1>10

\* One block of a file changes.
LEMMA ShownChange ==
  ASSUME NEW d, NEW e, NEW K, NEW U, NEW k, NEW b \in Blocks, Sound(d, K), TreeStays(d, e, U),
         None \in U \/ k \in Live(d), Keeps(d, e, K, Only(k, b)),
         \A l \in K, c \in Blocks :
           ~IsDirAt(d, l) /\ Blk(d, l, c) = None => <<l, c>> \in Only(k, b) \/ Blk(e, l, c) = None,
         ~IsDirAt(d, k), Blk(e, k, b) # None,
         BlockAt(e, Blk(e, k, b)) \in IF Blk(d, k, b) = None THEN {Junk} ELSE Data \cup {Junk}
  PROVE  Shown(d, e, U)
<1>1. \A l \in Live(d) : l \in K
  BY DEF Sound
<1>2. SameFiles(d, e, Live(d), Only(k, b))
  BY <1>1 DEF SameFiles, SameBlock, Keeps
<1>3. SameTree(d, e) => Changes(d, e, k, b)
  BY <1>2 DEF Changes
<1>4. k \in Live(d) /\ SameTree(d, e) => Shows(d, e)
  BY <1>3 DEF Shows
<1>5. QED BY <1>4 DEF TreeStays, Shown

\* A file has no names, nor has a directory whose cells are not clients' names.
LEMMA NoNames ==
  ASSUME NEW d, NEW e, NEW k,
         ~IsDirAt(e, k) \/ \A b \in Blocks, j \in Slots :
           Blk(e, k, b) # None => e[Blk(e, k, b) + j].name \in {".", "..", Free}
  PROVE  (\A nm, l : ~Has(e, k, nm, l)) /\ NoNew(d, e, k)
BY DEF Has, Holds, NoNew

\* No new name after no new name.
LEMMA GainNone ==
  ASSUME NEW d, NEW e, NEW f, NEW K, NoGain(d, e, K), NoGain(e, f, K)
  PROVE  NoGain(d, f, K)
BY DEF NoGain, NoNew

\* Nor in fewer directories.
LEMMA GainLess ==
  ASSUME NEW d, NEW e, NEW K, NoGain(d, e, K), NEW L, L \subseteq K
  PROVE  NoGain(d, e, L)
BY DEF NoGain

\* Max is the greatest number of a bounded set.
LEMMA Greatest ==
  ASSUME NEW N \in Nat, NEW S, S \subseteq 0..N, S # {}
  PROVE  Max(S) \in S /\ \A y \in S : Max(S) >= y
<1> DEFINE T == {N - x : x \in S}
           m == Min(T)
<1>1. T \subseteq Nat /\ T # {}
  <2>1. \A x \in S : N - x \in Nat
    OBVIOUS
  <2>2. PICK x \in S : TRUE
    OBVIOUS
  <2>3. N - x \in T
    OBVIOUS
  <2>4. QED BY <2>1, <2>3
<1>2. m \in T /\ \A y \in T : m <= y
  <2> HIDE DEF T
  <2>1. QED BY <1>1, Least
<1>3. PICK x \in S : m = N - x
  BY <1>2
<1>4. \A y \in S : N - y \in T /\ y \in Int
  OBVIOUS
<1> HIDE DEF m, T
<1>5. \A y \in S : x >= y
  BY <1>2, <1>3, <1>4
<1>6. QED BY <1>5 DEF Max

\* The same of what has not changed.
LEMMA OthersSame ==
  ASSUME NEW d, NEW e, NEW K, NEW k
  PROVE  /\ Same(d, e, K) => Same(d, e, Others(K, k))
         /\ DirsStay(d, e, K) => DirsStay(d, e, Others(K, k))
BY DEF Same, DirsStay, Others

\* The map stays when it points to the same pieces and no cell of them changes.
\* A number that has no inode then had none: a piece that comes to be in the
\* file was never written, and reads as locations.
LEMMA FullStays ==
  ASSUME NEW d, NEW K, Sound(d, K), NEW e, MapStay(d, e)
  PROVE  Full(d) => Full(e)
<1> SUFFICES ASSUME Full(d) PROVE Full(e)
  OBVIOUS
<1>1. /\ CR(e).imap = CR(d).imap /\ DOMAIN d \subseteq DOMAIN e /\ Pieces \subseteq Nat
      /\ \A m \in Pieces : CR(d).imap[m] # None /\ SameCell(d, e, CR(d).imap[m])
  BY Constants DEF MapStay, Full, FreePieces, Pieces
<1>2. ASSUME NEW m \in Pieces, NEW j \in 0..(INODES - 1), Piece(e, m)[j] = None
      PROVE  Piece(d, m)[j] = None
  <2> DEFINE S(f) == {l \in 0..m : InFile(f, CR(d).imap[l])}
             at(f) == CR(d).imap[Max(S(f))]
  <2>1. m \in Nat /\ 0..m \subseteq Pieces
    BY Constants DEF Pieces
  <2>2. S(d) \subseteq S(e) /\ S(e) \subseteq 0..m
    BY <1>1 DEF InFile
  <2>3. 0 \in S(d)
    <3>1. InPlace(d, 0)
      BY DEF Sound, Live
    <3>2. PieceOf(0) = 0
      <4>1. PICK z \in Pieces : z = 0
        BY Constants
      <4>2. PieceOf(z * INODES) = z /\ z * INODES = 0
        BY <4>1, FirstOfPiece, Constants
      <4>3. QED BY <4>1, <4>2
    <3>3. CR(d).imap[0] \in DOMAIN d
      BY <3>1, <3>2 DEF InPlace, MapAt
    <3>4. QED BY <3>3, <2>1 DEF InFile
  <2> HIDE DEF S
  <2>4. Max(S(d)) \in S(d) /\ \A y \in S(d) : Max(S(d)) >= y
    <3> DEFINE T == S(d)
    <3>1. T \subseteq 0..m /\ T # {}
      BY <2>2, <2>3
    <3> HIDE DEF T
    <3>2. Max(T) \in T /\ \A y \in T : Max(T) >= y
      BY <2>1, <3>1, Greatest
    <3>3. QED BY <3>2 DEF T
  <2>5. Max(S(e)) \in S(e) /\ \A y \in S(e) : Max(S(e)) >= y
    <3> DEFINE T == S(e)
    <3>1. T \subseteq 0..m /\ T # {}
      BY <2>2, <2>3
    <3> HIDE DEF T
    <3>2. Max(T) \in T /\ \A y \in T : Max(T) >= y
      BY <2>1, <3>1, Greatest
    <3>3. QED BY <3>2 DEF T
  <2>6. Max(S(e)) \in Pieces /\ Max(S(d)) \in Pieces
    BY <2>1, <2>2, <2>4, <2>5
  <2>7. /\ Piece(e, m)[j] = CASE at(e) \in DOMAIN e /\ e[at(e)].kind = "imap" -> e[at(e)].inode_loc[j]
                              [] at(e) \in DOMAIN e /\ e[at(e)].kind = "inode" ->
                                   IF j < 2 \/ e[at(e)].block_loc[j - 2] # None THEN 0 ELSE None
                              [] at(e) \in DOMAIN e /\ e[at(e)].kind = "ent" ->
                                   IF j > 0 /\ j = INODES - 1 /\ e[at(e)].inum = None THEN None ELSE 0
                              [] OTHER -> 0
        /\ Piece(d, m)[j] = CASE at(d) \in DOMAIN d /\ d[at(d)].kind = "imap" -> d[at(d)].inode_loc[j]
                              [] at(d) \in DOMAIN d /\ d[at(d)].kind = "inode" ->
                                   IF j < 2 \/ d[at(d)].block_loc[j - 2] # None THEN 0 ELSE None
                              [] at(d) \in DOMAIN d /\ d[at(d)].kind = "ent" ->
                                   IF j > 0 /\ j = INODES - 1 /\ d[at(d)].inum = None THEN None ELSE 0
                              [] OTHER -> 0
    BY <1>1 DEF Piece, S
  <2>8. SameCell(d, e, at(e)) /\ SameCell(d, e, at(d))
    BY <1>1, <2>6
  <2>9. at(e) \in DOMAIN e
    BY <1>2, <2>7 DEF None
  <2>10. Max(S(e)) \in S(d)
    <3>1. at(e) \in DOMAIN d
      BY <2>8, <2>9 DEF SameCell
    <3>2. Max(S(e)) \in 0..m
      BY <2>2, <2>5
    <3>3. QED BY <3>1, <3>2 DEF S, InFile
  <2>11. Max(S(e)) = Max(S(d))
    <3> DEFINE x == Max(S(d))
               y == Max(S(e))
    <3>1. x >= y /\ y >= x
      BY <2>2, <2>4, <2>5, <2>10
    <3>2. x \in Int /\ y \in Int
      <4>1. x \in Pieces /\ y \in Pieces
        BY <2>6
      <4> HIDE DEF x, y
      <4>2. QED BY <4>1, <1>1
    <3> HIDE DEF x, y
    <3>3. x = y
      BY <3>1, <3>2
    <3>4. QED BY <3>3 DEF x, y
  <2>12. at(e) = at(d) /\ at(d) \in DOMAIN d /\ e[at(d)] = d[at(d)]
    BY <2>8, <2>9, <2>11 DEF SameCell
  <2> HIDE DEF at
  <2>13. QED BY <1>2, <2>7, <2>9, <2>12
<1>3. Unused(e) \subseteq Unused(d)
  <2> SUFFICES ASSUME NEW x \in Inums, InodeLoc(e)[x] = None PROVE InodeLoc(d)[x] = None
    BY DEF Unused
  <2>1. PieceOf(x) \in Pieces /\ IndexOf(x) \in 0..(INODES - 1)
    BY Split
  <2>2. Piece(e, PieceOf(x))[IndexOf(x)] = None
    BY <1>1, <2>1 DEF InodeLoc, PieceOf, IndexOf
  <2>3. Piece(d, PieceOf(x))[IndexOf(x)] = None
    BY <1>2, <2>1, <2>2
  <2>4. QED BY <2>3 DEF InodeLoc, PieceOf, IndexOf
<1>4. ASSUME NEW q \in Pieces, EmptyPiece(d, q) PROVE EmptyPiece(e, q)
  <2>1. SameCell(d, e, CR(d).imap[q])
    BY <1>1
  <2>2. QED BY <2>1, <1>1, <1>3, <1>4 DEF EmptyPiece, SameCell
<1>5. FreePieces(e) = {}
  BY <1>1 DEF FreePieces
<1>6. QED BY <1>3, <1>4, <1>5 DEF Full

\* A write whose names are those of d, and the map stays.
LEMMA NamesStay ==
  ASSUME NEW d, NEW e, \A a \in DOMAIN e : IsName(e, a) => a \in DOMAIN d /\ e[a] = d[a]
  PROVE  NoneStay(d, e)
<1> SUFFICES ASSUME NoNone(d), NEW a \in DOMAIN e, IsName(e, a) PROVE e[a].inum # None
  BY DEF NoneStay, NoNone
<1>1. a \in DOMAIN d /\ e[a] = d[a]
  OBVIOUS
<1>2. IsName(d, a)
  BY <1>1 DEF IsName, IsEntry
<1>3. QED BY <1>1, <1>2 DEF NoNone

\* The checkpoint region: the end moves on, an unused piece may be entered.
LEMMA WriteCR ==
  ASSUME NEW d, NEW K, Sound(d, K),
         NEW map \in [Pieces -> Int], NEW end \in Nat, end >= CR(d).end,
         \A m \in Pieces : \/ map[m] = CR(d).imap[m]
                           \/ CR(d).imap[m] = None /\ map[m] >= CR(d).end /\ map[m] < end,
         \A m, n \in Pieces : m # n /\ map[m] # None => map[m] # map[n],
         NEW e, e = Put(d, 0, One(CRCell(map, end)))
  PROVE  /\ Sound(e, K) /\ Same(d, e, K) /\ Keeps(d, e, K, {}) /\ DirsStay(d, e, K)
         /\ CR(e).imap = map /\ CR(e).end = end
         /\ DOMAIN e = DOMAIN d /\ \A a \in DOMAIN d : a # 0 => e[a] = d[a]
         /\ NoneStay(d, e) /\ (map = CR(d).imap => Stays(d, e)) /\ Calm(d, e)
<1>1. /\ DOMAIN e = DOMAIN d \cup {0} /\ e[0] = CRCell(map, end)
      /\ \A a \in DOMAIN d : a # 0 => e[a] = d[a]
  <2>1. 0 \in Int
    OBVIOUS
  <2>2. DOMAIN e = DOMAIN d \cup {0}
    BY <2>1, OneDomain, Zenon
  <2>3. e[0] = CRCell(map, end)
    BY <2>1, OneNew, Zenon
  <2>4. \A a \in DOMAIN d : a # 0 => e[a] = d[a]
    BY OneOld
  <2>5. QED BY <2>2, <2>3, <2>4
<1>2. DOMAIN e = DOMAIN d /\ CR(e).imap = map /\ CR(e).end = end /\ e[0].kind = "cr"
  <2>1. 0 \in DOMAIN d
    BY DEF Sound, Shaped
  <2>2. QED BY <2>1, <1>1 DEF CR, CRCell
<1>3. Shaped(e)
  <2>1. DOMAIN d \subseteq Nat /\ 0 \in DOMAIN d
    BY DEF Sound, Shaped
  <2>2. \A m \in Pieces : map[m] # None => map[m] \in 1..(end - 1)
    BY Facts
  <2>3. \A a \in DOMAIN e : /\ e[a].kind = "imap" => e[a].inode_loc \in [0..(INODES - 1) -> Int]
                            /\ e[a].kind = "inode" => e[a] \in InodeCells
    BY <1>1, <1>2 DEF Sound, Shaped
  <2>4. QED BY <2>1, <2>2, <2>3, <1>2 DEF Shaped
<1>4. Live(e) \subseteq K /\ NoneStay(d, e) /\ NamesFrom(d, e)
  <2>1. \A a \in DOMAIN e : IsName(e, a) => a \in DOMAIN d /\ e[a] = d[a]
    BY <1>1, <1>2 DEF IsName, IsEntry
  <2>2. Live(e) \subseteq K
    BY <2>1, NoNewNames DEF Sound
  <2>3. QED BY <2>1, <2>2, NamesStay DEF NamesFrom
<1>5. ASSUME NEW k \in K
      PROVE  /\ MapAt(e, k) = MapAt(d, k) /\ MapAt(d, k) \in DOMAIN e
             /\ e[MapAt(d, k)].kind = "imap" /\ e[MapAt(d, k)].inode_loc[0] # None
             /\ Loc(e, k) = Loc(d, k) /\ Loc(d, k) \in DOMAIN e
             /\ e[Loc(d, k)] = d[Loc(d, k)]
             /\ IsDirAt(d, k) => \A b \in Blocks : Blk(d, k, b) # None =>
                  \A j \in Slots : IsEntry(e, Blk(d, k, b) + j)
  <2>1. InPlace(d, k)
    BY DEF Sound
  <2>2. MapAt(e, k) = MapAt(d, k)
    BY Facts, <1>2 DEF MapAt
  <2>3. e[MapAt(d, k)] = d[MapAt(d, k)] /\ e[Loc(d, k)] = d[Loc(d, k)]
    BY Facts, <1>1
  <2>4. Loc(e, k) = Loc(d, k)
    BY <2>2, <2>3 DEF Loc
  <2>5. \A a \in DOMAIN d : IsEntry(d, a) => IsEntry(e, a)
    BY <1>1, <1>2, Facts DEF IsEntry
  <2>6. IsDirAt(d, k) => \A b \in Blocks : Blk(d, k, b) # None =>
                  \A j \in Slots : IsEntry(e, Blk(d, k, b) + j)
    BY <2>1, <2>5 DEF InPlace, IsEntry
  <2>7. QED BY <2>1, <2>2, <2>3, <2>4, <2>6, <1>2 DEF InPlace
<1>6. Sound(e, K)
  <2>1. \A m \in Pieces : CR(e).imap[m] # None =>
          CR(e).imap[m] = CR(d).imap[m] \/ CR(e).imap[m] >= CR(d).end
    BY <1>2
  <2>2. CR(e).end >= CR(d).end
    BY <1>2
  <2>3. QED BY <1>3, <1>4, <1>5, <2>1, <2>2, Unmoved
<1>7. Same(d, e, K)
  BY <1>5 DEF Same
<1>8. ASSUME NEW k \in K, NEW c \in Blocks, Blk(d, k, c) # None PROVE SameCell(d, e, Blk(d, k, c))
  <2>1. Blk(d, k, c) # 0
    BY <1>8, Facts
  <2>2. QED BY <2>1, <1>1, <1>2 DEF SameCell
<1>9. Keeps(d, e, K, {})
  BY <1>7, <1>8, KeepsIf
<1>10. DirsStay(d, e, K)
  BY <1>1, EntryCells DEF DirsStay
<1>11. map = CR(d).imap => MapStay(d, e)
  <2>1. \A m \in Pieces : CR(d).imap[m] # None => CR(d).imap[m] # 0
    BY Facts
  <2>2. QED BY <2>1, <1>1, <1>2 DEF MapStay, SameCell
<1>12. map = CR(d).imap => Stays(d, e)
  BY <1>4, <1>11, FullStays DEF Stays
<1>14. JunkStays(d, e)
  <2> SUFFICES ASSUME JunkBeyond(d), NEW a \in DOMAIN e, a >= end, e[a].kind = "data"
               PROVE  e[a].val = Junk
    BY <1>2 DEF JunkStays, JunkBeyond
  <2>1. a # 0 /\ a \in DOMAIN d /\ e[a] = d[a]
    BY <1>1, <1>2
  <2>2. a >= CR(d).end
    BY <2>1 DEF Sound, Shaped
  <2>3. QED BY <2>1, <2>2 DEF JunkBeyond
<1>15. Calm(d, e)
  BY <1>4, <1>14 DEF Calm
<1>13. QED BY <1>1, <1>2, <1>4, <1>6, <1>7, <1>9, <1>10, <1>12, <1>15

\* The map has its piece m at address at.
PieceIs(d, m, at) == at = CR(d).imap[m] /\ at # None

\* The locations q are right for the inodes of K in piece m.
Says(d, K, m, q) ==
  /\ q \in [0..(INODES - 1) -> Int]
  /\ \A k \in K : PieceOf(k) = m => q[IndexOf(k)] = Loc(d, k) /\ q[0] # None

\* A piece of the map: what it says of the inodes of K stays.
LEMMA WritePiece ==
  ASSUME NEW d, NEW K, Sound(d, K), NEW m \in Pieces, NEW at, PieceIs(d, m, at),
         NEW q, Says(d, K, m, q),
         NEW e, e = Put(d, at, One(ImapCell(q)))
  PROVE  /\ Sound(e, K) /\ Same(d, e, K) /\ Keeps(d, e, K, {}) /\ DirsStay(d, e, K) /\ CR(e) = CR(d)
         /\ at \in DOMAIN e /\ e[at] = ImapCell(q)
         /\ \A a \in DOMAIN d : a # at => a \in DOMAIN e /\ e[a] = d[a]
         /\ NoneStay(d, e) /\ Calm(d, e)
<1>0. /\ at = CR(d).imap[m] /\ at # None /\ q \in [0..(INODES - 1) -> Int]
      /\ \A k \in K : PieceOf(k) = m => q[IndexOf(k)] = Loc(d, k) /\ q[0] # None
  BY DEF PieceIs, Says
<1> USE <1>0
<1>1. at \in Nat /\ at # 0
  BY Facts
<1>2. DOMAIN e = DOMAIN d \cup {at} /\ e[at] = ImapCell(q) /\ \A a \in DOMAIN d : a # at => e[a] = d[a]
  <2>1. at \in Int
    BY <1>1
  <2>2. DOMAIN e = DOMAIN d \cup {at}
    BY <2>1, OneDomain, Zenon
  <2>3. e[at] = ImapCell(q)
    BY <2>1, OneNew, Zenon
  <2>4. \A a \in DOMAIN d : a # at => e[a] = d[a]
    BY <2>1, OneOld
  <2>5. QED BY <2>2, <2>3, <2>4
<1>3. e[at].kind = "imap" /\ e[at].inode_loc = q
  BY <1>2 DEF ImapCell
<1>4. 0 \in DOMAIN d /\ CR(e) = CR(d) /\ e[0] = d[0]
  BY <1>1, <1>2 DEF Sound, Shaped, CR
<1>5. Shaped(e)
  <2>1. DOMAIN e \subseteq Nat /\ 0 \in DOMAIN e
    BY <1>1, <1>2, <1>4 DEF Sound, Shaped
  <2>2. \A a \in DOMAIN e : /\ e[a].kind = "imap" => e[a].inode_loc \in [0..(INODES - 1) -> Int]
                            /\ e[a].kind = "inode" => e[a] \in InodeCells
    BY <1>2, <1>3 DEF Sound, Shaped
  <2>3. QED BY <2>1, <2>2, <1>4 DEF Sound, Shaped
<1>6. Live(e) \subseteq K /\ NoneStay(d, e) /\ NamesFrom(d, e)
  <2>1. \A a \in DOMAIN e : IsName(e, a) => a \in DOMAIN d /\ e[a] = d[a]
    BY <1>2, <1>3 DEF IsName, IsEntry
  <2>2. Live(e) \subseteq K
    BY <2>1, NoNewNames DEF Sound
  <2>3. QED BY <2>1, <2>2, NamesStay DEF NamesFrom
<1>7. ASSUME NEW k \in K
      PROVE  /\ MapAt(e, k) = MapAt(d, k) /\ MapAt(d, k) \in DOMAIN e
             /\ e[MapAt(d, k)].kind = "imap" /\ e[MapAt(d, k)].inode_loc[0] # None
             /\ Loc(e, k) = Loc(d, k) /\ Loc(d, k) \in DOMAIN e
             /\ e[Loc(d, k)] = d[Loc(d, k)]
             /\ IsDirAt(d, k) => \A b \in Blocks : Blk(d, k, b) # None =>
                  \A j \in Slots : IsEntry(e, Blk(d, k, b) + j)
  <2>1. InPlace(d, k)
    BY DEF Sound
  <2>2. MapAt(e, k) = MapAt(d, k)
    BY <1>4 DEF MapAt
  <2>3. MapAt(d, k) = at <=> PieceOf(k) = m
    BY Facts DEF MapAt, Sound, Shaped
  <2>4. /\ e[MapAt(d, k)].kind = "imap" /\ e[MapAt(d, k)].inode_loc[0] # None
        /\ e[MapAt(d, k)].inode_loc[IndexOf(k)] = Loc(d, k)
    <3>1. CASE PieceOf(k) = m
      BY <3>1, <2>3, <1>3
    <3>2. CASE PieceOf(k) # m
      BY <3>2, <2>1, <2>3, <1>2 DEF InPlace, Loc
    <3>3. QED BY <3>1, <3>2
  <2>5. Loc(e, k) = Loc(d, k)
    BY <2>2, <2>4 DEF Loc
  <2>6. Loc(d, k) # at /\ Loc(d, k) \in DOMAIN d
    BY <2>1 DEF Sound, Separate, InPlace
  <2>7. ASSUME IsDirAt(d, k), NEW b \in Blocks, Blk(d, k, b) # None, NEW j \in Slots
        PROVE  IsEntry(e, Blk(d, k, b) + j)
    <3>1. IsEntry(d, Blk(d, k, b) + j)
      BY <2>1, <2>7 DEF InPlace
    <3>2. Outside(at, Blk(d, k, b))
      BY <2>7 DEF Sound, Separate
    <3>3. Blk(d, k, b) + j # at
      BY <3>2, <2>7, Facts, Constants DEF Outside, Slots
    <3>4. QED BY <3>1, <3>3, <1>2 DEF IsEntry
  <2>8. MapAt(d, k) \in DOMAIN e
    BY <2>1, <1>2 DEF InPlace
  <2>9. QED BY <2>2, <2>4, <2>5, <2>6, <2>7, <2>8, <1>2
<1>8. Sound(e, K)
  BY <1>4, <1>5, <1>6, <1>7, Facts, Unmoved
<1>9. Same(d, e, K)
  BY <1>7 DEF Same
<1>10. ASSUME NEW k \in K, NEW c \in Blocks, Blk(d, k, c) # None PROVE SameCell(d, e, Blk(d, k, c))
  <2>1. Outside(at, Blk(d, k, c))
    BY <1>10 DEF Sound, Separate
  <2>2. Blk(d, k, c) # at
    BY <2>1, <1>1, <1>10, Facts, Constants DEF Outside
  <2>3. QED BY <2>2, <1>2 DEF SameCell
<1>11. Keeps(d, e, K, {})
  BY <1>9, <1>10, KeepsIf
<1>12. DirsStay(d, e, K)
  <2> SUFFICES ASSUME NEW k \in K, NEW b \in Blocks, NEW j \in Slots, IsDirAt(d, k), Blk(d, k, b) # None
               PROVE  e[Blk(d, k, b) + j] = d[Blk(d, k, b) + j]
    BY DEF DirsStay
  <2>1. Outside(at, Blk(d, k, b))
    BY DEF Sound, Separate
  <2>2. Blk(d, k, b) + j # at
    BY <2>1, <1>1, Facts, Constants DEF Outside, Slots
  <2>3. Blk(d, k, b) + j \in DOMAIN d
    BY EntryCells
  <2>4. QED BY <2>2, <2>3, <1>2
<1>14. JunkStays(d, e)
  BY <1>2, <1>3, <1>4 DEF JunkStays, JunkBeyond
<1>15. Calm(d, e)
  BY <1>6, <1>14 DEF Calm
<1>13. QED BY <1>2, <1>4, <1>6, <1>8, <1>9, <1>11, <1>12, <1>15

\* A cell that brings no name into the image, and no data.
Blank(c) ==
  \/ c.kind = "data" /\ c.val = Junk
  \/ c \in InodeCells
  \/ c.kind = "ent" /\ c.name \in {".", "..", Free}

\* A sequence of n cells.
Run(cells, n) == n \in Nat /\ DOMAIN cells = 0..(n - 1)

\* Cells in the free part of the log.
LEMMA WriteFree ==
  ASSUME NEW d, NEW K, Sound(d, K), NEW at \in Nat, at >= CR(d).end,
         NEW n, NEW cells, Run(cells, n),
         \A j \in 0..(n - 1) : Blank(cells[j]),
         NEW e, e = Put(d, at, cells)
  PROVE  /\ Sound(e, K) /\ Same(d, e, K) /\ Keeps(d, e, K, {}) /\ DirsStay(d, e, K) /\ CR(e) = CR(d)
         /\ \A j \in 0..(n - 1) : at + j \in DOMAIN e /\ e[at + j] = cells[j]
         /\ \A a \in DOMAIN d : a \notin at..(at + n - 1) => a \in DOMAIN e /\ e[a] = d[a]
         /\ Stays(d, e) /\ Calm(d, e)
<1>0. n \in Nat /\ DOMAIN cells = 0..(n - 1)
  BY DEF Run
<1> USE <1>0
<1>1. at \in Int /\ at > 0 /\ CR(d).end \in Nat
  BY Facts
<1>2. /\ DOMAIN e = DOMAIN d \cup at..(at + n - 1)
      /\ \A a \in at..(at + n - 1) : e[a] = cells[a - at]
      /\ \A a \in DOMAIN d : a \notin at..(at + n - 1) => e[a] = d[a]
  <2>1. DOMAIN e = DOMAIN d \cup at..(at + n - 1)
    BY <1>1, CellsDomain, Zenon
  <2>2. \A j \in 0..(n - 1) : e[at + j] = cells[j]
    BY <1>1, CellsNew
  <2>3. ASSUME NEW a \in at..(at + n - 1) PROVE e[a] = cells[a - at]
    <3>1. a - at \in 0..(n - 1) /\ at + (a - at) = a
      BY <1>1
    <3>2. QED BY <3>1, <2>2
  <2>4. \A a \in DOMAIN d : a \notin at..(at + n - 1) => e[a] = d[a]
    BY <1>1, CellsOld, Zenon
  <2>5. QED BY <2>1, <2>3, <2>4
<1>3. \A a \in at..(at + n - 1) : Blank(e[a])
  BY <1>1, <1>2
<1>4. 0 \in DOMAIN d /\ 0 \in DOMAIN e /\ CR(e) = CR(d) /\ e[0] = d[0]
  BY <1>1, <1>2 DEF Sound, Shaped, CR
<1>5. \A a \in DOMAIN d : a < CR(d).end => a \in DOMAIN e /\ e[a] = d[a]
  BY <1>1, <1>2 DEF Sound, Shaped
<1>6. Shaped(e)
  <2>1. DOMAIN e \subseteq Nat
    BY <1>1, <1>2 DEF Sound, Shaped
  <2>2. \A a \in DOMAIN e : /\ e[a].kind = "imap" => e[a].inode_loc \in [0..(INODES - 1) -> Int]
                            /\ e[a].kind = "inode" => e[a] \in InodeCells
    BY <1>2, <1>3 DEF Sound, Shaped, Blank, InodeCells
  <2>3. QED BY <2>1, <2>2, <1>4 DEF Sound, Shaped
<1>7. Live(e) \subseteq K /\ NoneStay(d, e) /\ NamesFrom(d, e)
  <2>1. \A a \in DOMAIN e : IsName(e, a) => a \in DOMAIN d /\ e[a] = d[a]
    BY <1>2, <1>3 DEF IsName, IsEntry, Blank, InodeCells
  <2>2. Live(e) \subseteq K
    BY <2>1, NoNewNames DEF Sound
  <2>3. QED BY <2>1, <2>2, NamesStay DEF NamesFrom
<1>8. ASSUME NEW k \in K
      PROVE  /\ MapAt(e, k) = MapAt(d, k) /\ MapAt(d, k) \in DOMAIN e
             /\ e[MapAt(d, k)].kind = "imap" /\ e[MapAt(d, k)].inode_loc[0] # None
             /\ Loc(e, k) = Loc(d, k) /\ Loc(d, k) \in DOMAIN e
             /\ e[Loc(d, k)] = d[Loc(d, k)]
             /\ IsDirAt(d, k) => \A b \in Blocks : Blk(d, k, b) # None =>
                  \A j \in Slots : IsEntry(e, Blk(d, k, b) + j)
  <2>1. InPlace(d, k)
    BY DEF Sound
  <2>2. MapAt(e, k) = MapAt(d, k)
    BY <1>4 DEF MapAt
  <2>3. /\ MapAt(d, k) \in DOMAIN e /\ e[MapAt(d, k)] = d[MapAt(d, k)]
        /\ Loc(d, k) \in DOMAIN e /\ e[Loc(d, k)] = d[Loc(d, k)]
    BY Facts, <1>5
  <2>4. Loc(e, k) = Loc(d, k)
    BY <2>2, <2>3 DEF Loc
  <2>5. ASSUME IsDirAt(d, k), NEW b \in Blocks, Blk(d, k, b) # None, NEW j \in Slots
        PROVE  IsEntry(e, Blk(d, k, b) + j)
    <3>1. IsEntry(d, Blk(d, k, b) + j)
      BY <2>1, <2>5 DEF InPlace
    <3>2. Blk(d, k, b) + j < CR(d).end
      BY <2>5, Facts, Constants DEF Slots
    <3>3. QED BY <3>1, <3>2, <1>5 DEF IsEntry
  <2>6. QED BY <2>1, <2>2, <2>3, <2>4, <2>5 DEF InPlace
<1>9. Sound(e, K)
  BY <1>4, <1>6, <1>7, <1>8, Facts, Unmoved
<1>10. \A j \in 0..(n - 1) : at + j \in DOMAIN e /\ e[at + j] = cells[j]
  <2> TAKE j \in 0..(n - 1)
  <2>1. at + j \in at..(at + n - 1) /\ (at + j) - at = j
    BY <1>1
  <2>2. QED BY <2>1, <1>2
<1>11. Same(d, e, K)
  BY <1>8 DEF Same
<1>12. ASSUME NEW k \in K, NEW c \in Blocks, Blk(d, k, c) # None PROVE SameCell(d, e, Blk(d, k, c))
  <2>1. Blk(d, k, c) < CR(d).end
    BY <1>1, <1>12, Facts, Constants
  <2>2. Blk(d, k, c) \notin at..(at + n - 1)
    BY <2>1, <1>1
  <2>3. QED BY <2>2, <1>2 DEF SameCell
<1>13. Keeps(d, e, K, {})
  BY <1>11, <1>12, KeepsIf
<1>14. DirsStay(d, e, K)
  BY <1>5, EntryCells DEF DirsStay
<1>15. Stays(d, e)
  <2>1. \A m \in Pieces : CR(d).imap[m] # None => CR(d).imap[m] \notin at..(at + n - 1)
    BY <1>1, Facts
  <2>2. MapStay(d, e)
    BY <2>1, <1>2, <1>4 DEF MapStay, SameCell
  <2>3. QED BY <2>2, <1>7, FullStays DEF Stays
<1>17. JunkStays(d, e)
  <2>1. \A a \in at..(at + n - 1) : e[a].kind = "data" => e[a].val = Junk
    BY <1>3 DEF Blank, InodeCells
  <2>2. QED BY <2>1, <1>2, <1>4 DEF JunkStays, JunkBeyond
<1>18. Calm(d, e)
  BY <1>7, <1>17 DEF Calm
<1>16. QED BY <1>2, <1>4, <1>9, <1>10, <1>11, <1>13, <1>14, <1>15, <1>18

\* A cell that brings no name, and one that brings none without a number.
Nameless(c) == c.kind = "ent" => c.name \in {".", "..", Free}
Numbers(c) == c.kind = "ent" => c.name \in {".", "..", Free} \/ c.inum # None

\* The data of a file, or entries of a directory, in one of its blocks.
LEMMA WriteBlock ==
  ASSUME NEW d, NEW K, Sound(d, K), NEW k \in K, NEW b \in Blocks, Blk(d, k, b) # None,
         NEW at \in Int, NEW n, NEW cells, Run(cells, n),
         Blk(d, k, b) <= at, at + n <= Blk(d, k, b) + DIRENTS,
         \A j \in 0..(n - 1) :
           \/ cells[j].kind = "data" /\ ~IsDirAt(d, k)
           \/ cells[j].kind = "ent" /\ (cells[j].name \in {".", "..", Free} \/ cells[j].inum \in K \cup {None}),
         NEW e, e = Put(d, at, cells)
  PROVE  /\ Sound(e, K) /\ Same(d, e, K) /\ Keeps(d, e, K, Only(k, b)) /\ CR(e) = CR(d)
         /\ IsDirAt(d, k) => Keeps(d, e, K, {})
         /\ DirsStay(d, e, Others(K, k)) /\ (~IsDirAt(d, k) => DirsStay(d, e, K))
         /\ \A j \in 0..(n - 1) : at + j \in DOMAIN e /\ e[at + j] = cells[j]
         /\ \A a \in DOMAIN d : a \notin at..(at + n - 1) => a \in DOMAIN e /\ e[a] = d[a]
         /\ Full(d) => Full(e)
         /\ (\A j \in 0..(n - 1) : Numbers(cells[j])) => NoneStay(d, e)
         /\ (\A j \in 0..(n - 1) : Nameless(cells[j])) => NamesFrom(d, e)
         /\ JunkStays(d, e)
<1>0. n \in Nat /\ DOMAIN cells = 0..(n - 1)
  BY DEF Run
<1> USE <1>0
<1>1. Blk(d, k, b) \in Nat /\ at > 0 /\ CR(d).end \in Nat
  BY Facts
<1>2. /\ DOMAIN e = DOMAIN d \cup at..(at + n - 1)
      /\ \A a \in at..(at + n - 1) : e[a] = cells[a - at]
      /\ \A a \in DOMAIN d : a \notin at..(at + n - 1) => e[a] = d[a]
  <2>1. DOMAIN e = DOMAIN d \cup at..(at + n - 1)
    BY CellsDomain, Zenon
  <2>2. \A j \in 0..(n - 1) : e[at + j] = cells[j]
    BY CellsNew
  <2>3. ASSUME NEW a \in at..(at + n - 1) PROVE e[a] = cells[a - at]
    <3>1. a - at \in 0..(n - 1) /\ at + (a - at) = a
      OBVIOUS
    <3>2. QED BY <3>1, <2>2
  <2>4. \A a \in DOMAIN d : a \notin at..(at + n - 1) => e[a] = d[a]
    BY CellsOld, Zenon
  <2>5. QED BY <2>1, <2>3, <2>4
<1>3. \A a \in at..(at + n - 1) :
        \/ e[a].kind = "data" /\ ~IsDirAt(d, k)
        \/ e[a].kind = "ent" /\ (e[a].name \in {".", "..", Free} \/ e[a].inum \in K \cup {None})
  BY <1>2
<1>4. 0 \in DOMAIN d /\ 0 \in DOMAIN e /\ CR(e) = CR(d) /\ e[0] = d[0]
  BY <1>1, <1>2 DEF Sound, Shaped, CR
<1>5. Shaped(e)
  <2>1. DOMAIN e \subseteq Nat
    BY <1>1, <1>2 DEF Sound, Shaped
  <2>2. \A a \in DOMAIN e : /\ e[a].kind = "imap" => e[a].inode_loc \in [0..(INODES - 1) -> Int]
                            /\ e[a].kind = "inode" => e[a] \in InodeCells
    BY <1>2, <1>3 DEF Sound, Shaped
  <2>3. QED BY <2>1, <2>2, <1>4 DEF Sound, Shaped
<1>6. Live(e) \subseteq K
  <2>1. \A a \in DOMAIN e : IsName(e, a) =>
          e[a].inum \in K \cup {None} \/ (a \in DOMAIN d /\ e[a] = d[a])
    BY <1>2, <1>3 DEF IsName, IsEntry
  <2>2. QED BY <2>1, NoNewNames DEF Sound
<1>7. ASSUME NEW l \in K
      PROVE  /\ MapAt(e, l) = MapAt(d, l) /\ MapAt(d, l) \in DOMAIN e
             /\ e[MapAt(d, l)].kind = "imap" /\ e[MapAt(d, l)].inode_loc[0] # None
             /\ Loc(e, l) = Loc(d, l) /\ Loc(d, l) \in DOMAIN e
             /\ e[Loc(d, l)] = d[Loc(d, l)]
             /\ IsDirAt(d, l) => \A c \in Blocks : Blk(d, l, c) # None =>
                  \A j \in Slots : IsEntry(e, Blk(d, l, c) + j)
  <2>1. InPlace(d, l)
    BY DEF Sound
  <2>2. MapAt(e, l) = MapAt(d, l)
    BY <1>4 DEF MapAt
  <2>3. Loc(d, l) \notin at..(at + n - 1)
    <3>1. Outside(Loc(d, l), Blk(d, k, b))
      BY DEF Sound, Separate
    <3>2. Loc(d, l) \in Int
      BY Facts
    <3>3. QED BY <3>1, <3>2, <1>1, Constants DEF Outside
  <2>4. MapAt(d, l) \notin at..(at + n - 1)
    <3>1. PieceOf(l) \in Pieces /\ MapAt(d, l) = CR(d).imap[PieceOf(l)] /\ MapAt(d, l) # None
      BY Facts
    <3>2. Outside(MapAt(d, l), Blk(d, k, b))
      BY <3>1 DEF Sound, Separate
    <3>3. MapAt(d, l) \in Int
      BY Facts
    <3>4. QED BY <3>2, <3>3, <1>1, Constants DEF Outside
  <2>5. /\ MapAt(d, l) \in DOMAIN e /\ e[MapAt(d, l)] = d[MapAt(d, l)]
        /\ Loc(d, l) \in DOMAIN e /\ e[Loc(d, l)] = d[Loc(d, l)]
    BY Facts, <2>3, <2>4, <1>2
  <2>6. Loc(e, l) = Loc(d, l)
    BY <2>2, <2>5 DEF Loc
  <2>7. ASSUME IsDirAt(d, l), NEW c \in Blocks, Blk(d, l, c) # None, NEW j \in Slots
        PROVE  IsEntry(e, Blk(d, l, c) + j)
    <3> DEFINE x == Blk(d, l, c) + j
    <3>1. IsEntry(d, x)
      BY <2>1, <2>7 DEF InPlace
    <3>2. Blk(d, l, c) \in Int /\ j \in Int /\ 0 <= j /\ j < DIRENTS
      BY <2>7, Facts, Constants DEF Slots
    <3>3. CASE x \notin at..(at + n - 1)
      BY <3>1, <3>3, <1>2 DEF IsEntry
    <3>4. CASE x \in at..(at + n - 1)
      <4>1. x \in Int /\ Blk(d, k, b) <= x /\ x < Blk(d, k, b) + DIRENTS
        BY <3>4, <1>1, Constants
      <4>2. Blk(d, l, c) <= x /\ x < Blk(d, l, c) + DIRENTS
        BY <3>2, Constants
      <4> HIDE DEF x
      <4>3. k = l
        <5>1. Blk(d, k, b) \in Int /\ Blk(d, l, c) \in Int
          BY <2>7, Facts
        <5>2. ~(Blk(d, k, b) + DIRENTS <= Blk(d, l, c) \/ Blk(d, l, c) + DIRENTS <= Blk(d, k, b))
          BY <5>1, <4>1, <4>2, Constants
        <5>3. QED BY <5>2, <2>7 DEF Sound, Separate
      <4>4. QED BY <4>3, <3>4, <2>7, <1>2, <1>3 DEF IsEntry, x
    <3>5. QED BY <3>3, <3>4
  <2>8. QED BY <2>1, <2>2, <2>5, <2>6, <2>7 DEF InPlace
<1> HIDE <1>0
<1>8. Sound(e, K)
  BY <1>4, <1>5, <1>6, <1>7, Facts, Unmoved
<1> USE <1>0
<1>9. \A j \in 0..(n - 1) : at + j \in DOMAIN e /\ e[at + j] = cells[j]
  <2> TAKE j \in 0..(n - 1)
  <2>1. at + j \in at..(at + n - 1) /\ (at + j) - at = j
    OBVIOUS
  <2>2. QED BY <2>1, <1>2
<1>10. Same(d, e, K)
  BY <1>7 DEF Same
<1>11. ASSUME NEW l \in K, NEW c \in Blocks, Blk(d, l, c) # None, k # l \/ b # c
       PROVE  SameCell(d, e, Blk(d, l, c))
  <2>1. Blk(d, k, b) + DIRENTS <= Blk(d, l, c) \/ Blk(d, l, c) + DIRENTS <= Blk(d, k, b)
    BY <1>11 DEF Sound, Separate
  <2>2. Blk(d, l, c) \in Int
    BY <1>11, Facts
  <2>3. Blk(d, l, c) \notin at..(at + n - 1)
    BY <2>1, <2>2, <1>1, Constants
  <2>4. QED BY <2>3, <1>2 DEF SameCell
<1>12. Keeps(d, e, K, Only(k, b))
  BY <1>10, <1>11, KeepsIf DEF Only
<1>13. IsDirAt(d, k) => Keeps(d, e, K, {})
  BY <1>10, <1>11, KeepsIf
<1>14. ASSUME NEW l \in K, IsDirAt(d, l), k # l, NEW c \in Blocks, Blk(d, l, c) # None, NEW j \in Slots
       PROVE  e[Blk(d, l, c) + j] = d[Blk(d, l, c) + j]
  <2>1. Blk(d, k, b) + DIRENTS <= Blk(d, l, c) \/ Blk(d, l, c) + DIRENTS <= Blk(d, k, b)
    BY <1>14 DEF Sound, Separate
  <2>2. Blk(d, l, c) \in Int
    BY <1>14, Facts
  <2>3. Blk(d, l, c) + j \notin at..(at + n - 1)
    BY <2>1, <2>2, <1>1, Constants DEF Slots
  <2>4. Blk(d, l, c) + j \in DOMAIN d
    BY <1>14, EntryCells
  <2>5. QED BY <2>3, <2>4, <1>2
<1>15. DirsStay(d, e, Others(K, k)) /\ (~IsDirAt(d, k) => DirsStay(d, e, K))
  BY <1>14 DEF DirsStay, Others
<1>16. Full(d) => Full(e)
  <2>1. ASSUME NEW m \in Pieces, CR(d).imap[m] # None PROVE CR(d).imap[m] \notin at..(at + n - 1)
    <3>1. Outside(CR(d).imap[m], Blk(d, k, b))
      BY <2>1 DEF Sound, Separate
    <3>2. CR(d).imap[m] \in Int
      BY Facts
    <3>3. QED BY <3>1, <3>2, <1>1, Constants DEF Outside
  <2>2. MapStay(d, e)
    BY <2>1, <1>2, <1>4 DEF MapStay, SameCell
  <2>3. QED BY <2>2, FullStays
<1>17. ASSUME \A j \in 0..(n - 1) : Numbers(cells[j]) PROVE NoneStay(d, e)
  <2> SUFFICES ASSUME NoNone(d), NEW a \in DOMAIN e, IsName(e, a) PROVE e[a].inum # None
    BY DEF NoneStay, NoNone
  <2>1. CASE a \in at..(at + n - 1)
    <3>1. a - at \in 0..(n - 1) /\ e[a] = cells[a - at]
      BY <2>1, <1>2
    <3>2. Numbers(e[a])
      BY <3>1, <1>17
    <3>3. QED BY <3>2 DEF Numbers, IsName, IsEntry
  <2>2. CASE a \notin at..(at + n - 1)
    BY <2>2, <1>2 DEF NoNone, IsName, IsEntry
  <2>3. QED BY <2>1, <2>2
<1>19. ASSUME \A j \in 0..(n - 1) : Nameless(cells[j]) PROVE NamesFrom(d, e)
  <2> SUFFICES ASSUME NEW a \in DOMAIN e, IsName(e, a) PROVE a \in DOMAIN d /\ e[a] = d[a]
    BY DEF NamesFrom
  <2>1. ASSUME a \in at..(at + n - 1) PROVE FALSE
    <3>1. a - at \in 0..(n - 1) /\ e[a] = cells[a - at]
      BY <2>1, <1>2
    <3>2. Nameless(e[a])
      BY <3>1, <1>19
    <3>3. QED BY <3>2 DEF Nameless, IsName, IsEntry
  <2>2. QED BY <2>1, <1>2
<1>20. JunkStays(d, e)
  <2>1. Blk(d, k, b) + DIRENTS <= CR(d).end
    BY <1>1, Facts, Constants
  <2>2. \A a \in at..(at + n - 1) : ~(a >= CR(d).end)
    BY <2>1, <1>1, Constants
  <2>3. QED BY <2>2, <1>2, <1>4 DEF JunkStays, JunkBeyond
<1>18. QED BY <1>2, <1>4, <1>8, <1>9, <1>10, <1>12, <1>13, <1>15, <1>16, <1>17, <1>19, <1>20

\* Multiplication by the entries of a block.
LEMMA LessTimes ==
  ASSUME NEW x \in Int, NEW y \in Int, x < y
  PROVE  x * DIRENTS <= y * DIRENTS
<1>1. DIRENTS \in Nat /\ (y - x) * DIRENTS >= 0
  BY Constants
<1>2. QED BY <1>1, Constants

\* The inode k, with block b where it was or in cells above everything in use.
LEMMA WriteInode ==
  ASSUME NEW d, NEW K, Sound(d, K), NEW k \in K, NEW b \in Blocks,
         NEW c \in InodeCells, c.type = d[Loc(d, k)].type,
         \A x \in Blocks : x # b => c.block_loc[x] = Blk(d, k, x),
         \/ c.block_loc[b] = Blk(d, k, b)
         \/ /\ b # 0 /\ c.block_loc[b] > 0 /\ Below(d, K, c.block_loc[b])
            /\ c.block_loc[b] + DIRENTS <= CR(d).end
            /\ IsDirAt(d, k) => b * DIRENTS < c.size /\ \A j \in Slots : IsEntry(d, c.block_loc[b] + j),
         IsDirAt(d, k) =>
           c.size > 0 /\ \A x \in Blocks : x * DIRENTS < c.size => c.block_loc[x] # None,
         NEW e, e = Put(d, Loc(d, k), One(c))
  PROVE  /\ Sound(e, K) /\ CR(e) = CR(d) /\ DOMAIN e = DOMAIN d
         /\ Same(d, e, Others(K, k)) /\ DirsStay(d, e, K)
         /\ \A x \in K : MapAt(e, x) = MapAt(d, x) /\ Loc(e, x) = Loc(d, x)
         /\ e[Loc(d, k)] = c
         /\ \A a \in DOMAIN d : a # Loc(d, k) => e[a] = d[a]
         /\ IsDirAt(d, k) \/ Blk(d, k, b) \in {None, c.block_loc[b]} => Keeps(d, e, K, {})
         /\ Stays(d, e) /\ Calm(d, e)
<1> DEFINE at == Loc(d, k)
           l  == c.block_loc[b]
           High == /\ b # 0 /\ l > 0 /\ Below(d, K, l) /\ l + DIRENTS <= CR(d).end
                   /\ IsDirAt(d, k) => b * DIRENTS < c.size /\ \A j \in Slots : IsEntry(d, l + j)
<1>1. at \in Nat /\ at > 0 /\ at \in DOMAIN d /\ d[at].kind = "inode"
  BY Facts
<1>2. DOMAIN e = DOMAIN d /\ e[at] = c /\ \A a \in DOMAIN d : a # at => e[a] = d[a]
  <2>1. at \in Int
    BY <1>1
  <2>2. DOMAIN e = DOMAIN d \cup {at}
    BY <2>1, OneDomain, Zenon
  <2>3. e[at] = c
    BY <2>1, OneNew, Zenon
  <2>4. \A a \in DOMAIN d : a # at => e[a] = d[a]
    BY <2>1, OneOld
  <2>5. QED BY <2>2, <2>3, <2>4, <1>1
<1>3. /\ c.kind = "inode" /\ c.type \in {MFS_DIRECTORY, MFS_REGULAR_FILE} /\ c.size \in Nat
      /\ \A x \in Blocks : c.block_loc[x] \in Int
  BY DEF InodeCells
<1>4. 0 \in DOMAIN d /\ CR(e) = CR(d) /\ e[0] = d[0]
  BY <1>1, <1>2 DEF Sound, Shaped, CR
<1>5. l = Blk(d, k, b) \/ High
  OBVIOUS
<1> HIDE DEF at, l, High
<1>6. Shaped(e)
  <2>1. \A a \in DOMAIN e : /\ e[a].kind = "imap" => e[a].inode_loc \in [0..(INODES - 1) -> Int]
                            /\ e[a].kind = "inode" => e[a] \in InodeCells
    BY <1>2, <1>3 DEF Sound, Shaped
  <2>2. QED BY <2>1, <1>2, <1>4 DEF Sound, Shaped
<1>7. Live(e) \subseteq K /\ NoneStay(d, e) /\ NamesFrom(d, e)
  <2>1. \A a \in DOMAIN e : IsName(e, a) => a \in DOMAIN d /\ e[a] = d[a]
    BY <1>2, <1>3 DEF IsName, IsEntry
  <2>2. Live(e) \subseteq K
    BY <2>1, NoNewNames DEF Sound
  <2>3. QED BY <2>1, <2>2, NamesStay DEF NamesFrom
<1>8. ASSUME NEW x \in K
      PROVE  /\ MapAt(e, x) = MapAt(d, x) /\ MapAt(d, x) \in DOMAIN e
             /\ e[MapAt(d, x)] = d[MapAt(d, x)]
             /\ Loc(e, x) = Loc(d, x)
             /\ x # k => e[Loc(d, x)] = d[Loc(d, x)]
  <2>1. MapAt(e, x) = MapAt(d, x)
    BY <1>4 DEF MapAt
  <2>2. MapAt(d, x) \in DOMAIN e /\ e[MapAt(d, x)] = d[MapAt(d, x)]
    BY Facts, <1>1, <1>2
  <2>3. Loc(e, x) = Loc(d, x)
    BY <2>1, <2>2 DEF Loc
  <2>4. x # k => Loc(d, x) # at
    BY DEF Sound, Separate, at
  <2>5. x # k => e[Loc(d, x)] = d[Loc(d, x)]
    BY <2>4, Facts, <1>2
  <2>6. QED BY <2>1, <2>2, <2>3, <2>5
<1>9. \A x \in K, i \in Blocks :
        Blk(e, x, i) = Blk(d, x, i) \/ (x = k /\ i = b /\ Blk(e, x, i) = l /\ High)
  <2> TAKE x \in K, i \in Blocks
  <2>1. CASE x # k
    BY <2>1, <1>8 DEF Blk
  <2>2. CASE x = k
    <3>1. Blk(e, x, i) = c.block_loc[i]
      BY <2>2, <1>8, <1>2 DEF Blk, at
    <3>2. i # b => c.block_loc[i] = Blk(d, x, i)
      BY <2>2
    <3>3. QED BY <3>1, <3>2, <2>2, <1>5 DEF l
  <2>3. QED BY <2>1, <2>2
<1>10. \A a \in DOMAIN d : IsEntry(d, a) => IsEntry(e, a)
  BY <1>1, <1>2 DEF IsEntry
<1>11. \A x \in K : IsDirAt(e, x) = IsDirAt(d, x)
  BY <1>8, <1>2 DEF IsDirAt, at
<1>12. ASSUME NEW x \in K
       PROVE  InPlace(e, x)
  <2>1. InPlace(d, x)
    BY DEF Sound
  <2>2. /\ x \in Inums /\ MapAt(e, x) # None /\ MapAt(e, x) \in DOMAIN e
        /\ e[MapAt(e, x)].kind = "imap" /\ e[MapAt(e, x)].inode_loc[0] # None
    BY <2>1, <1>8 DEF InPlace
  <2>3. Loc(e, x) \in 1..(CR(e).end - 1) /\ Loc(e, x) \in DOMAIN e
    BY <2>1, <1>8, <1>4, <1>2 DEF InPlace
  <2>4. e[Loc(e, x)].kind = "inode"
    BY <2>1, <1>8, <1>2, <1>3 DEF InPlace, at
  <2>5. Blk(e, x, 0) = Loc(e, x) + 1
    BY <2>1, <1>8, <1>9, Constants DEF InPlace, High
  <2>6. ASSUME NEW i \in Blocks, Blk(e, x, i) # None
        PROVE  Blk(e, x, i) \in 1..(CR(e).end - DIRENTS)
    <3>1. CASE Blk(e, x, i) = Blk(d, x, i)
      BY <3>1, <2>6, <1>4, Facts
    <3>2. CASE Blk(e, x, i) = l /\ High
      <4>1. l \in Int /\ CR(d).end \in Nat
        BY <1>3, Facts DEF l
      <4>2. QED BY <4>1, <3>2, <1>4, Constants DEF High
    <3>3. QED BY <3>1, <3>2, <1>9
  <2>7. ASSUME IsDirAt(e, x)
        PROVE  /\ e[Loc(e, x)].size > 0
               /\ \A i \in Blocks : i * DIRENTS < e[Loc(e, x)].size => Blk(e, x, i) # None
    <3>1. CASE x # k
      <4>1. e[Loc(e, x)] = d[Loc(d, x)] /\ \A i \in Blocks : Blk(e, x, i) = Blk(d, x, i)
        BY <3>1, <1>8, <1>9
      <4>2. QED BY <4>1, <2>1, <2>7, <1>11 DEF InPlace
    <3>2. CASE x = k
      <4>1. e[Loc(e, x)] = c /\ \A i \in Blocks : Blk(e, x, i) = c.block_loc[i]
        BY <3>2, <1>8, <1>2 DEF Blk, at
      <4>2. QED BY <4>1, <3>2, <2>7, <1>11
    <3>3. QED BY <3>1, <3>2
  <2>8. ASSUME IsDirAt(e, x), NEW i \in Blocks, Blk(e, x, i) # None, NEW j \in Slots
        PROVE  IsEntry(e, Blk(e, x, i) + j)
    <3>1. IsDirAt(d, x)
      BY <2>8, <1>11
    <3>2. CASE Blk(e, x, i) = Blk(d, x, i)
      <4>1. IsEntry(d, Blk(d, x, i) + j)
        BY <3>1, <3>2, <2>8, <2>1 DEF InPlace
      <4>2. QED BY <4>1, <3>2, <1>10 DEF IsEntry
    <3>3. CASE x = k /\ Blk(e, x, i) = l /\ High
      <4>1. IsEntry(d, l + j)
        BY <3>1, <3>3 DEF High
      <4>2. QED BY <4>1, <3>3, <1>10 DEF IsEntry
    <3>4. QED BY <3>2, <3>3, <1>9
  <2>9. ASSUME IsDirAt(e, x) PROVE Gapless(e, x)
    <3>1. IsDirAt(d, x) /\ Gapless(d, x)
      BY <2>9, <2>1, <1>11 DEF InPlace
    <3>2. ASSUME NEW i \in Blocks, NEW y \in Blocks, y < i, Blk(e, x, i) # None PROVE Blk(e, x, y) # None
      <4>1. CASE Blk(d, x, i) # None
        <5>1. Blk(d, x, y) # None
          BY <3>1, <3>2, <4>1 DEF Gapless
        <5>2. l # None \/ ~High
          BY DEF High, None
        <5>3. QED BY <5>1, <5>2, <1>9
      <4>2. CASE x = k /\ i = b /\ High
        <5>1. i * DIRENTS < e[Loc(e, x)].size
          BY <4>2, <3>1, <1>2, <1>8 DEF High, at
        <5>2. y * DIRENTS < e[Loc(e, x)].size
          <6>1. e[Loc(e, x)].size \in Nat
            BY <4>2, <1>2, <1>3, <1>8 DEF at
          <6>2. i \in Int /\ y \in Int
            BY Constants DEF Blocks
          <6>3. y * DIRENTS <= i * DIRENTS
            BY <6>2, <3>2, Constants, LessTimes
          <6>4. QED BY <5>1, <6>1, <6>2, <6>3, Constants
        <5>3. QED BY <5>2, <2>7, <2>9
      <4>3. QED BY <4>1, <4>2, <3>2, <1>9
    <3>3. QED BY <3>2 DEF Gapless
  <2>10. QED BY <2>2, <2>3, <2>4, <2>5, <2>6, <2>7, <2>8, <2>9 DEF InPlace
<1>13. Separate(e, K)
  <2>1. l \in Int /\ DIRENTS \in Nat /\ DIRENTS > 0
    BY <1>3, Constants DEF l
  <2>2. ASSUME NEW x \in K, NEW m \in Pieces, CR(e).imap[m] # None
        PROVE  /\ Loc(e, x) # CR(e).imap[m]
               /\ \A i \in Blocks : Blk(e, x, i) # None => Outside(CR(e).imap[m], Blk(e, x, i))
    <3>1. Loc(e, x) # CR(e).imap[m]
      BY <2>2, <1>4, <1>8 DEF Sound, Separate
    <3>2. ASSUME NEW i \in Blocks, Blk(e, x, i) # None
          PROVE  Outside(CR(e).imap[m], Blk(e, x, i))
      <4>1. CASE Blk(e, x, i) = Blk(d, x, i)
        BY <4>1, <3>2, <2>2, <1>4 DEF Sound, Separate
      <4>2. CASE Blk(e, x, i) = l /\ High
        BY <4>2, <2>2, <1>4 DEF High, Below, Outside
      <4>3. QED BY <4>1, <4>2, <1>9
    <3>3. QED BY <3>1, <3>2
  <2>3. ASSUME NEW x \in K, NEW y \in K
        PROVE  /\ x # y => Loc(e, x) # Loc(e, y)
               /\ \A i \in Blocks : Blk(e, y, i) # None => Outside(Loc(e, x), Blk(e, y, i))
    <3>1. x # y => Loc(e, x) # Loc(e, y)
      BY <1>8 DEF Sound, Separate
    <3>2. ASSUME NEW i \in Blocks, Blk(e, y, i) # None
          PROVE  Outside(Loc(e, x), Blk(e, y, i))
      <4>1. CASE Blk(e, y, i) = Blk(d, y, i)
        BY <4>1, <3>2, <1>8 DEF Sound, Separate
      <4>2. CASE Blk(e, y, i) = l /\ High
        BY <4>2, <1>8 DEF High, Below, Outside
      <4>3. QED BY <4>1, <4>2, <1>9
    <3>3. QED BY <3>1, <3>2
  <2>4. ASSUME NEW x \in K, NEW y \in K, NEW i \in Blocks, NEW j \in Blocks,
               x # y \/ i # j, Blk(e, x, i) # None, Blk(e, y, j) # None
        PROVE  Blk(e, x, i) + DIRENTS <= Blk(e, y, j) \/ Blk(e, y, j) + DIRENTS <= Blk(e, x, i)
    <3>1. CASE Blk(e, x, i) = Blk(d, x, i) /\ Blk(e, y, j) = Blk(d, y, j)
      BY <3>1, <2>4 DEF Sound, Separate
    <3>2. CASE Blk(e, x, i) = l /\ High /\ Blk(e, y, j) = Blk(d, y, j)
      BY <3>2, <2>4 DEF High, Below
    <3>3. CASE Blk(e, x, i) = Blk(d, x, i) /\ Blk(e, y, j) = l /\ High
      BY <3>3, <2>4 DEF High, Below
    <3>4. QED BY <3>1, <3>2, <3>3, <2>4, <1>9
  <2>5. QED BY <2>2, <2>3, <2>4 DEF Separate
<1>14. Sound(e, K)
  BY <1>6, <1>7, <1>12, <1>13 DEF Sound
<1>15. ASSUME IsDirAt(d, k) \/ Blk(d, k, b) \in {None, c.block_loc[b]} PROVE Keeps(d, e, K, {})
  <2> SUFFICES ASSUME NEW x \in K, NEW i \in Blocks, ~IsDirAt(d, x), Blk(d, x, i) # None
               PROVE  /\ Blk(e, x, i) = Blk(d, x, i)
                      /\ BlockAt(e, Blk(d, x, i)) = BlockAt(d, Blk(d, x, i))
    BY DEF Keeps
  <2>1. Blk(e, x, i) = Blk(d, x, i)
    BY <1>9, <1>15 DEF l
  <2>2. Outside(at, Blk(d, x, i))
    BY DEF Sound, Separate, at
  <2>3. Blk(d, x, i) # at
    BY <2>2, <1>1, Facts, Constants DEF Outside
  <2>4. BlockAt(e, Blk(d, x, i)) = BlockAt(d, Blk(d, x, i))
    BY <2>3, <1>2 DEF BlockAt
  <2>5. QED BY <2>1, <2>4
<1>16. Same(d, e, Others(K, k))
  BY <1>8 DEF Same, Others
<1>17. DirsStay(d, e, K)
  <2> SUFFICES ASSUME NEW x \in K, NEW i \in Blocks, NEW j \in Slots, IsDirAt(d, x), Blk(d, x, i) # None
               PROVE  e[Blk(d, x, i) + j] = d[Blk(d, x, i) + j]
    BY DEF DirsStay
  <2>1. Outside(at, Blk(d, x, i))
    BY DEF Sound, Separate, at
  <2>2. Blk(d, x, i) + j # at
    BY <2>1, <1>1, Facts, Constants DEF Outside, Slots
  <2>3. Blk(d, x, i) + j \in DOMAIN d
    BY EntryCells
  <2>4. QED BY <2>2, <2>3, <1>2
<1>18. Stays(d, e)
  <2>1. \A m \in Pieces : CR(d).imap[m] # None => CR(d).imap[m] # at
    BY DEF Sound, Separate, at
  <2>2. MapStay(d, e)
    BY <2>1, <1>2, <1>4 DEF MapStay, SameCell
  <2>3. QED BY <2>2, <1>7, FullStays DEF Stays
<1>20. JunkStays(d, e)
  BY <1>2, <1>3, <1>4 DEF JunkStays, JunkBeyond
<1>21. Calm(d, e)
  BY <1>7, <1>20 DEF Calm
<1>19. QED BY <1>2, <1>4, <1>8, <1>14, <1>15, <1>16, <1>17, <1>18, <1>21 DEF at

\* A new inode with its first block, above everything in use.
LEMMA AddLive ==
  ASSUME NEW d, NEW K, Sound(d, K), NEW k, InPlace(d, k), Below(d, K, Loc(d, k)),
         \A b \in Blocks : b # 0 => Blk(d, k, b) = None
  PROVE  Sound(d, K \cup {k})
<1>1. /\ Loc(d, k) \in Nat /\ Blk(d, k, 0) = Loc(d, k) + 1 /\ DIRENTS \in Nat /\ DIRENTS > 0
      /\ 0 \in Blocks /\ \A b \in Blocks : Blk(d, k, b) # None => b = 0
  BY Constants DEF InPlace
<1>2. /\ \A m \in Pieces : CR(d).imap[m] \in Int
      /\ \A x \in K : Loc(d, x) \in Int
      /\ \A x \in K, b \in Blocks : Blk(d, x, b) # None => Blk(d, x, b) \in Int
  BY Facts
<1>3. ASSUME NEW m \in Pieces, CR(d).imap[m] # None
      PROVE  /\ Loc(d, k) # CR(d).imap[m]
             /\ \A b \in Blocks : Blk(d, k, b) # None => Outside(CR(d).imap[m], Blk(d, k, b))
  BY <1>1, <1>2, <1>3 DEF Below, Outside
<1>4. ASSUME NEW x \in K, NEW y \in K
      PROVE  /\ x # y => Loc(d, x) # Loc(d, y)
             /\ \A b \in Blocks : Blk(d, y, b) # None => Outside(Loc(d, x), Blk(d, y, b))
             /\ \A b, c \in Blocks :
                  (x # y \/ b # c) /\ Blk(d, x, b) # None /\ Blk(d, y, c) # None =>
                  Blk(d, x, b) + DIRENTS <= Blk(d, y, c) \/ Blk(d, y, c) + DIRENTS <= Blk(d, x, b)
  BY DEF Sound, Separate
<1>5. ASSUME NEW x \in K
      PROVE  /\ Loc(d, x) # Loc(d, k)
             /\ \A b \in Blocks : Blk(d, k, b) # None => Outside(Loc(d, x), Blk(d, k, b))
             /\ \A b \in Blocks : Blk(d, x, b) # None => Outside(Loc(d, k), Blk(d, x, b))
             /\ \A b, c \in Blocks : Blk(d, x, b) # None /\ Blk(d, k, c) # None =>
                  Blk(d, x, b) + DIRENTS <= Blk(d, k, c)
  BY <1>1, <1>2 DEF Below, Outside
<1>6. /\ \A b \in Blocks : Blk(d, k, b) # None => Outside(Loc(d, k), Blk(d, k, b))
      /\ \A b, c \in Blocks : Blk(d, k, b) # None /\ Blk(d, k, c) # None => b = c
  BY <1>1 DEF Outside
<1>7. Separate(d, K \cup {k})
  <2>1. \A x \in K \cup {k}, m \in Pieces : CR(d).imap[m] # None =>
          /\ Loc(d, x) # CR(d).imap[m]
          /\ \A b \in Blocks : Blk(d, x, b) # None => Outside(CR(d).imap[m], Blk(d, x, b))
    BY <1>3 DEF Sound, Separate
  <2>2. ASSUME NEW x \in K \cup {k}, NEW y \in K \cup {k}
        PROVE  /\ x # y => Loc(d, x) # Loc(d, y)
               /\ \A b \in Blocks : Blk(d, y, b) # None => Outside(Loc(d, x), Blk(d, y, b))
               /\ \A b, c \in Blocks :
                    (x # y \/ b # c) /\ Blk(d, x, b) # None /\ Blk(d, y, c) # None =>
                    Blk(d, x, b) + DIRENTS <= Blk(d, y, c) \/ Blk(d, y, c) + DIRENTS <= Blk(d, x, b)
    <3>1. CASE x \in K /\ y \in K
      BY <3>1, <1>4
    <3>2. CASE x \in K /\ y = k
      BY <3>2, <1>5
    <3>3. CASE x = k /\ y \in K
      BY <3>3, <1>5
    <3>4. CASE x = k /\ y = k
      BY <3>4, <1>6
    <3>5. QED BY <3>1, <3>2, <3>3, <3>4
  <2>3. QED BY <2>1, <2>2 DEF Separate
<1>8. QED BY <1>7 DEF Sound

\* Fewer inodes, as long as they are all that have a name.
LEMMA Fewer ==
  ASSUME NEW d, NEW K, Sound(d, K), NEW L, L \subseteq K, Live(d) \subseteq L
  PROVE  Sound(d, L)
BY DEF Sound, Separate

\* load_inode_loc reads the inode map right for an inode in place.
LEMMA LocIs ==
  ASSUME NEW d, Shaped(d), NEW k, InPlace(d, k)
  PROVE  /\ InodeLoc(d)[k] = Loc(d, k) /\ IsInode(d, k) /\ Inode(d, k) = d[Loc(d, k)]
         /\ Piece(d, PieceOf(k)) = [j \in 0..(INODES - 1) |-> d[MapAt(d, k)].inode_loc[j]]
<1> DEFINE m  == PieceOf(k)
           in == {l \in 0..m : InFile(d, CR(d).imap[l])}
<1>1. k \in Inums /\ m \in Pieces /\ m \in Nat /\ IndexOf(k) \in 0..(INODES - 1)
  BY Split, Constants DEF InPlace, Pieces
<1>2. m \in in
  BY <1>1 DEF InFile, InPlace, MapAt
<1>3. Max(in) = m
  <2>1. \A l \in in : l \in Int /\ l <= m
    BY <1>1
  <2>2. \E x \in in : \A y \in in : x >= y
    BY <1>1, <1>2, <2>1
  <2>3. QED BY <1>2, <2>1, <2>2 DEF Max
<1> HIDE DEF in
<1>4. Piece(d, m) = [j \in 0..(INODES - 1) |-> d[MapAt(d, k)].inode_loc[j]]
  BY <1>3 DEF Piece, in, MapAt, InPlace
<1>5. InodeLoc(d)[k] = Loc(d, k)
  BY <1>1, <1>4 DEF InodeLoc, PieceOf, IndexOf, InPlace, MapAt, Loc
<1>6. QED BY <1>1, <1>4, <1>5 DEF IsInode, Inode, InPlace

-----------------------------------------------------------------------------
(* Sequences of writes                                                     *)

\* The image is sound for the inodes that have a name on it, and fine: names are
\* unique, and the size of each directory but the U covers its entries.
Well(d, U) == Sound(d, Live(d)) /\ Fine(d, Live(d), U)

\* It is when it is sound and fine for more of them.
LEMMA WellIf ==
  ASSUME NEW d, NEW K, Sound(d, K), NEW U, Fine(d, K, U)
  PROVE  Well(d, U)
<1>1. Live(d) \subseteq K
  BY DEF Sound
<1>2. Sound(d, Live(d))
  BY <1>1, Fewer
<1>3. Fine(d, Live(d), U)
  BY <1>1, FineLess
<1>4. QED BY <1>2, <1>3 DEF Well

\* A write changes nothing that a file with a name holds, save that of the blocks
\* X, and the tree as it should.
Goes(d, e, X, U) == Keeps(d, e, Live(d), X) /\ Shown(d, e, U)

\* The writes s take image d to image e, every image on the way is well, and every
\* write goes as it should.
Leads(d, s, e, X, U) ==
  /\ \E S : s \in Seq(S)
  /\ \E img : /\ img[0] = d /\ img[Len(s)] = e
              /\ \A j \in 1..Len(s) : img[j] = Put(img[j - 1], s[j][1], s[j][2])
              /\ \A j \in 0..Len(s) : Well(img[j], U)
              /\ \A j \in 1..Len(s) : Goes(img[j - 1], img[j], X, U)

\* A call that writes nothing leaves the image, which is well.
LEMMA LeadsNone ==
  ASSUME NEW d, NEW X, NEW U, Well(d, U)
  PROVE  Leads(d, <<>>, d, X, U)
<1> DEFINE img == [j \in {0} |-> d]
<1>1. <<>> \in Seq({}) /\ Len(<<>>) = 0
  OBVIOUS
<1>2. img[0] = d
  OBVIOUS
<1> HIDE DEF img
<1>3. /\ img[Len(<<>>)] = d /\ \A j \in 1..Len(<<>>) : img[j] = Put(img[j - 1], <<>>[j][1], <<>>[j][2])
      /\ \A j \in 0..Len(<<>>) : Well(img[j], U)
      /\ \A j \in 1..Len(<<>>) : Goes(img[j - 1], img[j], X, U)
  BY <1>1, <1>2
<1>4. QED BY <1>1, <1>2, <1>3 DEF Leads

\* One write from such an image to another.
LEMMA LeadsOne ==
  ASSUME NEW d, NEW X, NEW U, NEW K, Sound(d, K), Fine(d, K, U), NEW at, NEW cells,
         NEW e, e = Put(d, at, cells), NEW L, Sound(e, L), Fine(e, L, U), Keeps(d, e, K, X), Shown(d, e, U)
  PROVE  Leads(d, << <<at, cells>> >>, e, X, U)
<1>0. Well(d, U) /\ Well(e, U) /\ Goes(d, e, X, U)
  <2>1. Live(d) \subseteq K
    BY DEF Sound
  <2>2. Well(d, U) /\ Well(e, U)
    BY WellIf
  <2>3. Keeps(d, e, Live(d), X)
    BY <2>1, KeepsLess
  <2>4. QED BY <2>2, <2>3 DEF Goes
<1> DEFINE w == <<at, cells>>
           s == <<w>>
           img == [j \in 0..1 |-> IF j = 0 THEN d ELSE e]
<1>1. s \in Seq({w}) /\ Len(s) = 1 /\ s[1] = w
  OBVIOUS
<1>2. w[1] = at /\ w[2] = cells
  OBVIOUS
<1>3. img[0] = d /\ img[1] = e
  OBVIOUS
<1> HIDE DEF img, s, w
<1>4. \A j \in 1..Len(s) : img[j] = Put(img[j - 1], s[j][1], s[j][2])
  BY <1>1, <1>2, <1>3
<1>5. \A j \in 0..Len(s) : Well(img[j], U)
  BY <1>0, <1>1, <1>3
<1>6. \A j \in 1..Len(s) : Goes(img[j - 1], img[j], X, U)
  BY <1>0, <1>1, <1>3
<1>7. Leads(d, s, e, X, U)
  BY <1>1, <1>3, <1>4, <1>5, <1>6 DEF Leads
<1>8. QED BY <1>7 DEF s, w

\* Writes after writes.
LEMMA LeadsOn ==
  ASSUME NEW d, NEW X, NEW U, NEW s, NEW e, NEW t, NEW f, Leads(d, s, e, X, U), Leads(e, t, f, X, U)
  PROVE  Leads(d, s \o t, f, X, U)
<1> DEFINE u == s \o t
<1>1. PICK S : s \in Seq(S)
  BY DEF Leads
<1>2. PICK T : t \in Seq(T)
  BY DEF Leads
<1>3. /\ u \in Seq(S \cup T) /\ Len(u) = Len(s) + Len(t) /\ Len(s) \in Nat /\ Len(t) \in Nat
      /\ \A j \in 1..Len(s) : u[j] = s[j]
      /\ \A j \in 1..Len(t) : u[Len(s) + j] = t[j]
  <2>1. s \in Seq(S \cup T) /\ t \in Seq(S \cup T)
    BY <1>1, <1>2
  <2>2. u \in Seq(S \cup T) /\ Len(u) = Len(s) + Len(t) /\ Len(s) \in Nat /\ Len(t) \in Nat
    BY <2>1
  <2>3. \A j \in 1..Len(s) : u[j] = s[j]
    BY <2>1
  <2>4. \A j \in 1..Len(t) : u[Len(s) + j] = t[j]
    BY <2>1
  <2>5. QED BY <2>2, <2>3, <2>4
<1> HIDE DEF u
<1>4. PICK a : /\ a[0] = d /\ a[Len(s)] = e
               /\ \A j \in 1..Len(s) : a[j] = Put(a[j - 1], s[j][1], s[j][2])
               /\ \A j \in 0..Len(s) : Well(a[j], U)
               /\ \A j \in 1..Len(s) : Goes(a[j - 1], a[j], X, U)
  BY DEF Leads
<1>5. PICK b : /\ b[0] = e /\ b[Len(t)] = f
               /\ \A j \in 1..Len(t) : b[j] = Put(b[j - 1], t[j][1], t[j][2])
               /\ \A j \in 0..Len(t) : Well(b[j], U)
               /\ \A j \in 1..Len(t) : Goes(b[j - 1], b[j], X, U)
  BY DEF Leads
<1> DEFINE img == [j \in 0..(Len(s) + Len(t)) |-> IF j <= Len(s) THEN a[j] ELSE b[j - Len(s)]]
<1>6. \A j \in 0..Len(s) : img[j] = a[j]
  BY <1>3
<1>7. \A j \in 0..Len(t) : img[Len(s) + j] = b[j]
  <2> TAKE j \in 0..Len(t)
  <2>1. Len(s) + j \in 0..(Len(s) + Len(t)) /\ (Len(s) + j) - Len(s) = j
    BY <1>3
  <2>2. CASE j = 0
    BY <2>2, <1>3, <1>4, <1>5, <1>6
  <2>3. CASE j # 0
    <3>1. ~(Len(s) + j <= Len(s))
      BY <2>3, <1>3
    <3>2. QED BY <3>1, <2>1
  <2>4. QED BY <2>2, <2>3
<1> HIDE DEF img
<1>8. img[0] = d /\ img[Len(u)] = f
  BY <1>3, <1>4, <1>5, <1>6, <1>7
<1>9. ASSUME NEW j \in 1..Len(u)
      PROVE  /\ img[j] = Put(img[j - 1], u[j][1], u[j][2])
             /\ Goes(img[j - 1], img[j], X, U)
  <2>1. CASE j <= Len(s)
    <3>1. j \in 1..Len(s) /\ j \in 0..Len(s) /\ j - 1 \in 0..Len(s)
      BY <2>1, <1>3
    <3>2. QED BY <3>1, <1>3, <1>4, <1>6
  <2>2. CASE j > Len(s)
    <3>1. PICK i \in 1..Len(t) : j = Len(s) + i
      <4>1. j - Len(s) \in 1..Len(t) /\ j = Len(s) + (j - Len(s))
        BY <2>2, <1>3
      <4>2. QED BY <4>1
    <3>2. i - 1 \in 0..Len(t) /\ i \in 0..Len(t) /\ Len(s) + (i - 1) = j - 1
      BY <3>1, <1>3
    <3>3. img[j] = b[i] /\ img[j - 1] = b[i - 1] /\ u[j] = t[i]
      BY <3>1, <3>2, <1>3, <1>7
    <3>4. QED BY <3>1, <3>3, <1>5
  <2>3. QED BY <2>1, <2>2, <1>3
<1>10. ASSUME NEW j \in 0..Len(u)
       PROVE  Well(img[j], U)
  <2>1. CASE j <= Len(s)
    <3>1. j \in 0..Len(s)
      BY <2>1, <1>3
    <3>2. QED BY <3>1, <1>4, <1>6
  <2>2. CASE j > Len(s)
    <3>1. j - Len(s) \in 0..Len(t) /\ j = Len(s) + (j - Len(s))
      BY <2>2, <1>3
    <3>2. img[j] = b[j - Len(s)]
      BY <3>1, <1>7
    <3>3. QED BY <3>1, <3>2, <1>5
  <2>3. QED BY <2>1, <2>2, <1>3
<1>11. Leads(d, u, f, X, U)
  BY <1>3, <1>8, <1>9, <1>10 DEF Leads
<1>12. QED BY <1>11 DEF u

\* The first of the writes is made.
LEMMA LeadsStep ==
  ASSUME NEW d, NEW X, NEW U, NEW s, NEW e, Leads(d, s, e, X, U), s # <<>>
  PROVE  /\ Leads(Put(d, Head(s)[1], Head(s)[2]), Tail(s), e, X, U)
         /\ Goes(d, Put(d, Head(s)[1], Head(s)[2]), X, U)
<1> DEFINE t == Tail(s)
<1>1. PICK S : s \in Seq(S)
  BY DEF Leads
<1>2. PICK a : /\ a[0] = d /\ a[Len(s)] = e
               /\ \A j \in 1..Len(s) : a[j] = Put(a[j - 1], s[j][1], s[j][2])
               /\ \A j \in 0..Len(s) : Well(a[j], U)
               /\ \A j \in 1..Len(s) : Goes(a[j - 1], a[j], X, U)
  BY DEF Leads
<1>3. /\ t \in Seq(S) /\ Len(t) = Len(s) - 1 /\ Len(t) \in Nat /\ Head(s) = s[1] /\ Len(s) >= 1
      /\ \A j \in 1..Len(t) : t[j] = s[j + 1]
  BY <1>1
<1> HIDE DEF t
<1> DEFINE img == [j \in 0..Len(t) |-> a[j + 1]]
<1>4. \A j \in 0..Len(t) : img[j] = a[j + 1] /\ j + 1 \in 0..Len(s)
  BY <1>3
<1> HIDE DEF img
<1>5. img[0] = Put(d, Head(s)[1], Head(s)[2])
  <2>1. 1 \in 1..Len(s) /\ 0 \in 0..Len(t) /\ 0 + 1 = 1 /\ 1 - 1 = 0
    BY <1>3
  <2>2. img[0] = a[1] /\ a[1] = Put(a[0], s[1][1], s[1][2])
    BY <2>1, <1>4, <1>2
  <2>3. QED BY <2>2, <1>2, <1>3
<1>6. img[Len(t)] = e
  BY <1>2, <1>3, <1>4
<1>7. ASSUME NEW j \in 1..Len(t)
      PROVE  /\ img[j] = Put(img[j - 1], t[j][1], t[j][2])
             /\ Goes(img[j - 1], img[j], X, U)
  <2>1. j \in 0..Len(t) /\ j - 1 \in 0..Len(t) /\ (j - 1) + 1 = j /\ j + 1 \in 1..Len(s) /\ (j + 1) - 1 = j
    BY <1>3
  <2>2. img[j] = a[j + 1] /\ img[j - 1] = a[j] /\ t[j] = s[j + 1]
    BY <2>1, <1>3, <1>4
  <2>3. a[j + 1] = Put(a[j], s[j + 1][1], s[j + 1][2]) /\ Goes(a[j], a[j + 1], X, U)
    BY <2>1, <1>2
  <2>4. QED BY <2>2, <2>3
<1>8. \A j \in 0..Len(t) : Well(img[j], U)
  BY <1>2, <1>4
<1>9. Leads(Put(d, Head(s)[1], Head(s)[2]), t, e, X, U)
  BY <1>3, <1>5, <1>6, <1>7, <1>8 DEF Leads
<1>10. Goes(d, Put(d, Head(s)[1], Head(s)[2]), X, U)
  <2>1. 1 \in 1..Len(s) /\ 1 - 1 = 0
    BY <1>3
  <2>2. a[1] = Put(a[0], s[1][1], s[1][2]) /\ Goes(a[0], a[1], X, U)
    BY <2>1, <1>2
  <2>3. QED BY <2>2, <1>2, <1>3
<1>11. QED BY <1>9, <1>10 DEF t

\* The image the writes start from is well.
LEMMA LeadsSound ==
  ASSUME NEW d, NEW X, NEW U, NEW s, NEW e, Leads(d, s, e, X, U)
  PROVE  Well(d, U) /\ (s = <<>> => e = d)
<1>1. Len(s) \in Nat /\ 0 \in 0..Len(s)
  BY DEF Leads
<1>2. s = <<>> => Len(s) = 0
  OBVIOUS
<1>3. QED BY <1>1, <1>2 DEF Leads

\* Writes that keep every file keep those that are not in X.
LEMMA LeadsLess ==
  ASSUME NEW d, NEW X, NEW U, NEW s, NEW e, Leads(d, s, e, {}, U)
  PROVE  Leads(d, s, e, X, U)
<1>1. PICK img :
        /\ img[0] = d /\ img[Len(s)] = e
        /\ \A j \in 1..Len(s) : img[j] = Put(img[j - 1], s[j][1], s[j][2])
        /\ \A j \in 0..Len(s) : Well(img[j], U)
        /\ \A j \in 1..Len(s) : Goes(img[j - 1], img[j], {}, U)
  BY DEF Leads
<1>2. \A j \in 1..Len(s) : Goes(img[j - 1], img[j], X, U)
  BY <1>1, KeepsLess DEF Goes
<1>3. \E S : s \in Seq(S)
  BY DEF Leads
<1>4. QED BY <1>1, <1>2, <1>3 DEF Leads

\* One write before others.
LEMMA LeadsThen ==
  ASSUME NEW d, NEW X, NEW U, NEW w, NEW e, NEW x, NEW f, Leads(d, <<w>>, e, X, U), Leads(e, <<x>>, f, X, U)
  PROVE  Leads(d, <<w, x>>, f, X, U)
<1>1. <<w>> \o <<x>> = <<w, x>>
  <2> DEFINE u == <<w>> \o <<x>>
             v == <<w, x>>
  <2>1. u \in Seq({w, x}) /\ Len(u) = 2
    OBVIOUS
  <2>2. u[1] = w /\ u[2] = x
    OBVIOUS
  <2>3. v \in Seq({w, x}) /\ Len(v) = 2 /\ v[1] = w /\ v[2] = x
    OBVIOUS
  <2> HIDE DEF u, v
  <2>4. \A i \in 1..Len(u) : u[i] = v[i]
    BY <2>1, <2>2, <2>3
  <2>5. u = v
    BY <2>1, <2>3, <2>4, SeqEqual
  <2>6. QED BY <2>5 DEF u, v
<1>2. Leads(d, <<w>> \o <<x>>, f, X, U)
  BY LeadsOn
<1>3. QED BY <1>1, <1>2

\* A block of data, in a block of a file.
LEMMA WriteData ==
  ASSUME NEW d, NEW K, Sound(d, K), NEW k \in K, NEW b \in Blocks, Blk(d, k, b) # None,
         ~IsDirAt(d, k), NEW v, NEW e, e = Put(d, Blk(d, k, b), DataBlock(v))
  PROVE  /\ Sound(e, K) /\ Same(d, e, K) /\ Keeps(d, e, K, Only(k, b))
         /\ DirsStay(d, e, K) /\ CR(e) = CR(d) /\ Stays(d, e) /\ Calm(d, e)
         /\ BlockAt(e, Blk(d, k, b)) = v /\ Filled(e, Blk(d, k, b), v)
<1> DEFINE at    == Blk(d, k, b)
           cells == DataBlock(v)
<1>1. PICK n \in Nat : n = DIRENTS
  BY Constants
<1>2. Run(cells, n) /\ \A j \in 0..(n - 1) : cells[j].kind = "data" /\ cells[j].val = v /\ cells[j] = DataCell(v)
  BY <1>1 DEF DataBlock, DataCell, Run
<1> HIDE DEF cells
<1>3. \A j \in 0..(n - 1) :
         \/ cells[j].kind = "data" /\ ~IsDirAt(d, k)
         \/ cells[j].kind = "ent" /\ (cells[j].name \in {".", "..", Free} \/ cells[j].inum \in K \cup {None})
  BY <1>2
<1>4. e = Put(d, at, cells)
  BY DEF cells
<1>5. at \in Int /\ Blk(d, k, b) <= at /\ at + n <= Blk(d, k, b) + DIRENTS
  BY <1>1, Facts, Constants
<1> HIDE DEF at
<1>6. /\ Sound(e, K) /\ Same(d, e, K) /\ Keeps(d, e, K, Only(k, b))
      /\ DirsStay(d, e, K) /\ CR(e) = CR(d) /\ (Full(d) => Full(e))
      /\ \A j \in 0..(n - 1) : at + j \in DOMAIN e /\ e[at + j] = cells[j]
      /\ (\A j \in 0..(n - 1) : Numbers(cells[j])) => NoneStay(d, e)
      /\ (\A j \in 0..(n - 1) : Nameless(cells[j])) => NamesFrom(d, e)
      /\ JunkStays(d, e)
  BY <1>2, <1>3, <1>4, <1>5, WriteBlock
<1>7. \A j \in 0..(n - 1) : Numbers(cells[j]) /\ Nameless(cells[j])
  BY <1>2 DEF Numbers, Nameless
<1>9. BlockAt(e, at) = v
  <2>1. 0 \in 0..(n - 1) /\ at + 0 = at
    BY <1>1, <1>5, Constants
  <2>2. at \in DOMAIN e /\ e[at] = cells[0]
    BY <1>6, <2>1
  <2>3. QED BY <2>1, <2>2, <1>2 DEF BlockAt
<1>10. Filled(e, at, v)
  BY <1>1, <1>2, <1>6 DEF Filled, Slots
<1>8. QED BY <1>6, <1>7, <1>9, <1>10 DEF Stays, Calm, at

\* One cell in the free part of the log.
LEMMA WriteFreeCell ==
  ASSUME NEW d, NEW K, Sound(d, K), NEW at \in Nat, at >= CR(d).end, NEW c, Blank(c),
         NEW e, e = Put(d, at, One(c))
  PROVE  /\ Sound(e, K) /\ Same(d, e, K) /\ Keeps(d, e, K, {}) /\ DirsStay(d, e, K) /\ CR(e) = CR(d)
         /\ at \in DOMAIN e /\ e[at] = c /\ Stays(d, e) /\ Calm(d, e)
         /\ \A a \in DOMAIN d : a # at => a \in DOMAIN e /\ e[a] = d[a]
<1> DEFINE cells == One(c)
<1>1. PICK n \in Nat : n = 1
  OBVIOUS
<1>2. DOMAIN cells = 0..(n - 1) /\ \A j \in 0..(n - 1) : cells[j] = c
  BY <1>1 DEF One
<1> HIDE DEF cells
<1>3. Run(cells, n) /\ \A j \in 0..(n - 1) : Blank(cells[j])
  BY <1>2 DEF Run
<1>4. e = Put(d, at, cells)
  BY DEF cells
<1>5. /\ Sound(e, K) /\ Same(d, e, K) /\ Keeps(d, e, K, {}) /\ DirsStay(d, e, K) /\ CR(e) = CR(d)
      /\ \A j \in 0..(n - 1) : at + j \in DOMAIN e /\ e[at + j] = cells[j]
      /\ \A a \in DOMAIN d : a \notin at..(at + n - 1) => a \in DOMAIN e /\ e[a] = d[a]
      /\ Stays(d, e) /\ Calm(d, e)
  BY <1>3, <1>4, WriteFree
<1>6. 0 \in 0..(n - 1) /\ at + 0 = at /\ at..(at + n - 1) = {at}
  BY <1>1
<1>7. QED BY <1>2, <1>5, <1>6

\* A block of cells in the free part of the log.
LEMMA WriteFreeBlock ==
  ASSUME NEW d, NEW K, Sound(d, K), NEW at \in Nat, at >= CR(d).end,
         NEW cells, Run(cells, DIRENTS), \A j \in Slots : Blank(cells[j]),
         NEW e, e = Put(d, at, cells)
  PROVE  /\ Sound(e, K) /\ Same(d, e, K) /\ Keeps(d, e, K, {}) /\ DirsStay(d, e, K) /\ CR(e) = CR(d)
         /\ \A j \in Slots : at + j \in DOMAIN e /\ e[at + j] = cells[j]
         /\ \A a \in DOMAIN d : a < at => a \in DOMAIN e /\ e[a] = d[a]
         /\ Stays(d, e) /\ Calm(d, e)
<1>1. PICK n \in Nat : n = DIRENTS
  BY Constants
<1>2. Run(cells, n) /\ \A j \in 0..(n - 1) : Blank(cells[j])
  BY <1>1 DEF Slots
<1>3. /\ Sound(e, K) /\ Same(d, e, K) /\ Keeps(d, e, K, {}) /\ DirsStay(d, e, K) /\ CR(e) = CR(d)
      /\ \A j \in 0..(n - 1) : at + j \in DOMAIN e /\ e[at + j] = cells[j]
      /\ \A a \in DOMAIN d : a \notin at..(at + n - 1) => a \in DOMAIN e /\ e[a] = d[a]
      /\ Stays(d, e) /\ Calm(d, e)
  BY <1>2, WriteFree
<1>4. \A a : a < at => a \notin at..(at + n - 1)
  OBVIOUS
<1>5. QED BY <1>1, <1>3, <1>4 DEF Slots

\* Four writes, one after the other.
LEMMA LeadsFour ==
  ASSUME NEW d, NEW X, NEW U, NEW w, NEW e, NEW x, NEW f, NEW y, NEW g, NEW z, NEW h,
         Leads(d, <<w>>, e, X, U), Leads(e, <<x>>, f, X, U), Leads(f, <<y>>, g, X, U), Leads(g, <<z>>, h, X, U)
  PROVE  Leads(d, <<w, x, y, z>>, h, X, U)
<1>1. Leads(d, <<w, x>>, f, X, U) /\ Leads(f, <<y, z>>, h, X, U)
  BY LeadsThen
<1>2. Leads(d, <<w, x>> \o <<y, z>>, h, X, U)
  BY <1>1, LeadsOn
<1>3. <<w, x>> \o <<y, z>> = <<w, x, y, z>>
  <2> DEFINE u == <<w, x>> \o <<y, z>>
             v == <<w, x, y, z>>
             S == {w, x, y, z}
  <2>1. u \in Seq(S) /\ Len(u) = 4
    OBVIOUS
  <2>2. u[1] = w /\ u[2] = x /\ u[3] = y /\ u[4] = z
    OBVIOUS
  <2>3. v \in Seq(S) /\ Len(v) = 4 /\ v[1] = w /\ v[2] = x /\ v[3] = y /\ v[4] = z
    OBVIOUS
  <2> HIDE DEF u, v, S
  <2>4. \A i \in 1..Len(u) : u[i] = v[i]
    BY <2>1, <2>2, <2>3
  <2>5. u = v
    BY <2>1, <2>3, <2>4, SeqEqual
  <2>6. QED BY <2>5 DEF u, v
<1>4. QED BY <1>2, <1>3
=============================================================================
