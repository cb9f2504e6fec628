--------------------------- MODULE FileTableProofs ---------------------------
(***************************************************************************)
(* Theorems about FileTable, for any finite number of processes and any    *)
(* number of files, descriptors and pages.  The inductive invariant IInv   *)
(* is a conjunction of named parts; there is one lemma per action, with    *)
(* one step per part.                                                      *)
(***************************************************************************)
EXTENDS FileTable, TLAPS, FiniteSetTheorems, SequenceTheorems

Own0PCs  == {"alloc1", "kalloc", "fill", "fds", "openfd"}   \* pipealloc or sys_open has f0
Own1PCs  == {"kalloc", "fill", "fds"}                       \* pipealloc has f1
ClosePCs == {"fileclose", "pipeclose", "kfree", "iput"}
PCs      == {"idle", "alloc0"} \cup Own0PCs \cup ClosePCs

FileRec ==
  [ref : Nat, type : {"FD_NONE", "FD_PIPE", "FD_INODE"}, pipe : Pages \cup {None}, end : Ends]

TypeOK ==
  /\ file \in [Files -> FileRec]
  /\ ofile \in [Procs -> [Fds -> Files \cup {None}]]
  /\ used \subseteq Pages /\ open \in [Pages -> [Ends -> {0, 1}]]
  /\ iref \in Int
  /\ pc \in [Procs -> PCs]
  /\ f0 \in [Procs -> Files \cup {None}] /\ f1 \in [Procs -> Files \cup {None}]
  /\ p0 \in [Procs -> Pages \cup {None}]
  /\ todo \in [Procs -> Seq(Files)]
  /\ ff \in [Procs -> FileRec]

\* What a process has at each place of its call, and a file of a pipe has a page.
Frames ==
  /\ \A f \in Files : file[f].type = "FD_PIPE" => file[f].pipe \in Pages
  /\ \A p \in Procs :
      /\ Len(todo[p]) <= 2
      /\ pc[p] = "fileclose" => todo[p] # <<>>
      /\ pc[p] \in ClosePCs \ {"fileclose"} => Len(todo[p]) <= 1
      /\ pc[p] \notin ClosePCs => todo[p] = <<>>
      /\ pc[p] \in Own0PCs => f0[p] \in Files
      /\ pc[p] \in Own1PCs => f1[p] \in Files
      /\ pc[p] \in {"fill", "fds"} => p0[p] \in Pages
      /\ pc[p] \in {"pipeclose", "kfree"} => ff[p].pipe \in Pages

\* A file that pipealloc or sys_open has not filled in yet has one reference and
\* no type; so has a free file, but no reference.
Blank ==
  /\ \A f \in Files : file[f].ref = 0 => file[f].type = "FD_NONE"
  /\ \A p \in Procs :
       /\ pc[p] \in Own0PCs \ {"fds"} => file[f0[p]].ref = 1 /\ file[f0[p]].type = "FD_NONE"
       /\ pc[p] \in Own1PCs \ {"fds"} => file[f1[p]].ref = 1 /\ file[f1[p]].type = "FD_NONE"

\* An end is open exactly when it has an owner, and has never two.
OneOwner ==
  \A g \in Pages, e \in Ends :
    /\ open[g][e] = 1 <=> PipeFiles(g, e) \cup Closers(g, e) # {}
    /\ \A f, h \in PipeFiles(g, e) : f = h
    /\ \A p, q \in Closers(g, e) : p = q
    /\ PipeFiles(g, e) = {} \/ Closers(g, e) = {}

\* The processes in pipealloc, or in pipeclose, that have page g to themselves.
Keepers(g) ==
  {p \in Procs : (pc[p] = "fill" /\ p0[p] = g) \/ (pc[p] = "kfree" /\ ff[p].pipe = g)}

\* A page is allocated exactly as long as an end of it is open or one process has
\* it to itself.
OnePage ==
  \A g \in Pages :
    /\ g \in used <=> (\E e \in Ends : open[g][e] = 1) \/ Keepers(g) # {}
    /\ \A p, q \in Keepers(g) : p = q
    /\ (\A e \in Ends : open[g][e] = 0) \/ Keepers(g) = {}

IInv == TypeOK /\ Frames /\ RefsCounted /\ Blank /\ OneOwner /\ OnePage /\ InodeAccounted

\* The references p has in hand to file f: the files of the call it is in, and
\* those it has yet to close.
AsF0(p, f)   == IF pc[p] \in Own0PCs /\ f0[p] = f THEN 1 ELSE 0
AsF1(p, f)   == IF pc[p] \in Own1PCs /\ f1[p] = f THEN 1 ELSE 0
First(p, f)  == IF Len(todo[p]) >= 1 /\ todo[p][1] = f THEN 1 ELSE 0
Second(p, f) == IF Len(todo[p]) >= 2 /\ todo[p][2] = f THEN 1 ELSE 0
Hand(p, f) == AsF0(p, f) + AsF1(p, f) + First(p, f) + Second(p, f)

-----------------------------------------------------------------------------
(* Lemmas about sets                                                       *)

\* A non-empty set of numbers has a least one, so that fdalloc finds it.
LEMMA MinElement ==
  ASSUME NEW S \in SUBSET Nat, S # {}
  PROVE  Min(S) \in S
<1> DEFINE R == {ss \in Nat \X Nat : ss[1] < ss[2]}
<1>1. IsWellFoundedOn(R, Nat)
  BY NatLessThanWellFounded DEF OpToRel
<1>2. \E x \in S : \A y \in S : ~(<<y, x>> \in R)
  <2> HIDE DEF R
  <2>1. QED BY <1>1, WFMin
<1>3. \E x \in S : \A y \in S : x <= y
  <2>1. PICK x \in S : \A y \in S : ~(<<y, x>> \in R)
    BY <1>2
  <2>2. ASSUME NEW y \in S PROVE x <= y
    <3>1. x \in Nat /\ y \in Nat /\ ~(y < x)
      BY <2>1
    <3>2. QED BY <3>1
  <2>3. QED BY <2>2
<1>4. QED BY <1>3 DEF Min

\* Sets that differ at most in x differ in their cardinality by whether they have x.
LEMMA OneElement ==
  ASSUME NEW S, NEW T, NEW x, IsFiniteSet(S), S \ {x} = T \ {x}
  PROVE  /\ IsFiniteSet(T) /\ Cardinality(T) \in Nat /\ Cardinality(S) \in Nat
         /\ Cardinality(T) = Cardinality(S) - (IF x \in S THEN 1 ELSE 0) + (IF x \in T THEN 1 ELSE 0)
<1>1. /\ IsFiniteSet(S \ {x})
      /\ Cardinality(S \ {x}) = IF x \in S THEN Cardinality(S) - 1 ELSE Cardinality(S)
  BY FS_RemoveElement
<1>2. IsFiniteSet(T)
  <2>1. IsFiniteSet((S \ {x}) \cup {x})
    BY <1>1, FS_AddElement
  <2>2. T \subseteq (S \ {x}) \cup {x}
    OBVIOUS
  <2>3. QED BY <2>1, <2>2, FS_Subset
<1>3. Cardinality(T \ {x}) = IF x \in T THEN Cardinality(T) - 1 ELSE Cardinality(T)
  BY <1>2, FS_RemoveElement
<1>4. Cardinality(S) \in Nat /\ Cardinality(T) \in Nat
  BY <1>2, FS_CardinalityType
<1>5. QED BY <1>1, <1>2, <1>3, <1>4

\* The same for two elements.
LEMMA TwoElements ==
  ASSUME NEW S, NEW T, NEW x, NEW y, x # y, IsFiniteSet(S), S \ {x, y} = T \ {x, y}
  PROVE  /\ IsFiniteSet(T) /\ Cardinality(T) \in Nat /\ Cardinality(S) \in Nat
         /\ Cardinality(T) = Cardinality(S)
              - (IF x \in S THEN 1 ELSE 0) - (IF y \in S THEN 1 ELSE 0)
              + (IF x \in T THEN 1 ELSE 0) + (IF y \in T THEN 1 ELSE 0)
<1> DEFINE U == (S \ {x}) \cup (T \cap {x})
<1>1. S \ {x} = U \ {x} /\ U \ {y} = T \ {y}
  OBVIOUS
<1>2. (x \in U <=> x \in T) /\ (y \in U <=> y \in S)
  OBVIOUS
<1> HIDE DEF U
<1>3. /\ IsFiniteSet(U) /\ Cardinality(U) \in Nat /\ Cardinality(S) \in Nat
      /\ Cardinality(U) = Cardinality(S) - (IF x \in S THEN 1 ELSE 0) + (IF x \in U THEN 1 ELSE 0)
  BY <1>1, OneElement
<1>4. /\ IsFiniteSet(T) /\ Cardinality(T) \in Nat
      /\ Cardinality(T) = Cardinality(U) - (IF y \in U THEN 1 ELSE 0) + (IF y \in T THEN 1 ELSE 0)
  BY <1>1, <1>3, OneElement
<1>5. QED BY <1>2, <1>3, <1>4

\* Of two sets, with one element at most between them, one is counted.
LEMMA OneOfTwo ==
  ASSUME NEW S, NEW T, NEW k \in {0, 1}, k = 1 <=> S \cup T # {},
         \A x, y \in S : x = y, \A x, y \in T : x = y, S = {} \/ T = {}
  PROVE  Cardinality(S) + Cardinality(T) = k
<1>1. Cardinality({}) = 0
  BY FS_EmptySet
<1>2. ASSUME NEW X, X # {}, \A x, y \in X : x = y PROVE Cardinality(X) = 1
  <2>1. PICK x : X = {x}
    BY <1>2
  <2>2. QED BY <2>1, FS_Singleton
<1>3. CASE S # {}
  <2>1. Cardinality(S) = 1
    BY <1>2, <1>3
  <2>2. T = {} /\ k = 1
    BY <1>3
  <2>3. QED BY <1>1, <2>1, <2>2
<1>4. CASE T # {}
  <2>1. Cardinality(T) = 1
    BY <1>2, <1>4
  <2>2. S = {} /\ k = 1
    BY <1>4
  <2>3. QED BY <1>1, <2>1, <2>2
<1>5. CASE S = {} /\ T = {}
  <2>1. k = 0
    BY <1>5
  <2>2. QED BY <1>1, <1>5, <2>1
<1>6. QED BY <1>3, <1>4, <1>5

\* The first of at most two files to close, and the rest.
LEMMA HeadRest ==
  ASSUME NEW s \in Seq(Files), s # <<>>, Len(s) <= 2
  PROVE  /\ Head(s) \in Files /\ Tail(s) \in Seq(Files) /\ s[1] = Head(s)
         /\ \/ Len(s) = 1 /\ Len(Tail(s)) = 0 /\ Tail(s) = <<>>
            \/ Len(s) = 2 /\ Len(Tail(s)) = 1 /\ Tail(s) # <<>> /\ Tail(s)[1] = s[2]
<1>1. /\ Head(s) \in Files /\ Tail(s) \in Seq(Files) /\ s[1] = Head(s)
      /\ Len(Tail(s)) = Len(s) - 1
      /\ \A k \in 1..Len(Tail(s)) : Tail(s)[k] = s[k + 1]
  BY HeadTailProperties
<1>2. Len(s) = 1 \/ Len(s) = 2
  <2>1. PICK k \in Nat : k = Len(s)
    OBVIOUS
  <2>2. k # 0 /\ k <= 2
    BY <2>1
  <2>3. k = 1 \/ k = 2
    BY <2>2
  <2>4. QED BY <2>1, <2>3
<1>3. CASE Len(s) = 1
  <2>1. Len(Tail(s)) = 0
    BY <1>1, <1>3
  <2>2. Tail(s) = <<>>
    BY <1>1, <2>1, EmptySeq
  <2>3. QED BY <1>1, <1>3, <2>1, <2>2
<1>4. CASE Len(s) = 2
  <2>1. Len(Tail(s)) = 1 /\ 1 \in 1..1 /\ 1 + 1 = 2
    BY <1>1, <1>4
  <2>2. Tail(s)[1] = s[2]
    BY <1>1, <2>1
  <2>3. Tail(s) # <<>>
    <3>1. ASSUME NEW u, Len(u) = 1 PROVE u # <<>>
      <4>1. Len(<<>>) = 0 /\ 0 # 1
        OBVIOUS
      <4>2. QED BY <3>1, <4>1, Zenon
    <3>2. QED BY <2>1, <3>1
  <2>4. QED BY <1>1, <1>4, <2>1, <2>2, <2>3
<1>5. QED BY <1>2, <1>3, <1>4

-----------------------------------------------------------------------------
(* Lemmas about references                                                 *)

\* There are finitely many descriptors and processes to refer to a file.
LEMMA FiniteRefs ==
  ASSUME NEW f
  PROVE  /\ IsFiniteSet(FdRefs(f)) /\ IsFiniteSet(Own0(f))
         /\ IsFiniteSet(Own1(f)) /\ IsFiniteSet(Due(f))
         /\ IsFiniteSet(FdRefs(f)')
<1>1. IsFiniteSet(Procs) /\ IsFiniteSet(Fds) /\ IsFiniteSet(1..2)
  <2>1. 0 \in Int /\ NOFILE - 1 \in Int /\ 1 \in Int /\ 2 \in Int
    BY TableAssumption
  <2>2. IsFiniteSet(0 .. (NOFILE - 1)) /\ IsFiniteSet(1..2)
    BY <2>1, FS_Interval
  <2>3. QED BY <2>2, TableAssumption DEF Fds
<1>2. IsFiniteSet(Procs \X Fds) /\ IsFiniteSet(Procs \X (1..2))
  BY <1>1, FS_Product
<1>3. FdRefs(f) \subseteq Procs \X Fds /\ FdRefs(f)' \subseteq Procs \X Fds /\ Due(f) \subseteq Procs \X (1..2)
  BY DEF FdRefs, Due
<1>4. Own0(f) \subseteq Procs /\ Own1(f) \subseteq Procs
  BY DEF Own0, Own1
<1>5. QED BY <1>1, <1>2, <1>3, <1>4, FS_Subset

\* A process has a file in hand a number of times.
LEMMA HandNat ==
  ASSUME NEW p, NEW f
  PROVE  /\ AsF0(p, f) \in Nat /\ AsF1(p, f) \in Nat /\ First(p, f) \in Nat /\ Second(p, f) \in Nat
         /\ Hand(p, f) \in Nat
BY DEF AsF0, AsF1, First, Second, Hand

\* The sum of what changes.
LEMMA AddUp ==
  ASSUME NEW p, NEW f,
         Cardinality(Own0(f)) \in Nat, Cardinality(Own1(f)) \in Nat, Cardinality(Due(f)) \in Nat,
         Cardinality(FdRefs(f)) \in Nat, Cardinality(FdRefs(f)') \in Nat,
         AsF0(p, f) \in Int, AsF1(p, f) \in Int, First(p, f) \in Int, Second(p, f) \in Int,
         AsF0(p, f)' \in Int, AsF1(p, f)' \in Int, First(p, f)' \in Int, Second(p, f)' \in Int,
         Cardinality(Own0(f)') = Cardinality(Own0(f)) - AsF0(p, f) + AsF0(p, f)',
         Cardinality(Own1(f)') = Cardinality(Own1(f)) - AsF1(p, f) + AsF1(p, f)',
         Cardinality(Due(f)') = Cardinality(Due(f))
           - First(p, f) - Second(p, f) + First(p, f)' + Second(p, f)'
  PROVE  /\ Refs(f)' = Refs(f) - Hand(p, f) + Hand(p, f)'
                         - Cardinality(FdRefs(f)) + Cardinality(FdRefs(f)')
         /\ Refs(f) \in Int /\ Hand(p, f) \in Int /\ Hand(p, f)' \in Int
BY DEF Refs, Hand

\* When only p moves, the references to f change by what p has in hand and by the
\* descriptors.
LEMMA HandChange ==
  ASSUME NEW p \in Procs, NEW f \in Files,
         \A q \in Procs \ {p} : pc'[q] = pc[q] /\ f0'[q] = f0[q] /\ f1'[q] = f1[q] /\ todo'[q] = todo[q],
         todo[p] \in Seq(Files), todo'[p] \in Seq(Files)
  PROVE  /\ Refs(f)' = Refs(f) - Hand(p, f) + Hand(p, f)'
                         - Cardinality(FdRefs(f)) + Cardinality(FdRefs(f)')
         /\ Refs(f) \in Int /\ Hand(p, f) \in Int /\ Hand(p, f)' \in Int
<1>1. /\ Own0(f) \ {p} = Own0(f)' \ {p}
      /\ AsF0(p, f) = (IF p \in Own0(f) THEN 1 ELSE 0)
      /\ AsF0(p, f)' = (IF p \in Own0(f)' THEN 1 ELSE 0)
  BY DEF Own0, Own0PCs, AsF0
<1>2. /\ Own1(f) \ {p} = Own1(f)' \ {p}
      /\ AsF1(p, f) = (IF p \in Own1(f) THEN 1 ELSE 0)
      /\ AsF1(p, f)' = (IF p \in Own1(f)' THEN 1 ELSE 0)
  BY DEF Own1, Own1PCs, AsF1
<1>3. Due(f) \ {<<p, 1>>, <<p, 2>>} = Due(f)' \ {<<p, 1>>, <<p, 2>>}
  BY DEF Due
<1>4. /\ First(p, f) = (IF <<p, 1>> \in Due(f) THEN 1 ELSE 0)
      /\ Second(p, f) = (IF <<p, 2>> \in Due(f) THEN 1 ELSE 0)
      /\ First(p, f)' = (IF <<p, 1>> \in Due(f)' THEN 1 ELSE 0)
      /\ Second(p, f)' = (IF <<p, 2>> \in Due(f)' THEN 1 ELSE 0)
  BY DEF Due, First, Second
<1>5. /\ Cardinality(Own0(f)) \in Nat
      /\ Cardinality(Own0(f)') = Cardinality(Own0(f)) - AsF0(p, f) + AsF0(p, f)'
  <2>1. ASSUME NEW S, NEW T, IsFiniteSet(S), S \ {p} = T \ {p}
        PROVE  /\ Cardinality(S) \in Nat
               /\ Cardinality(T) = Cardinality(S) - (IF p \in S THEN 1 ELSE 0) + (IF p \in T THEN 1 ELSE 0)
    BY <2>1, OneElement
  <2>2. /\ Cardinality(Own0(f)) \in Nat
        /\ Cardinality(Own0(f)') = Cardinality(Own0(f))
             - (IF p \in Own0(f) THEN 1 ELSE 0) + (IF p \in Own0(f)' THEN 1 ELSE 0)
    BY <1>1, <2>1, FiniteRefs
  <2>3. QED BY <1>1, <2>2
<1>6. /\ Cardinality(Own1(f)) \in Nat
      /\ Cardinality(Own1(f)') = Cardinality(Own1(f)) - AsF1(p, f) + AsF1(p, f)'
  <2>1. ASSUME NEW S, NEW T, IsFiniteSet(S), S \ {p} = T \ {p}
        PROVE  /\ Cardinality(S) \in Nat
               /\ Cardinality(T) = Cardinality(S) - (IF p \in S THEN 1 ELSE 0) + (IF p \in T THEN 1 ELSE 0)
    BY <2>1, OneElement
  <2>2. /\ Cardinality(Own1(f)) \in Nat
        /\ Cardinality(Own1(f)') = Cardinality(Own1(f))
             - (IF p \in Own1(f) THEN 1 ELSE 0) + (IF p \in Own1(f)' THEN 1 ELSE 0)
    BY <1>2, <2>1, FiniteRefs
  <2>3. QED BY <1>2, <2>2
<1>7. /\ Cardinality(Due(f)) \in Nat
      /\ Cardinality(Due(f)') = Cardinality(Due(f))
           - First(p, f) - Second(p, f) + First(p, f)' + Second(p, f)'
  <2>1. ASSUME NEW x, NEW y, x # y, Due(f) \ {x, y} = Due(f)' \ {x, y}
        PROVE  /\ Cardinality(Due(f)) \in Nat
               /\ Cardinality(Due(f)') = Cardinality(Due(f))
                    - (IF x \in Due(f) THEN 1 ELSE 0) - (IF y \in Due(f) THEN 1 ELSE 0)
                    + (IF x \in Due(f)' THEN 1 ELSE 0) + (IF y \in Due(f)' THEN 1 ELSE 0)
    BY <2>1, FiniteRefs, TwoElements
  <2>2. <<p, 1>> # <<p, 2>>
    OBVIOUS
  <2>3. /\ Cardinality(Due(f)) \in Nat
        /\ Cardinality(Due(f)') = Cardinality(Due(f))
             - (IF <<p, 1>> \in Due(f) THEN 1 ELSE 0) - (IF <<p, 2>> \in Due(f) THEN 1 ELSE 0)
             + (IF <<p, 1>> \in Due(f)' THEN 1 ELSE 0) + (IF <<p, 2>> \in Due(f)' THEN 1 ELSE 0)
    BY <1>3, <2>1, <2>2
  <2>4. QED BY <1>4, <2>3
<1>8. Cardinality(FdRefs(f)) \in Nat /\ Cardinality(FdRefs(f)') \in Nat
  BY FiniteRefs, FS_CardinalityType
<1>9. /\ AsF0(p, f) \in Int /\ AsF1(p, f) \in Int /\ First(p, f) \in Int /\ Second(p, f) \in Int
      /\ AsF0(p, f)' \in Int /\ AsF1(p, f)' \in Int /\ First(p, f)' \in Int /\ Second(p, f)' \in Int
  BY <1>1, <1>2, <1>4
<1>10. QED
  BY <1>5, <1>6, <1>7, <1>8, <1>9, AddUp

\* Whoever has the only reference to a file is alone with it.
LEMMA Sole ==
  ASSUME IInv, NEW f \in Files, file[f].ref <= 1, NEW p \in Procs, Hand(p, f) >= 1
  PROVE  /\ file[f].ref = 1 /\ Hand(p, f) = 1
         /\ \A q \in Procs, d \in Fds : ofile[q][d] # f
         /\ \A q \in Procs \ {p} : /\ pc[q] \in Own0PCs => f0[q] # f
                                   /\ pc[q] \in Own1PCs => f1[q] # f
                                   /\ Len(todo[q]) >= 1 => todo[q][1] # f
<1> DEFINE S0 == Own0(f) \ {p}
           S1 == Own1(f) \ {p}
           S2 == Due(f) \ {<<p, 1>>, <<p, 2>>}
<1>1. /\ AsF0(p, f) = (IF p \in Own0(f) THEN 1 ELSE 0)
      /\ AsF1(p, f) = (IF p \in Own1(f) THEN 1 ELSE 0)
  BY DEF Own0, Own1, Own0PCs, Own1PCs, AsF0, AsF1
<1>2. /\ First(p, f) = (IF <<p, 1>> \in Due(f) THEN 1 ELSE 0)
      /\ Second(p, f) = (IF <<p, 2>> \in Due(f) THEN 1 ELSE 0)
  <2>1. Len(todo[p]) \in Nat
    BY DEF IInv, TypeOK
  <2>2. QED BY <2>1 DEF Due, First, Second
<1>3. /\ IsFiniteSet(S0) /\ Cardinality(S0) \in Nat
      /\ Cardinality(Own0(f)) = Cardinality(S0) + AsF0(p, f)
  <2>1. Own0(f) \ {p} = S0 \ {p} /\ p \notin S0
    OBVIOUS
  <2> HIDE DEF S0
  <2>2. QED BY <1>1, <2>1, FiniteRefs, OneElement
<1>4. /\ IsFiniteSet(S1) /\ Cardinality(S1) \in Nat
      /\ Cardinality(Own1(f)) = Cardinality(S1) + AsF1(p, f)
  <2>1. Own1(f) \ {p} = S1 \ {p} /\ p \notin S1
    OBVIOUS
  <2> HIDE DEF S1
  <2>2. QED BY <1>1, <2>1, FiniteRefs, OneElement
<1>5. /\ IsFiniteSet(S2) /\ Cardinality(S2) \in Nat
      /\ Cardinality(Due(f)) = Cardinality(S2) + First(p, f) + Second(p, f)
  <2>1. /\ Due(f) \ {<<p, 1>>, <<p, 2>>} = S2 \ {<<p, 1>>, <<p, 2>>}
        /\ <<p, 1>> \notin S2 /\ <<p, 2>> \notin S2 /\ <<p, 1>> # <<p, 2>>
    OBVIOUS
  <2> HIDE DEF S2
  <2>2. QED BY <1>2, <2>1, FiniteRefs, TwoElements
<1> HIDE DEF S0, S1, S2
<1>6. IsFiniteSet(FdRefs(f)) /\ Cardinality(FdRefs(f)) \in Nat
  BY FiniteRefs, FS_CardinalityType
<1>7. /\ file[f].ref = Cardinality(FdRefs(f)) + Cardinality(S0) + Cardinality(S1)
                         + Cardinality(S2) + Hand(p, f)
      /\ Hand(p, f) \in Nat /\ file[f].ref \in Nat
  <2>1. file[f].ref = Refs(f) /\ file[f].ref \in Nat
    BY DEF IInv, RefsCounted, TypeOK, FileRec
  <2>2. AsF0(p, f) \in Nat /\ AsF1(p, f) \in Nat /\ First(p, f) \in Nat /\ Second(p, f) \in Nat
    BY <1>1, <1>2
  <2>3. QED BY <1>3, <1>4, <1>5, <1>6, <2>1, <2>2 DEF Refs, Hand
<1>8. /\ file[f].ref = 1 /\ Hand(p, f) = 1
      /\ Cardinality(FdRefs(f)) = 0 /\ Cardinality(S0) = 0 /\ Cardinality(S1) = 0 /\ Cardinality(S2) = 0
  BY <1>3, <1>4, <1>5, <1>6, <1>7
<1>9. FdRefs(f) = {} /\ S0 = {} /\ S1 = {} /\ S2 = {}
  BY <1>3, <1>4, <1>5, <1>6, <1>8, FS_EmptySet
<1>10. \A q \in Procs, d \in Fds : ofile[q][d] # f
  <2>1. ASSUME NEW q \in Procs, NEW d \in Fds, ofile[q][d] = f PROVE <<q, d>> \in FdRefs(f)
    BY <2>1 DEF FdRefs
  <2>2. QED BY <1>9, <2>1
<1> USE DEF S0, S1, S2
<1>11. ASSUME NEW q \in Procs \ {p}
       PROVE  /\ pc[q] \in Own0PCs => f0[q] # f
              /\ pc[q] \in Own1PCs => f1[q] # f
              /\ Len(todo[q]) >= 1 => todo[q][1] # f
  <2>1. q \notin Own0(f) /\ q \notin Own1(f) /\ <<q, 1>> \notin Due(f)
    BY <1>9, <1>11
  <2>2. QED BY <2>1 DEF Own0, Own1, Due, Own0PCs, Own1PCs
<1>12. QED BY <1>8, <1>10, <1>11

\* Nobody knows a file that is not filled in, but the process that will fill it in.
LEMMA Mine ==
  ASSUME IInv, NEW p \in Procs
  PROVE  /\ pc[p] \in Own0PCs \ {"fds"} =>
              /\ \A q \in Procs, d \in Fds : ofile[q][d] # f0[p]
              /\ \A q \in Procs \ {p} : /\ pc[q] \in Own0PCs => f0[q] # f0[p]
                                        /\ pc[q] \in Own1PCs => f1[q] # f0[p]
                                        /\ Len(todo[q]) >= 1 => todo[q][1] # f0[p]
         /\ pc[p] \in Own1PCs \ {"fds"} =>
              /\ f0[p] # f1[p]
              /\ \A q \in Procs, d \in Fds : ofile[q][d] # f1[p]
              /\ \A q \in Procs \ {p} : /\ pc[q] \in Own0PCs => f0[q] # f1[p]
                                        /\ pc[q] \in Own1PCs => f1[q] # f1[p]
                                        /\ Len(todo[q]) >= 1 => todo[q][1] # f1[p]
<1>1. ASSUME pc[p] \in Own0PCs \ {"fds"}
      PROVE  f0[p] \in Files /\ file[f0[p]].ref <= 1 /\ Hand(p, f0[p]) >= 1
  BY <1>1, HandNat DEF IInv, Frames, Blank, Hand, AsF0
<1>2. ASSUME pc[p] \in Own1PCs \ {"fds"}
      PROVE  f1[p] \in Files /\ file[f1[p]].ref <= 1 /\ Hand(p, f1[p]) >= 1
  BY <1>2, HandNat DEF IInv, Frames, Blank, Hand, AsF1
<1>3. ASSUME pc[p] \in Own1PCs \ {"fds"} PROVE f0[p] # f1[p]
  <2>1. Hand(p, f1[p]) = 1
    BY <1>2, <1>3, Sole
  <2>2. QED BY <2>1, <1>3, HandNat DEF Hand, AsF0, AsF1, Own0PCs, Own1PCs
<1>4. QED BY <1>1, <1>2, <1>3, Sole

-----------------------------------------------------------------------------
(* What most actions have in common: only p moves                          *)

\* Nobody but p goes anywhere or gets or gives up a file or a page.
Alone(p) ==
  \A q \in Procs \ {p} : /\ pc'[q] = pc[q] /\ todo'[q] = todo[q] /\ ff'[q] = ff[q]
                         /\ f0'[q] = f0[q] /\ f1'[q] = f1[q] /\ p0'[q] = p0[q]

\* The count of a file goes with what p has in hand and with the descriptors.
LEMMA RefsMove ==
  ASSUME IInv, NEW p \in Procs, TypeOK', Alone(p),
         \A f \in Files :
           file'[f].ref = file[f].ref - Hand(p, f) + Hand(p, f)'
                            - Cardinality(FdRefs(f)) + Cardinality(FdRefs(f)')
  PROVE  RefsCounted'
<1> SUFFICES ASSUME NEW f \in Files PROVE file'[f].ref = Refs(f)'
  BY DEF RefsCounted
<1>1. file[f].ref = Refs(f) /\ todo[p] \in Seq(Files) /\ todo'[p] \in Seq(Files)
  BY DEF IInv, RefsCounted, TypeOK
<1>2. Refs(f)' = Refs(f) - Hand(p, f) + Hand(p, f)'
                   - Cardinality(FdRefs(f)) + Cardinality(FdRefs(f)')
  BY <1>1, HandChange DEF Alone
<1>3. QED BY <1>1, <1>2

\* A file that is the pipe file of an end stays it, and no other becomes one.
PipesStay ==
  \A f \in Files :
    LET IsPipe(r) == r.ref > 0 /\ r.type = "FD_PIPE"
    IN  /\ IsPipe(file'[f]) <=> IsPipe(file[f])
        /\ IsPipe(file[f]) => file'[f].pipe = file[f].pipe /\ file'[f].end = file[f].end

\* The places of a call where a process has a page, or an end of a pipe to close.
PagePCs == {"fill", "pipeclose", "kfree"}

\* Such a step of a process that has no page keeps what is said of ends and pages.
LEMMA PagesKept ==
  ASSUME IInv, NEW p \in Procs, Alone(p), PipesStay, UNCHANGED <<open, used>>,
         pc[p] \notin PagePCs, pc'[p] \notin PagePCs
  PROVE  OneOwner' /\ OnePage'
<1>1. \A g \in Pages, e \in Ends :
        PipeFiles(g, e)' = PipeFiles(g, e) /\ Closers(g, e)' = Closers(g, e)
  BY DEF PipeFiles, Closers, PipesStay, Alone, PagePCs
<1>2. \A g \in Pages : Keepers(g)' = Keepers(g)
  BY DEF Keepers, Alone, PagePCs
<1>3. QED BY <1>1, <1>2 DEF IInv, OneOwner, OnePage

\* Whether file f is an open file of the inode, and whether p is in sys_open or
\* iput with a reference to it.
AsFile(f) == IF file[f].ref > 0 /\ file[f].type = "FD_INODE" THEN 1 ELSE 0
AsCall(p) == IF pc[p] \in {"openfd", "iput"} THEN 1 ELSE 0

\* When only p and one file change, the inode's count goes with these two.
LEMMA InodeMoves ==
  ASSUME IInv, NEW p \in Procs, NEW f \in Files, Alone(p),
         \A g \in Files \ {f} : AsFile(g)' = AsFile(g),
         iref' = iref - AsFile(f) + AsFile(f)' - AsCall(p) + AsCall(p)'
  PROVE  InodeAccounted'
<1> DEFINE S == {g \in Files : file[g].ref > 0 /\ file[g].type = "FD_INODE"}
           T == {g \in Files : file'[g].ref > 0 /\ file'[g].type = "FD_INODE"}
           U == {q \in Procs : pc[q] \in {"openfd", "iput"}}
           V == {q \in Procs : pc'[q] \in {"openfd", "iput"}}
<1>1. S \ {f} = T \ {f} /\ U \ {p} = V \ {p}
  BY DEF AsFile, Alone
<1>2. IsFiniteSet(S) /\ IsFiniteSet(U)
  <2>1. 0 \in Int /\ NFILE - 1 \in Int
    BY TableAssumption
  <2>2. IsFiniteSet(Files) /\ IsFiniteSet(Procs)
    BY <2>1, FS_Interval, TableAssumption DEF Files
  <2>3. S \subseteq Files /\ U \subseteq Procs
    OBVIOUS
  <2>4. QED BY <2>2, <2>3, FS_Subset
<1>3. /\ AsFile(f) = (IF f \in S THEN 1 ELSE 0) /\ AsFile(f)' = (IF f \in T THEN 1 ELSE 0)
      /\ AsCall(p) = (IF p \in U THEN 1 ELSE 0) /\ AsCall(p)' = (IF p \in V THEN 1 ELSE 0)
  BY DEF AsFile, AsCall
<1>4. iref = Cardinality(S) + Cardinality(U)
  BY DEF IInv, InodeAccounted
<1>5. SUFFICES iref' = Cardinality(T) + Cardinality(V)
  BY DEF InodeAccounted
<1> HIDE DEF S, T, U, V
<1>6. /\ Cardinality(S) \in Nat /\ Cardinality(T) \in Nat
      /\ Cardinality(T) = Cardinality(S) - (IF f \in S THEN 1 ELSE 0) + (IF f \in T THEN 1 ELSE 0)
  BY <1>1, <1>2, OneElement
<1>7. /\ Cardinality(U) \in Nat /\ Cardinality(V) \in Nat
      /\ Cardinality(V) = Cardinality(U) - (IF p \in U THEN 1 ELSE 0) + (IF p \in V THEN 1 ELSE 0)
  BY <1>1, <1>2, OneElement
<1>8. QED BY <1>3, <1>4, <1>6, <1>7

-----------------------------------------------------------------------------
(* Every action keeps the invariant: fileclose                             *)

\* The files p has in hand are the same when its place in the call and todo say so.
LEMMA HandSame ==
  ASSUME NEW p \in Procs, pc[p] \notin Own0PCs, pc'[p] \notin Own0PCs, UNCHANGED todo
  PROVE  \A f \in Files : Hand(p, f)' = Hand(p, f)
BY DEF Hand, AsF0, AsF1, First, Second, Own0PCs, Own1PCs

\* The count of every file, when no file and no descriptor changes.
LEMMA RefsSame ==
  ASSUME IInv, NEW p \in Procs, TypeOK', Alone(p), UNCHANGED ofile,
         \A f \in Files : file'[f].ref = file[f].ref - Hand(p, f) + Hand(p, f)'
  PROVE  RefsCounted'
<1>1. ASSUME NEW f \in Files
      PROVE  file'[f].ref = file[f].ref - Hand(p, f) + Hand(p, f)'
                            - Cardinality(FdRefs(f)) + Cardinality(FdRefs(f)')
  <2>1. FdRefs(f)' = FdRefs(f) /\ Cardinality(FdRefs(f)) \in Nat
    BY FiniteRefs, FS_CardinalityType DEF FdRefs
  <2>2. /\ file'[f].ref \in Int /\ file[f].ref \in Int
        /\ file'[f].ref = file[f].ref - Hand(p, f) + Hand(p, f)'
    BY DEF IInv, TypeOK, FileRec
  <2>3. /\ Cardinality(FdRefs(f)') = Cardinality(FdRefs(f))
        /\ Hand(p, f) \in Int /\ Hand(p, f)' \in Int
    BY <2>1, HandNat DEF Hand, AsF0, AsF1, First, Second
  <2>4. QED BY <2>1, <2>2, <2>3
<1>2. QED BY <1>1, RefsMove

\* No file is the process's to fill in that is not so before.
LEMMA BlankKept ==
  ASSUME IInv, NEW p \in Procs, Alone(p), UNCHANGED file,
         pc'[p] \notin Own0PCs
  PROVE  Blank'
<1>1. pc'[p] \notin Own1PCs
  BY DEF Own0PCs, Own1PCs
<1>2. QED BY <1>1 DEF IInv, Blank, Alone

\* The reference to the inode is given up with the call that had it.
LEMMA IPutKeeps ==
  ASSUME IInv, NEW p \in Procs, IPut(p)
  PROVE  IInv'
<1>1. todo' = todo /\ pc' = [pc EXCEPT ![p] = IF todo[p] = <<>> THEN "idle" ELSE "fileclose"]
  BY DEF IPut, CloseAll, Goto, IInv, TypeOK
<1>2. TypeOK' /\ Alone(p)
  BY <1>1 DEF IInv, TypeOK, IPut, Drop, NoFile, FileRec, Ends, PCs, ClosePCs, Alone, mine
<1>3. Frames'
  BY <1>1 DEF IInv, TypeOK, Frames, IPut, Drop, mine, ClosePCs, Own0PCs, Own1PCs
<1>4. RefsCounted'
  <2>1. \A f \in Files : Hand(p, f)' = Hand(p, f)
    BY <1>1, HandSame DEF IPut, IInv, TypeOK, Own0PCs
  <2>2. \A f \in Files : file'[f].ref = file[f].ref - Hand(p, f) + Hand(p, f)'
    BY <2>1, HandNat DEF IPut, IInv, TypeOK, FileRec
  <2>3. QED BY <1>2, <2>2, RefsSame DEF IPut
<1>5. Blank'
  BY <1>1, <1>2, BlankKept DEF IPut, IInv, TypeOK, Own0PCs
<1>6. OneOwner' /\ OnePage'
  <2>1. PipesStay
    BY DEF PipesStay, IPut
  <2>2. QED BY <1>1, <1>2, <2>1, PagesKept DEF IPut, IInv, TypeOK, PagePCs
<1>7. InodeAccounted'
  <2>1. AsCall(p) = 1 /\ AsCall(p)' = 0 /\ \A f \in Files : AsFile(f)' = AsFile(f)
    BY <1>1 DEF AsCall, AsFile, IPut, IInv, TypeOK
  <2>2. 0 \in Files
    BY TableAssumption DEF Files
  <2>3. iref' = iref - AsFile(0) + AsFile(0)' - AsCall(p) + AsCall(p)'
    BY <2>1, <2>2 DEF IPut, IInv, TypeOK, AsFile
  <2>4. QED BY <1>2, <2>1, <2>2, <2>3, InodeMoves
<1>8. QED BY <1>2, <1>3, <1>4, <1>5, <1>6, <1>7 DEF IInv

\* Nobody else knows the page that is freed.
LEMMA KFreeKeeps ==
  ASSUME IInv, NEW p \in Procs, KFree(p)
  PROVE  IInv'
<1>1. todo' = todo /\ pc' = [pc EXCEPT ![p] = IF todo[p] = <<>> THEN "idle" ELSE "fileclose"]
  BY DEF KFree, CloseAll, Goto, IInv, TypeOK
<1>2. TypeOK' /\ Alone(p)
  BY <1>1 DEF IInv, TypeOK, KFree, Drop, NoFile, FileRec, Ends, PCs, ClosePCs, Alone, mine
<1>3. Frames'
  BY <1>1 DEF IInv, TypeOK, Frames, KFree, Drop, mine, ClosePCs, Own0PCs, Own1PCs
<1>4. RefsCounted'
  <2>1. \A f \in Files : Hand(p, f)' = Hand(p, f)
    BY <1>1, HandSame DEF KFree, IInv, TypeOK, Own0PCs
  <2>2. \A f \in Files : file'[f].ref = file[f].ref - Hand(p, f) + Hand(p, f)'
    BY <2>1, HandNat DEF KFree, IInv, TypeOK, FileRec
  <2>3. QED BY <1>2, <2>2, RefsSame DEF KFree
<1>5. Blank'
  BY <1>1, <1>2, BlankKept DEF KFree, IInv, TypeOK, Own0PCs
<1>6. OneOwner' /\ OnePage'
  <2>0. PICK g \in Pages : g = ff[p].pipe
    BY DEF KFree, IInv, Frames
  <2>1. p \in Keepers(g)
    BY <2>0 DEF KFree, Keepers
  <2>2. Keepers(g)' = {} /\ \A h \in Pages \ {g} : Keepers(h)' = Keepers(h)
    <3>1. \A q \in Keepers(g) : q = p
      BY <2>1 DEF IInv, OnePage
    <3>2. pc[p] = "kfree" /\ pc'[p] \notin {"fill", "kfree"}
      BY <1>1 DEF KFree, IInv, TypeOK
    <3>3. QED BY <1>2, <2>0, <3>1, <3>2 DEF Keepers, Alone
  <2>3. \A h \in Pages, e \in Ends : PipeFiles(h, e)' = PipeFiles(h, e) /\ Closers(h, e)' = Closers(h, e)
    BY <1>1, <1>2 DEF PipeFiles, Closers, KFree, Alone, IInv, TypeOK
  <2>4. open' = open /\ used' = used \ {g}
    BY <2>0 DEF KFree
  <2>5. \A e \in Ends : open[g][e] = 0
    BY <2>1 DEF IInv, OnePage
  <2>6. QED BY <2>1, <2>2, <2>3, <2>4, <2>5 DEF IInv, OneOwner, OnePage
<1>7. InodeAccounted'
  <2>1. AsCall(p) = 0 /\ AsCall(p)' = 0 /\ \A f \in Files : AsFile(f)' = AsFile(f)
    BY <1>1 DEF AsCall, AsFile, KFree, IInv, TypeOK
  <2>2. 0 \in Files
    BY TableAssumption DEF Files
  <2>3. iref' = iref - AsFile(0) + AsFile(0)' - AsCall(p) + AsCall(p)'
    BY <2>1, <2>2 DEF KFree, IInv, TypeOK, AsFile
  <2>4. QED BY <1>2, <2>1, <2>2, <2>3, InodeMoves
<1>8. QED BY <1>2, <1>3, <1>4, <1>5, <1>6, <1>7 DEF IInv

\* The end is closed; the page is freed by the process that closes its last end.
LEMMA PipeCloseKeeps ==
  ASSUME IInv, NEW p \in Procs, PipeClose(p)
  PROVE  IInv'
<1>0. PICK g \in Pages, e \in Ends : g = ff[p].pipe /\ e = ff[p].end
  BY DEF PipeClose, IInv, Frames, TypeOK, FileRec
<1>1. /\ todo' = todo /\ open' = [open EXCEPT ![g][e] = 0] /\ pc[p] = "pipeclose"
      /\ UNCHANGED <<file, ofile, used, iref, f0, f1, p0>>
  BY <1>0 DEF PipeClose, CloseAll, Goto, IInv, TypeOK, mine
<1>2. \/ /\ \A e2 \in Ends : e2 = e \/ open[g][e2] = 0
         /\ pc' = [pc EXCEPT ![p] = "kfree"] /\ ff' = ff
      \/ /\ ~ \A e2 \in Ends : e2 = e \/ open[g][e2] = 0
         /\ pc' = [pc EXCEPT ![p] = IF todo[p] = <<>> THEN "idle" ELSE "fileclose"]
         /\ ff' = [ff EXCEPT ![p] = NoFile]
  BY <1>0 DEF PipeClose, CloseAll, Goto, Drop, LastEnd
<1>3. TypeOK' /\ Alone(p)
  <2>1. NoFile \in FileRec
    BY DEF NoFile, FileRec, Ends
  <2>2. ff' \in [Procs -> FileRec] /\ \A q \in Procs \ {p} : ff'[q] = ff[q]
    BY <1>2, <2>1 DEF IInv, TypeOK
  <2>3. pc' \in [Procs -> PCs] /\ \A q \in Procs \ {p} : pc'[q] = pc[q]
    BY <1>2 DEF IInv, TypeOK, PCs, ClosePCs
  <2>4. open' \in [Pages -> [Ends -> {0, 1}]]
    BY <1>1 DEF IInv, TypeOK
  <2>5. QED BY <1>1, <2>2, <2>3, <2>4 DEF IInv, TypeOK, Alone
<1>4. Frames'
  BY <1>1, <1>2 DEF IInv, TypeOK, Frames, ClosePCs, Own0PCs, Own1PCs
<1>5. RefsCounted'
  <2>1. \A f \in Files : Hand(p, f)' = Hand(p, f)
    BY <1>1, <1>2, HandSame DEF IInv, TypeOK, Own0PCs
  <2>2. \A f \in Files : file'[f].ref = file[f].ref - Hand(p, f) + Hand(p, f)'
    BY <1>1, <2>1, HandNat DEF IInv, TypeOK, FileRec
  <2>3. QED BY <1>1, <1>3, <2>2, RefsSame
<1>6. Blank'
  BY <1>1, <1>2, <1>3, BlankKept DEF IInv, TypeOK, Own0PCs
<1>7. OneOwner'
  <2>1. p \in Closers(g, e)
    BY <1>0, <1>1 DEF Closers
  <2>2. \A q \in Closers(g, e) : q = p
    BY <2>1 DEF IInv, OneOwner
  <2>3. PipeFiles(g, e) = {}
    BY <2>1 DEF IInv, OneOwner
  <2>4. Closers(g, e)' = {}
    <3>1. pc'[p] # "pipeclose"
      BY <1>1, <1>2 DEF IInv, TypeOK
    <3>2. ASSUME NEW q \in Closers(g, e)' PROVE q = p
      BY <1>3, <2>2, <3>2 DEF Closers, Alone
    <3>3. QED BY <3>1, <3>2 DEF Closers
  <2>5. \A h \in Pages, e2 \in Ends : PipeFiles(h, e2)' = PipeFiles(h, e2)
    BY <1>1 DEF PipeFiles
  <2>6. ASSUME NEW h \in Pages, NEW e2 \in Ends, ~(h = g /\ e2 = e)
        PROVE  Closers(h, e2)' = Closers(h, e2) /\ open'[h][e2] = open[h][e2]
    <3>1. open'[h][e2] = open[h][e2]
      BY <1>1, <2>6 DEF IInv, TypeOK
    <3>2. pc'[p] # "pipeclose" /\ p \notin Closers(h, e2)
      BY <1>0, <1>1, <1>2, <2>6 DEF IInv, TypeOK, Closers
    <3>3. QED BY <1>3, <3>1, <3>2 DEF Closers, Alone
  <2>7. open'[g][e] = 0
    BY <1>1 DEF IInv, TypeOK
  <2>8. QED BY <2>3, <2>4, <2>5, <2>6, <2>7 DEF IInv, OneOwner
<1>8. OnePage'
  <2>1. open[g][e] = 1
    <3>1. p \in Closers(g, e)
      BY <1>0, <1>1 DEF Closers
    <3>2. QED BY <3>1 DEF IInv, OneOwner
  <2>2. g \in used /\ Keepers(g) = {}
    BY <2>1 DEF IInv, OnePage
  <2>3. \A h \in Pages \ {g} : Keepers(h)' = Keepers(h) /\ open'[h] = open[h]
    <3>1. ASSUME NEW h \in Pages \ {g} PROVE Keepers(h)' = Keepers(h)
      <4>1. p \notin Keepers(h) /\ p \notin Keepers(h)'
        BY <1>0, <1>1, <1>2 DEF Keepers, IInv, TypeOK
      <4>2. QED BY <1>3, <4>1 DEF Keepers, Alone
    <3>2. QED BY <1>1, <3>1 DEF IInv, TypeOK
  <2>4. /\ \A q \in Keepers(g)' : q = p
        /\ p \in Keepers(g)' <=> \A e2 \in Ends : e2 = e \/ open[g][e2] = 0
    <3>1. ASSUME NEW q \in Keepers(g)' PROVE q = p
      BY <1>3, <2>2, <3>1 DEF Keepers, Alone
    <3>2. p \in Keepers(g)' <=> \A e2 \in Ends : e2 = e \/ open[g][e2] = 0
      BY <1>0, <1>2 DEF Keepers, IInv, TypeOK
    <3>3. QED BY <3>1, <3>2
  <2>5. /\ \A e2 \in Ends : open'[g][e2] = IF e2 = e THEN 0 ELSE open[g][e2]
        /\ \A e2 \in Ends : open[g][e2] \in {0, 1}
    BY <1>1 DEF IInv, TypeOK
  <2>6. QED BY <1>1, <2>2, <2>3, <2>4, <2>5 DEF IInv, OnePage
<1>9. InodeAccounted'
  <2>1. AsCall(p) = 0 /\ AsCall(p)' = 0 /\ \A f \in Files : AsFile(f)' = AsFile(f)
    BY <1>1, <1>2 DEF AsCall, AsFile, IInv, TypeOK
  <2>2. 0 \in Files
    BY TableAssumption DEF Files
  <2>3. iref' = iref - AsFile(0) + AsFile(0)' - AsCall(p) + AsCall(p)'
    BY <1>1, <2>1, <2>2 DEF IInv, TypeOK, AsFile
  <2>4. QED BY <1>3, <2>1, <2>2, <2>3, InodeMoves
<1>10. QED BY <1>3, <1>4, <1>5, <1>6, <1>7, <1>8, <1>9 DEF IInv

\* The file loses a reference.  When it was the last, the process takes over what
\* the file owned: the end of the pipe, or the reference to the inode.
LEMMA FileCloseKeeps ==
  ASSUME IInv, NEW p \in Procs, FileClose(p)
  PROVE  IInv'
<1>0. PICK f \in Files, t \in Seq(Files) :
        /\ f = Head(todo[p]) /\ t = Tail(todo[p]) /\ todo[p][1] = f
        /\ \/ Len(todo[p]) = 1 /\ Len(t) = 0 /\ t = <<>>
           \/ Len(todo[p]) = 2 /\ Len(t) = 1 /\ t # <<>> /\ t[1] = todo[p][2]
  <2>1. todo[p] \in Seq(Files) /\ todo[p] # <<>> /\ Len(todo[p]) <= 2
    BY DEF FileClose, IInv, TypeOK, Frames
  <2>2. QED BY <2>1, HeadRest
<1>1. (Len(todo[p]) = 1 /\ t = <<>> /\ Len(t) = 0) \/ (Len(todo[p]) = 2 /\ t # <<>> /\ Len(t) = 1)
  BY <1>0
<1>2. pc[p] = "fileclose" /\ UNCHANGED <<ofile, used, open, iref, f0, f1, p0>>
  BY DEF FileClose, mine
<1>3. /\ First(p, f) = 1 /\ Hand(p, f) >= 1
      /\ \A g \in Files : Hand(p, g) = First(p, g) + Second(p, g)
  <2>1. First(p, f) = 1
    BY <1>0 DEF First
  <2>2. ASSUME NEW g \in Files
        PROVE  Hand(p, g) = First(p, g) + Second(p, g) /\ First(p, g) \in Nat /\ Second(p, g) \in Nat
    <3>1. AsF0(p, g) = 0 /\ AsF1(p, g) = 0
      BY <1>2 DEF AsF0, AsF1, Own0PCs, Own1PCs
    <3>2. First(p, g) \in Nat /\ Second(p, g) \in Nat
      BY HandNat
    <3>3. QED BY <3>1, <3>2 DEF Hand
  <2>3. Hand(p, f) >= 1
    BY <2>1, <2>2
  <2>4. QED BY <2>1, <2>2, <2>3
<1>4. file[f].ref \in Nat /\ (file[f].ref > 1 \/ file[f].ref = 1)
  <2>1. file[f].ref \in Nat
    BY DEF IInv, TypeOK, FileRec
  <2>2. CASE file[f].ref <= 1
    BY <2>2, <1>3, Sole
  <2>3. QED BY <2>1, <2>2
<1>5. PICK r \in FileRec, to \in {"idle", "fileclose", "pipeclose", "iput"} :
        /\ file' = [file EXCEPT ![f] = r]
        /\ r.ref = file[f].ref - 1
        /\ IF r.ref > 0 THEN r.type = file[f].type /\ r.pipe = file[f].pipe /\ r.end = file[f].end
                        ELSE r.type = "FD_NONE"
        /\ pc' = [pc EXCEPT ![p] = to] /\ todo' = [todo EXCEPT ![p] = t]
        /\ IF r.ref = 0 /\ file[f].type # "FD_NONE"
             THEN /\ ff' = [ff EXCEPT ![p] = file[f]]
                  /\ to = IF file[f].type = "FD_PIPE" THEN "pipeclose" ELSE "iput"
             ELSE ff' = ff /\ to = IF t = <<>> THEN "idle" ELSE "fileclose"
        /\ (to = "fileclose" => t # <<>>) /\ (to = "idle" => t = <<>>)
  <2>1. file[f] \in FileRec
    BY DEF IInv, TypeOK
  <2> DEFINE next == IF t = <<>> THEN "idle" ELSE "fileclose"
             after == IF file[f].type = "FD_PIPE" THEN "pipeclose" ELSE "iput"
  <2>2. next \in {"idle", "fileclose", "pipeclose", "iput"} /\ after \in {"idle", "fileclose", "pipeclose", "iput"}
    OBVIOUS
  <2>3. CASE file[f].ref > 1
    <3> DEFINE rr == [file[f] EXCEPT !.ref = @ - 1]
    <3>1. /\ file' = [file EXCEPT ![f] = rr] /\ ff' = ff
          /\ pc' = [pc EXCEPT ![p] = next] /\ todo' = [todo EXCEPT ![p] = t]
      BY <1>0, <2>3 DEF FileClose, CloseAll, Goto
    <3>2. rr \in FileRec /\ rr.ref = file[f].ref - 1 /\ rr.ref > 0
          /\ rr.type = file[f].type /\ rr.pipe = file[f].pipe /\ rr.end = file[f].end
      BY <2>1, <2>3 DEF FileRec
    <3>3. rr.ref # 0
      BY <3>2, <2>3
    <3> HIDE DEF rr, after
    <3>4. QED BY <2>2, <3>1, <3>2, <3>3
  <2>4. CASE file[f].ref = 1
    <3> DEFINE rr == ClosedFile(file[f])
    <3>1. rr \in FileRec /\ rr.ref = 0 /\ rr.type = "FD_NONE"
      BY <2>1 DEF FileRec, ClosedFile
    <3>2. rr.ref = file[f].ref - 1 /\ ~(rr.ref > 0)
      BY <2>4, <3>1
    <3>3. /\ file' = [file EXCEPT ![f] = rr] /\ todo' = [todo EXCEPT ![p] = t]
          /\ IF file[f].type = "FD_NONE"
               THEN pc' = [pc EXCEPT ![p] = next] /\ ff' = ff
               ELSE ff' = [ff EXCEPT ![p] = file[f]] /\ pc' = [pc EXCEPT ![p] = after]
      BY <1>0, <2>4 DEF FileClose, CloseAll, Goto
    <3>4. CASE file[f].type = "FD_NONE"
      <4> HIDE DEF rr, after
      <4>1. QED BY <2>2, <3>1, <3>2, <3>3, <3>4
    <3>5. CASE file[f].type # "FD_NONE"
      <4> HIDE DEF rr
      <4>1. QED BY <2>2, <3>1, <3>2, <3>3, <3>5
    <3>6. QED BY <3>4, <3>5
  <2>5. QED BY <1>4, <2>3, <2>4
<1>6. TypeOK' /\ Alone(p)
  BY <1>2, <1>5 DEF IInv, TypeOK, PCs, ClosePCs, Alone
<1>7. Frames'
  <2>1. \A g \in Files : file'[g].type = "FD_PIPE" => file'[g].pipe \in Pages
    BY <1>5 DEF IInv, TypeOK, Frames
  <2>2. /\ Len(todo'[p]) <= 1 /\ (to = "fileclose" => todo'[p] # <<>>)
        /\ (to = "idle" => todo'[p] = <<>>)
    <3>1. todo'[p] = t
      BY <1>5 DEF IInv, TypeOK
    <3>2. (to = "fileclose" => t # <<>>) /\ (to = "idle" => t = <<>>)
      BY <1>5
    <3>3. Len(t) <= 1
      <4>1. Len(t) = 0 \/ Len(t) = 1
        BY <1>1, Zenon
      <4>2. \A k \in {0, 1} : k <= 1
        OBVIOUS
      <4>3. QED BY <4>1, <4>2, Zenon
    <3>4. QED BY <3>1, <3>2, <3>3, Zenon
  <2>3. to = "pipeclose" => ff'[p].pipe \in Pages
    BY <1>5 DEF IInv, TypeOK, Frames
  <2>4. pc'[p] = to
    BY <1>5 DEF IInv, TypeOK
  <2>5. QED BY <1>6, <2>1, <2>2, <2>3, <2>4 DEF IInv, Frames, Alone, ClosePCs, Own0PCs, Own1PCs
<1>8. RefsCounted'
  <2>1. ASSUME NEW g \in Files
        PROVE  Hand(p, g)' = Hand(p, g) - (IF g = f THEN 1 ELSE 0)
    <3>1. todo'[p] = t /\ pc'[p] \notin Own0PCs /\ pc'[p] \notin Own1PCs
      BY <1>5 DEF IInv, TypeOK, Own0PCs, Own1PCs
    <3>2. First(p, g)' = Second(p, g) /\ Second(p, g)' = 0
      BY <1>0, <3>1 DEF First, Second
    <3>3. AsF0(p, g)' = 0 /\ AsF1(p, g)' = 0
      BY <3>1 DEF AsF0, AsF1
    <3>4. First(p, g) = IF g = f THEN 1 ELSE 0
      BY <1>0 DEF First
    <3>5. Hand(p, g) = (IF g = f THEN 1 ELSE 0) + Second(p, g) /\ Second(p, g) \in Nat
      BY <1>3, <3>4, HandNat
    <3>6. Hand(p, g)' = Second(p, g)
      BY <3>2, <3>3, <3>5 DEF Hand
    <3>7. QED BY <3>5, <3>6
  <2>2. ASSUME NEW g \in Files
        PROVE  file'[g].ref = file[g].ref - Hand(p, g) + Hand(p, g)'
    <3>1. file[g].ref \in Nat /\ Hand(p, g) \in Nat
      BY HandNat DEF IInv, TypeOK, FileRec
    <3>2. file'[g].ref = file[g].ref - (IF g = f THEN 1 ELSE 0)
      BY <1>5, <3>1 DEF IInv, TypeOK
    <3>3. QED BY <2>1, <3>1, <3>2
  <2>3. QED BY <1>2, <1>6, <2>2, RefsSame
<1>9. Blank'
  <2>1. \A g \in Files : file'[g].ref = 0 => file'[g].type = "FD_NONE"
    BY <1>5 DEF IInv, TypeOK, FileRec, Blank
  <2>2. pc'[p] \notin Own0PCs /\ pc'[p] \notin Own1PCs
    BY <1>5 DEF IInv, TypeOK, Own0PCs, Own1PCs
  <2>3. ASSUME NEW q \in Procs \ {p}
        PROVE  /\ pc[q] \in Own0PCs \ {"fds"} => f0[q] # f
               /\ pc[q] \in Own1PCs \ {"fds"} => f1[q] # f
    BY <1>0, Mine
  <2>4. \A g \in Files \ {f} : file'[g] = file[g]
    BY <1>5 DEF IInv, TypeOK
  <2>5. QED BY <1>6, <2>1, <2>2, <2>3, <2>4 DEF IInv, Blank, Frames, Alone, Own0PCs, Own1PCs
<1>10. OneOwner' /\ OnePage'
  <2>1. CASE to # "pipeclose"
    <3>1. PipesStay
      BY <1>4, <1>5, <2>1 DEF PipesStay, IInv, TypeOK, FileRec
    <3>2. QED BY <1>2, <1>5, <1>6, <2>1, <3>1, PagesKept DEF IInv, TypeOK, PagePCs
  <2>2. CASE to = "pipeclose"
    <3>0. PICK g \in Pages, e \in Ends : g = file[f].pipe /\ e = file[f].end
      BY <1>5, <2>2 DEF IInv, TypeOK, Frames, FileRec
    <3>1. f \in PipeFiles(g, e)
      BY <1>4, <1>5, <2>2, <3>0 DEF PipeFiles
    <3>2. (\A h \in PipeFiles(g, e) : h = f) /\ Closers(g, e) = {}
      BY <3>1 DEF IInv, OneOwner
    <3>3. PipeFiles(g, e)' = {}
      <4>1. f \notin PipeFiles(g, e)'
        BY <1>5, <2>2 DEF PipeFiles, IInv, TypeOK
      <4>2. ASSUME NEW h \in PipeFiles(g, e)' PROVE h = f
        BY <1>5, <3>2, <4>2 DEF PipeFiles, IInv, TypeOK
      <4>3. QED BY <4>1, <4>2
    <3>4. Closers(g, e)' = {p}
      <4>1. p \in Closers(g, e)'
        BY <1>5, <2>2, <3>0 DEF Closers, IInv, TypeOK
      <4>2. ASSUME NEW q \in Closers(g, e)' PROVE q = p
        BY <1>6, <3>2, <4>2 DEF Closers, Alone
      <4>3. QED BY <4>1, <4>2
    <3>5. ASSUME NEW h \in Pages, NEW e2 \in Ends, ~(h = g /\ e2 = e)
          PROVE  PipeFiles(h, e2)' = PipeFiles(h, e2) /\ Closers(h, e2)' = Closers(h, e2)
      <4>1. f \notin PipeFiles(h, e2) /\ f \notin PipeFiles(h, e2)'
        BY <1>5, <2>2, <3>0, <3>5 DEF PipeFiles, IInv, TypeOK
      <4>2. p \notin Closers(h, e2) /\ p \notin Closers(h, e2)'
        BY <1>2, <1>5, <2>2, <3>0, <3>5 DEF Closers, IInv, TypeOK
      <4>3. QED BY <1>5, <1>6, <4>1, <4>2 DEF PipeFiles, Closers, Alone, IInv, TypeOK
    <3>6. \A h \in Pages : Keepers(h)' = Keepers(h)
      <4>1. pc'[p] = "pipeclose"
        BY <1>5, <2>2 DEF IInv, TypeOK
      <4>2. QED BY <1>2, <1>6, <4>1 DEF Keepers, Alone
    <3>7. QED BY <1>2, <3>1, <3>2, <3>3, <3>4, <3>5, <3>6 DEF IInv, OneOwner, OnePage
  <2>3. QED BY <2>1, <2>2
<1>11. InodeAccounted'
  <2>1. \A g \in Files \ {f} : AsFile(g)' = AsFile(g)
    BY <1>5 DEF AsFile, IInv, TypeOK
  <2>2. AsFile(f) = (IF file[f].type = "FD_INODE" THEN 1 ELSE 0) /\ AsCall(p) = 0
    <3>1. file[f].ref > 0
      BY <1>4
    <3>2. QED BY <1>2, <3>1 DEF AsFile, AsCall
  <2>3. /\ AsFile(f)' = (IF r.ref > 0 /\ file[f].type = "FD_INODE" THEN 1 ELSE 0)
        /\ AsCall(p)' = (IF to = "iput" THEN 1 ELSE 0)
    BY <1>5 DEF AsFile, AsCall, IInv, TypeOK
  <2>4. to = "iput" <=> r.ref = 0 /\ file[f].type = "FD_INODE"
    BY <1>5 DEF IInv, TypeOK, FileRec
  <2>5. iref' = iref - AsFile(f) + AsFile(f)' - AsCall(p) + AsCall(p)'
    <3>1. r.ref \in Nat /\ iref \in Int /\ iref' = iref
      BY <1>2 DEF FileRec, IInv, TypeOK
    <3>2. QED BY <2>2, <2>3, <2>4, <3>1
  <2>6. QED BY <1>6, <2>1, <2>5, InodeMoves
<1>12. QED BY <1>6, <1>7, <1>8, <1>9, <1>10, <1>11 DEF IInv

-----------------------------------------------------------------------------
(* pipealloc                                                               *)

\* A call that cannot get all it needs puts what it has on its list of files to
\* close.
LEMMA BadKeeps ==
  ASSUME IInv, NEW p \in Procs, NEW fs,
         \/ pc[p] = "alloc0" /\ fs = <<>>
         \/ pc[p] \in {"alloc1", "openfd"} /\ fs = <<f0[p]>>
         \/ pc[p] \in {"kalloc", "fds"} /\ fs = <<f0[p], f1[p]>>,
         Leave(p, fs), UNCHANGED <<file, ofile, used, open, ff>>, iref' = iref - AsCall(p)
  PROVE  IInv'
<1>0. /\ todo[p] = <<>> /\ pc[p] \notin ClosePCs
      /\ pc[p] \in Own0PCs => f0[p] \in Files
      /\ pc[p] \in Own1PCs => f1[p] \in Files
  BY DEF IInv, Frames, ClosePCs
<1>1. fs \in Seq(Files) /\ Len(fs) <= 2
  <2>1. CASE pc[p] = "alloc0" /\ fs = <<>>
    BY <2>1
  <2>2. CASE pc[p] \in {"alloc1", "openfd"} /\ fs = <<f0[p]>>
    BY <1>0, <2>2 DEF Own0PCs
  <2>3. CASE pc[p] \in {"kalloc", "fds"} /\ fs = <<f0[p], f1[p]>>
    BY <1>0, <2>3 DEF Own0PCs, Own1PCs
  <2>4. QED BY <2>1, <2>2, <2>3
<1>2. PICK to \in {"idle", "fileclose"} :
        /\ pc' = [pc EXCEPT ![p] = to] /\ todo' = [todo EXCEPT ![p] = fs]
        /\ (to = "fileclose" => fs # <<>>) /\ (to = "idle" => fs = <<>>)
  BY DEF Leave, CloseAll, Goto
<1>3. pc'[p] = to /\ todo'[p] = fs
  BY <1>2 DEF IInv, TypeOK
<1>4. TypeOK' /\ Alone(p)
  <2>1. f0' \in [Procs -> Files \cup {None}] /\ f1' \in [Procs -> Files \cup {None}]
        /\ p0' \in [Procs -> Pages \cup {None}] /\ todo' \in [Procs -> Seq(Files)]
    BY <1>1, <1>2 DEF Leave, IInv, TypeOK
  <2>2. pc' \in [Procs -> PCs] /\ iref' \in Int
    BY <1>2 DEF IInv, TypeOK, PCs, ClosePCs, AsCall
  <2>3. Alone(p)
    BY <1>2 DEF Leave, IInv, TypeOK, Alone
  <2>4. QED BY <2>1, <2>2, <2>3 DEF IInv, TypeOK
<1>5. Frames'
  BY <1>1, <1>2, <1>3, <1>4 DEF IInv, Frames, Alone, ClosePCs, Own0PCs, Own1PCs
<1>6. RefsCounted'
  <2>1. ASSUME NEW g \in Files PROVE Hand(p, g)' = Hand(p, g)
    <3>1. /\ AsF0(p, g)' = 0 /\ AsF1(p, g)' = 0
      BY <1>3 DEF AsF0, AsF1, Own0PCs, Own1PCs
    <3>2. First(p, g) = 0 /\ Second(p, g) = 0
      BY <1>0 DEF First, Second
    <3>3. First(p, g)' = AsF0(p, g) /\ Second(p, g)' = AsF1(p, g)
      <4>1. CASE pc[p] = "alloc0" /\ fs = <<>>
        BY <1>3, <4>1 DEF First, Second, AsF0, AsF1, Own0PCs, Own1PCs
      <4>2. CASE pc[p] \in {"alloc1", "openfd"} /\ fs = <<f0[p]>>
        BY <1>3, <4>2 DEF First, Second, AsF0, AsF1, Own0PCs, Own1PCs
      <4>3. CASE pc[p] \in {"kalloc", "fds"} /\ fs = <<f0[p], f1[p]>>
        BY <1>3, <4>3 DEF First, Second, AsF0, AsF1, Own0PCs, Own1PCs
      <4>4. QED BY <4>1, <4>2, <4>3
    <3>4. AsF0(p, g) \in Nat /\ AsF1(p, g) \in Nat
      BY HandNat
    <3>5. QED BY <3>1, <3>2, <3>3, <3>4 DEF Hand
  <2>2. \A g \in Files : file'[g].ref = file[g].ref - Hand(p, g) + Hand(p, g)'
    BY <2>1, HandNat DEF IInv, TypeOK, FileRec
  <2>3. QED BY <1>4, <2>2, RefsSame
<1>7. Blank'
  BY <1>3, <1>4, BlankKept DEF Own0PCs
<1>8. OneOwner' /\ OnePage'
  <2>1. PipesStay
    BY DEF PipesStay
  <2>2. QED BY <1>3, <1>4, <2>1, PagesKept DEF PagePCs
<1>9. InodeAccounted'
  <2>1. AsCall(p)' = 0 /\ \A f \in Files : AsFile(f)' = AsFile(f)
    BY <1>3 DEF AsCall, AsFile
  <2>2. 0 \in Files
    BY TableAssumption DEF Files
  <2>3. iref' = iref - AsFile(0) + AsFile(0)' - AsCall(p) + AsCall(p)'
    BY <2>1, <2>2 DEF IInv, TypeOK, AsFile, AsCall
  <2>4. QED BY <1>4, <2>1, <2>2, <2>3, InodeMoves
<1>10. QED BY <1>4, <1>5, <1>6, <1>7, <1>8, <1>9 DEF IInv

\* filealloc takes a file that nobody has and nobody sees a difference.
LEMMA Allocated ==
  ASSUME IInv, NEW f \in Files, filealloc(f)
  PROVE  /\ file' \in [Files -> FileRec]
         /\ file[f].ref = 0 /\ file'[f].ref = 1 /\ file'[f].type = "FD_NONE"
         /\ \A g \in Files \ {f} : file'[g] = file[g]
         /\ PipesStay /\ \A g \in Files : AsFile(g)' = AsFile(g)
         /\ \A q \in Procs : /\ pc[q] \in Own0PCs \ {"fds"} => f0[q] # f
                             /\ pc[q] \in Own1PCs \ {"fds"} => f1[q] # f
<1>1. file \in [Files -> FileRec] /\ file[f] \in FileRec
  BY DEF IInv, TypeOK
<1>2. file[f].ref = 0 /\ file[f].type = "FD_NONE"
  BY DEF filealloc, IsFree, IInv, Blank
<1>3. PICK r \in FileRec : r.ref = 1 /\ r.type = "FD_NONE" /\ file' = [file EXCEPT ![f] = r]
  <2> DEFINE rr == [file[f] EXCEPT !.ref = 1]
  <2>1. rr \in FileRec /\ rr.ref = 1 /\ rr.type = "FD_NONE"
    BY <1>1, <1>2 DEF FileRec
  <2>2. file' = [file EXCEPT ![f] = rr]
    BY DEF filealloc
  <2> HIDE DEF rr
  <2>3. QED BY <2>1, <2>2
<1>4. file' \in [Files -> FileRec] /\ file'[f] = r /\ \A g \in Files \ {f} : file'[g] = file[g]
  BY <1>1, <1>3
<1>5. PipesStay
  BY <1>2, <1>3, <1>4 DEF PipesStay
<1>6. \A g \in Files : AsFile(g)' = AsFile(g)
  BY <1>2, <1>3, <1>4 DEF AsFile
<1>7. \A q \in Procs : /\ pc[q] \in Own0PCs \ {"fds"} => f0[q] # f
                       /\ pc[q] \in Own1PCs \ {"fds"} => f1[q] # f
  BY <1>2 DEF IInv, Blank
<1>8. QED BY <1>2, <1>3, <1>4, <1>5, <1>6, <1>7

\* The step of pipealloc or sys_open that takes file f: it becomes the process's
\* first file, or its second.
LEMMA TakeKeeps ==
  ASSUME IInv, NEW p \in Procs, NEW f \in Files, filealloc(f), NEW to,
         \/ /\ (to = "alloc1" /\ pc[p] = "alloc0") \/ (to = "openfd" /\ pc[p] = "idle")
            /\ f0' = [f0 EXCEPT ![p] = f] /\ f1' = f1
         \/ /\ to = "kalloc" /\ pc[p] = "alloc1"
            /\ f1' = [f1 EXCEPT ![p] = f] /\ f0' = f0,
         pc' = [pc EXCEPT ![p] = to], iref' = IF to = "openfd" THEN iref + 1 ELSE iref,
         UNCHANGED <<ofile, used, open, p0, todo, ff>>
  PROVE  IInv'
<1>1. to \in {"alloc1", "kalloc", "openfd"} /\ pc[p] \in {"idle", "alloc0", "alloc1"}
  OBVIOUS
<1>2. pc'[p] = to
  BY DEF IInv, TypeOK
<1>3. TypeOK' /\ Alone(p)
  <2>1. pc' \in [Procs -> PCs] /\ \A q \in Procs \ {p} : pc'[q] = pc[q]
    BY <1>1 DEF IInv, TypeOK, PCs, Own0PCs
  <2>2. /\ f0' \in [Procs -> Files \cup {None}] /\ f1' \in [Procs -> Files \cup {None}]
        /\ \A q \in Procs \ {p} : f0'[q] = f0[q] /\ f1'[q] = f1[q]
    BY DEF IInv, TypeOK
  <2>3. file' \in [Files -> FileRec] /\ iref' \in Int
    BY Allocated DEF IInv, TypeOK
  <2>4. QED BY <2>1, <2>2, <2>3 DEF IInv, TypeOK, Alone
<1>4. Frames'
  <2>1. \A g \in Files : file'[g].type = "FD_PIPE" => file'[g].pipe \in Pages
    BY Allocated DEF IInv, Frames
  <2>2. /\ f0'[p] \in Files /\ (to = "kalloc" => f1'[p] \in Files)
        /\ todo'[p] = <<>> /\ Len(todo'[p]) <= 2
    BY <1>1 DEF IInv, TypeOK, Frames, Own0PCs, ClosePCs
  <2>3. QED BY <1>1, <1>2, <1>3, <2>1, <2>2 DEF IInv, Frames, Alone, ClosePCs, Own0PCs, Own1PCs
<1>5. RefsCounted'
  <2>1. ASSUME NEW g \in Files
        PROVE  Hand(p, g)' = Hand(p, g) + (IF g = f THEN 1 ELSE 0)
    <3>1. First(p, g)' = First(p, g) /\ Second(p, g)' = Second(p, g)
      BY DEF First, Second
    <3>2. \/ AsF1(p, g)' = AsF1(p, g) /\ AsF0(p, g) = 0 /\ AsF0(p, g)' = (IF g = f THEN 1 ELSE 0)
          \/ AsF0(p, g)' = AsF0(p, g) /\ AsF1(p, g) = 0 /\ AsF1(p, g)' = (IF g = f THEN 1 ELSE 0)
      BY <1>2 DEF AsF0, AsF1, Own0PCs, Own1PCs, IInv, TypeOK
    <3>3. QED BY <3>1, <3>2, HandNat DEF Hand
  <2>2. ASSUME NEW g \in Files
        PROVE  file'[g].ref = file[g].ref - Hand(p, g) + Hand(p, g)'
    <3>1. file[g].ref \in Nat /\ Hand(p, g) \in Nat
      BY HandNat DEF IInv, TypeOK, FileRec
    <3>2. file'[g].ref = file[g].ref + (IF g = f THEN 1 ELSE 0)
      BY <3>1, Allocated
    <3>3. QED BY <2>1, <3>1, <3>2
  <2>3. QED BY <1>3, <2>2, RefsSame
<1>6. Blank'
  <2>1. \A g \in Files : file'[g].ref = 0 => file'[g].type = "FD_NONE"
    BY Allocated DEF IInv, Blank
  <2>2. ASSUME NEW q \in Procs
        PROVE  /\ pc'[q] \in Own0PCs \ {"fds"} => file'[f0'[q]].ref = 1 /\ file'[f0'[q]].type = "FD_NONE"
               /\ pc'[q] \in Own1PCs \ {"fds"} => file'[f1'[q]].ref = 1 /\ file'[f1'[q]].type = "FD_NONE"
    <3>1. CASE q = p
      <4>1. CASE to = "kalloc"
        <5>1. f1'[p] = f /\ f0'[p] = f0[p] /\ pc[p] \in Own0PCs \ {"fds"}
          BY <4>1 DEF Own0PCs, IInv, TypeOK
        <5>2. f0[p] \in Files \ {f} /\ file[f0[p]].ref = 1 /\ file[f0[p]].type = "FD_NONE"
          BY <5>1, Allocated DEF IInv, Frames, Blank
        <5>3. QED BY <3>1, <5>1, <5>2, Allocated
      <4>2. CASE to # "kalloc"
        <5>1. f0'[p] = f /\ pc'[p] \notin Own1PCs
          BY <1>1, <1>2, <4>2 DEF Own1PCs, IInv, TypeOK
        <5>2. QED BY <3>1, <5>1, Allocated
      <4>3. QED BY <4>1, <4>2
    <3>2. CASE q # p
      <4>1. pc'[q] = pc[q] /\ f0'[q] = f0[q] /\ f1'[q] = f1[q]
        BY <1>3, <3>2 DEF Alone
      <4>2. QED BY <4>1, Allocated DEF IInv, Frames, Blank, Own0PCs, Own1PCs
    <3>3. QED BY <3>1, <3>2
  <2>3. QED BY <2>1, <2>2 DEF Blank
<1>7. OneOwner' /\ OnePage'
  BY <1>1, <1>2, <1>3, Allocated, PagesKept DEF PagePCs
<1>8. InodeAccounted'
  <2>1. AsCall(p)' = (IF to = "openfd" THEN 1 ELSE 0) /\ AsCall(p) = 0
    BY <1>1, <1>2 DEF AsCall
  <2>2. AsFile(f)' = AsFile(f) /\ \A g \in Files \ {f} : AsFile(g)' = AsFile(g)
    BY Allocated
  <2>3. iref' = iref - AsFile(f) + AsFile(f)' - AsCall(p) + AsCall(p)'
    BY <2>1, <2>2 DEF IInv, TypeOK, AsFile
  <2>4. QED BY <1>3, <2>2, <2>3, InodeMoves
<1>9. QED BY <1>3, <1>4, <1>5, <1>6, <1>7, <1>8 DEF IInv

\* sys_pipe starts with nothing.
LEMMA PipeKeeps ==
  ASSUME IInv, NEW p \in Procs, Pipe(p)
  PROVE  IInv'
<1>1. /\ pc[p] = "idle" /\ pc' = [pc EXCEPT ![p] = "alloc0"] /\ pc'[p] = "alloc0"
      /\ UNCHANGED <<file, ofile, used, open, iref, f0, f1, p0, todo, ff>>
  BY DEF Pipe, Goto, mine, IInv, TypeOK
<1>2. TypeOK' /\ Alone(p)
  BY <1>1 DEF IInv, TypeOK, PCs, Alone
<1>3. Frames'
  BY <1>1, <1>2 DEF IInv, Frames, Alone, ClosePCs, Own0PCs, Own1PCs
<1>4. RefsCounted'
  <2>1. \A g \in Files : Hand(p, g)' = Hand(p, g)
    BY <1>1, HandSame DEF Own0PCs
  <2>2. \A g \in Files : file'[g].ref = file[g].ref - Hand(p, g) + Hand(p, g)'
    BY <1>1, <2>1, HandNat DEF IInv, TypeOK, FileRec
  <2>3. QED BY <1>1, <1>2, <2>2, RefsSame
<1>5. Blank'
  BY <1>1, <1>2, BlankKept DEF Own0PCs
<1>6. OneOwner' /\ OnePage'
  <2>1. PipesStay
    BY <1>1 DEF PipesStay
  <2>2. QED BY <1>1, <1>2, <2>1, PagesKept DEF PagePCs
<1>7. InodeAccounted'
  <2>1. AsCall(p)' = 0 /\ AsCall(p) = 0 /\ \A f \in Files : AsFile(f)' = AsFile(f)
    BY <1>1 DEF AsCall, AsFile
  <2>2. 0 \in Files
    BY TableAssumption DEF Files
  <2>3. iref' = iref - AsFile(0) + AsFile(0)' - AsCall(p) + AsCall(p)'
    BY <1>1, <2>1, <2>2 DEF IInv, TypeOK, AsFile
  <2>4. QED BY <1>2, <2>1, <2>2, <2>3, InodeMoves
<1>8. QED BY <1>2, <1>3, <1>4, <1>5, <1>6, <1>7 DEF IInv

\* pipealloc's first filealloc.
LEMMA Alloc0Keeps ==
  ASSUME IInv, NEW p \in Procs, Alloc0(p)
  PROVE  IInv'
<1>1. CASE \E f \in Files : /\ filealloc(f) /\ f0' = [f0 EXCEPT ![p] = f]
                            /\ Goto(p, "alloc1") /\ UNCHANGED <<f1, p0, todo>>
  <2>1. PICK f \in Files : /\ filealloc(f) /\ f0' = [f0 EXCEPT ![p] = f]
                           /\ pc' = [pc EXCEPT ![p] = "alloc1"] /\ UNCHANGED <<f1, p0, todo>>
    BY <1>1 DEF Goto
  <2>2. pc[p] = "alloc0" /\ UNCHANGED <<ofile, used, open, iref, ff>>
    BY DEF Alloc0
  <2>3. iref' = IF "alloc1" = "openfd" THEN iref + 1 ELSE iref
    BY <2>2
  <2> HIDE DEF Alloc0
  <2>4. QED BY <2>1, <2>2, <2>3, TakeKeeps
<1>2. CASE Bad(p, <<>>) /\ UNCHANGED file
  <2>1. iref' = iref - AsCall(p)
    BY DEF Alloc0, AsCall, IInv, TypeOK
  <2>2. QED BY <1>2, <2>1, BadKeeps DEF Alloc0, Bad
<1>3. QED BY <1>1, <1>2 DEF Alloc0

\* pipealloc's second filealloc.
LEMMA Alloc1Keeps ==
  ASSUME IInv, NEW p \in Procs, Alloc1(p)
  PROVE  IInv'
<1>1. CASE \E f \in Files : /\ filealloc(f) /\ f1' = [f1 EXCEPT ![p] = f]
                            /\ Goto(p, "kalloc") /\ UNCHANGED <<f0, p0, todo>>
  BY <1>1, TakeKeeps DEF Alloc1, Goto
<1>2. CASE Bad(p, <<f0[p]>>) /\ UNCHANGED file
  <2>1. iref' = iref - AsCall(p)
    BY DEF Alloc1, AsCall, IInv, TypeOK
  <2>2. QED BY <1>2, <2>1, BadKeeps DEF Alloc1, Bad
<1>3. QED BY <1>1, <1>2 DEF Alloc1

\* kalloc gives a page that nobody has.
LEMMA KAllocKeeps ==
  ASSUME IInv, NEW p \in Procs, KAlloc(p)
  PROVE  IInv'
<1>1. CASE Bad(p, <<f0[p], f1[p]>>) /\ UNCHANGED used
  <2>1. iref' = iref - AsCall(p)
    BY DEF KAlloc, AsCall, IInv, TypeOK
  <2>2. QED BY <1>1, <2>1, BadKeeps DEF KAlloc, Bad
<1>2. CASE \E g \in Pages \ used : /\ used' = used \cup {g} /\ p0' = [p0 EXCEPT ![p] = g]
                                   /\ Goto(p, "fill") /\ UNCHANGED <<f0, f1, todo>>
  <2>1. PICK g \in Pages \ used :
          /\ used' = used \cup {g} /\ p0' = [p0 EXCEPT ![p] = g]
          /\ pc' = [pc EXCEPT ![p] = "fill"] /\ UNCHANGED <<f0, f1, todo>>
    BY <1>2 DEF Goto
  <2>2. pc[p] = "kalloc" /\ pc'[p] = "fill" /\ p0'[p] = g /\ UNCHANGED <<file, ofile, open, iref, ff>>
    BY <2>1 DEF KAlloc, IInv, TypeOK
  <2>3. TypeOK' /\ Alone(p)
    <3>1. pc' \in [Procs -> PCs] /\ p0' \in [Procs -> Pages \cup {None}] /\ used' \subseteq Pages
      BY <2>1 DEF IInv, TypeOK, PCs, Own0PCs
    <3>2. Alone(p)
      BY <2>1, <2>2 DEF IInv, TypeOK, Alone
    <3>3. QED BY <2>1, <2>2, <3>1, <3>2 DEF IInv, TypeOK
  <2>4. Frames'
    BY <2>1, <2>2, <2>3 DEF IInv, Frames, Alone, ClosePCs, Own0PCs, Own1PCs
  <2>5. RefsCounted'
    <3>1. \A h \in Files : Hand(p, h)' = Hand(p, h)
      BY <2>1, <2>2 DEF Hand, AsF0, AsF1, First, Second, Own0PCs, Own1PCs
    <3>2. \A h \in Files : file'[h].ref = file[h].ref - Hand(p, h) + Hand(p, h)'
      BY <2>2, <3>1, HandNat DEF IInv, TypeOK, FileRec
    <3>3. QED BY <2>2, <2>3, <3>2, RefsSame
  <2>6. Blank'
    BY <2>1, <2>2, <2>3 DEF IInv, Blank, Alone, Own0PCs, Own1PCs
  <2>7. OneOwner'
    <3>1. \A h \in Pages, e \in Ends :
            PipeFiles(h, e)' = PipeFiles(h, e) /\ Closers(h, e)' = Closers(h, e)
      BY <2>2, <2>3 DEF PipeFiles, Closers, Alone
    <3>2. QED BY <2>2, <3>1 DEF IInv, OneOwner
  <2>8. OnePage'
    <3>1. Keepers(g) = {} /\ \A e \in Ends : open[g][e] = 0
      BY DEF IInv, TypeOK, OnePage
    <3>2. Keepers(g)' = {p}
      <4>1. p \in Keepers(g)'
        BY <2>2 DEF Keepers
      <4>2. ASSUME NEW q \in Keepers(g)' PROVE q = p
        BY <2>3, <3>1, <4>2 DEF Keepers, Alone
      <4>3. QED BY <4>1, <4>2
    <3>3. ASSUME NEW h \in Pages \ {g} PROVE Keepers(h)' = Keepers(h)
      <4>1. p \notin Keepers(h) /\ p \notin Keepers(h)'
        BY <2>2 DEF Keepers
      <4>2. QED BY <2>3, <4>1 DEF Keepers, Alone
    <3>4. QED BY <2>1, <2>2, <3>1, <3>2, <3>3 DEF IInv, OnePage
  <2>9. InodeAccounted'
    <3>1. AsCall(p)' = 0 /\ AsCall(p) = 0 /\ \A f \in Files : AsFile(f)' = AsFile(f)
      BY <2>2 DEF AsCall, AsFile
    <3>2. 0 \in Files
      BY TableAssumption DEF Files
    <3>3. iref' = iref - AsFile(0) + AsFile(0)' - AsCall(p) + AsCall(p)'
      BY <2>2, <3>1, <3>2 DEF IInv, TypeOK, AsFile
    <3>4. QED BY <2>3, <3>1, <3>2, <3>3, InodeMoves
  <2>10. QED BY <2>3, <2>4, <2>5, <2>6, <2>7, <2>8, <2>9 DEF IInv
<1>3. QED BY <1>1, <1>2 DEF KAlloc

\* The two files become the owners of the ends of a pipe that nobody else knows.
LEMMA FillKeeps ==
  ASSUME IInv, NEW p \in Procs, Fill(p)
  PROVE  IInv'
<1>0. PICK a \in Files, b \in Files, g \in Pages : a = f0[p] /\ b = f1[p] /\ g = p0[p] /\ a # b
  BY Mine DEF Fill, IInv, Frames, Own0PCs, Own1PCs
<1>1. /\ pc[p] = "fill" /\ pc' = [pc EXCEPT ![p] = "fds"] /\ pc'[p] = "fds"
      /\ open' = [open EXCEPT ![g] = [e \in Ends |-> 1]]
      /\ UNCHANGED <<ofile, used, iref, f0, f1, p0, todo, ff>>
  BY <1>0 DEF Fill, Goto, mine, IInv, TypeOK
<1>2. /\ file[a].ref = 1 /\ file[a].type = "FD_NONE" /\ file[b].ref = 1 /\ file[b].type = "FD_NONE"
      /\ file[a] \in FileRec /\ file[b] \in FileRec
  BY <1>0, <1>1 DEF IInv, Blank, TypeOK, Own0PCs, Own1PCs
<1>3. /\ file' \in [Files -> FileRec] /\ \A h \in Files \ {a, b} : file'[h] = file[h]
      /\ file'[a].ref = 1 /\ file'[a].type = "FD_PIPE" /\ file'[a].pipe = g /\ file'[a].end = "read"
      /\ file'[b].ref = 1 /\ file'[b].type = "FD_PIPE" /\ file'[b].pipe = g /\ file'[b].end = "write"
  <2> DEFINE R == [file[a] EXCEPT !.type = "FD_PIPE", !.pipe = g, !.end = "read"]
             W == [file[b] EXCEPT !.type = "FD_PIPE", !.pipe = g, !.end = "write"]
  <2>1. /\ R \in FileRec /\ R.ref = 1 /\ R.type = "FD_PIPE" /\ R.pipe = g /\ R.end = "read"
    BY <1>2 DEF FileRec, Ends
  <2>2. /\ W \in FileRec /\ W.ref = 1 /\ W.type = "FD_PIPE" /\ W.pipe = g /\ W.end = "write"
    BY <1>2 DEF FileRec, Ends
  <2>3. file' = [file EXCEPT ![a] = R, ![b] = W]
    BY <1>0 DEF Fill
  <2> HIDE DEF R, W
  <2>4. QED BY <1>0, <2>1, <2>2, <2>3 DEF IInv, TypeOK
<1>4. TypeOK' /\ Alone(p)
  <2>1. pc' \in [Procs -> PCs] /\ open' \in [Pages -> [Ends -> {0, 1}]]
    BY <1>1 DEF IInv, TypeOK, PCs, Own0PCs
  <2>2. Alone(p)
    BY <1>1 DEF IInv, TypeOK, Alone
  <2>3. QED BY <1>1, <1>3, <2>1, <2>2 DEF IInv, TypeOK
<1>5. Frames'
  <2>1. \A h \in Files : file'[h].type = "FD_PIPE" => file'[h].pipe \in Pages
    BY <1>3 DEF IInv, Frames
  <2>2. QED BY <1>1, <1>4, <2>1 DEF IInv, Frames, Alone, ClosePCs, Own0PCs, Own1PCs
<1>6. RefsCounted'
  <2>1. \A h \in Files : Hand(p, h)' = Hand(p, h)
    BY <1>1 DEF Hand, AsF0, AsF1, First, Second, Own0PCs, Own1PCs
  <2>2. \A h \in Files : file'[h].ref = file[h].ref /\ file[h].ref \in Nat
    BY <1>2, <1>3 DEF IInv, TypeOK, FileRec
  <2>3. \A h \in Files : file'[h].ref = file[h].ref - Hand(p, h) + Hand(p, h)'
    BY <2>1, <2>2, HandNat
  <2>4. QED BY <1>1, <1>4, <2>3, RefsSame
<1>7. Blank'
  <2>1. \A h \in Files : file'[h].ref = 0 => file'[h].type = "FD_NONE"
    BY <1>3 DEF IInv, Blank
  <2>2. ASSUME NEW q \in Procs \ {p}
        PROVE  /\ pc[q] \in Own0PCs \ {"fds"} => f0[q] \in Files \ {a, b}
               /\ pc[q] \in Own1PCs \ {"fds"} => f1[q] \in Files \ {a, b}
    BY <1>0, <1>1, Mine DEF IInv, Frames, Own0PCs, Own1PCs
  <2>3. QED BY <1>1, <1>3, <1>4, <2>1, <2>2 DEF IInv, Blank, Alone
<1>8. OneOwner'
  <2>1. p \in Keepers(g)
    BY <1>0, <1>1 DEF Keepers
  <2>2. \A e \in Ends : open[g][e] = 0
    BY <2>1 DEF IInv, OnePage
  <2>3. \A e \in Ends : PipeFiles(g, e) = {} /\ Closers(g, e) = {}
    BY <2>2 DEF IInv, OneOwner
  <2>4. \A h \in Pages, e \in Ends : Closers(h, e)' = Closers(h, e)
    BY <1>1, <1>4 DEF Closers, Alone
  <2>5. \A h \in Pages \ {g}, e \in Ends :
          PipeFiles(h, e)' = PipeFiles(h, e) /\ open'[h][e] = open[h][e]
    <3>1. \A h \in Pages \ {g}, e \in Ends : PipeFiles(h, e)' = PipeFiles(h, e)
      BY <1>2, <1>3 DEF PipeFiles
    <3>2. QED BY <1>1, <3>1 DEF IInv, TypeOK
  <2>6. PipeFiles(g, "read")' = {a} /\ PipeFiles(g, "write")' = {b}
    <3>1. /\ a \in PipeFiles(g, "read")' /\ b \in PipeFiles(g, "write")'
          /\ a \notin PipeFiles(g, "write")' /\ b \notin PipeFiles(g, "read")'
      BY <1>3 DEF PipeFiles
    <3>2. ASSUME NEW e \in Ends, NEW h \in PipeFiles(g, e)' PROVE h \in {a, b}
      BY <1>3, <2>3, <3>2 DEF PipeFiles
    <3>3. QED BY <3>1, <3>2 DEF Ends
  <2>7. \A e \in Ends : open'[g][e] = 1
    BY <1>1 DEF IInv, TypeOK
  <2>8. QED BY <2>3, <2>4, <2>5, <2>6, <2>7 DEF IInv, OneOwner, Ends
<1>9. OnePage'
  <2>1. p \in Keepers(g)
    BY <1>0, <1>1 DEF Keepers
  <2>2. g \in used /\ \A q \in Keepers(g) : q = p
    BY <2>1 DEF IInv, OnePage
  <2>3. Keepers(g)' = {}
    <3>1. ASSUME NEW q \in Keepers(g)' PROVE q = p
      BY <1>4, <2>2, <3>1 DEF Keepers, Alone
    <3>2. p \notin Keepers(g)'
      BY <1>1 DEF Keepers
    <3>3. QED BY <3>1, <3>2
  <2>4. ASSUME NEW h \in Pages \ {g} PROVE Keepers(h)' = Keepers(h) /\ open'[h] = open[h]
    <3>1. p \notin Keepers(h) /\ p \notin Keepers(h)'
      BY <1>0, <1>1 DEF Keepers
    <3>2. Keepers(h)' = Keepers(h)
      BY <1>4, <3>1 DEF Keepers, Alone
    <3>3. QED BY <1>1, <3>2 DEF IInv, TypeOK
  <2>5. \A e \in Ends : open'[g][e] = 1
    BY <1>1 DEF IInv, TypeOK
  <2>6. QED BY <1>1, <2>2, <2>3, <2>4, <2>5 DEF IInv, OnePage, Ends
<1>10. InodeAccounted'
  <2>1. AsCall(p)' = 0 /\ AsCall(p) = 0 /\ \A f \in Files : AsFile(f)' = AsFile(f)
    BY <1>1, <1>2, <1>3 DEF AsCall, AsFile
  <2>2. 0 \in Files
    BY TableAssumption DEF Files
  <2>3. iref' = iref - AsFile(0) + AsFile(0)' - AsCall(p) + AsCall(p)'
    BY <1>1, <2>1, <2>2 DEF IInv, TypeOK, AsFile
  <2>4. QED BY <1>4, <2>1, <2>2, <2>3, InodeMoves
<1>11. QED BY <1>4, <1>5, <1>6, <1>7, <1>8, <1>9, <1>10 DEF IInv

-----------------------------------------------------------------------------
(* The calls that change descriptors                                       *)

\* A file with a descriptor has a reference, and no process has yet to fill it in.
LEMMA Installed ==
  ASSUME IInv, NEW q \in Procs, NEW d \in Fds, NEW f \in Files, ofile[q][d] = f
  PROVE  /\ file[f].ref > 0 /\ file[f].ref \in Nat
         /\ \A p \in Procs : /\ pc[p] \in Own0PCs \ {"fds"} => f0[p] # f
                             /\ pc[p] \in Own1PCs \ {"fds"} => f1[p] # f
<1>1. \A p \in Procs : /\ pc[p] \in Own0PCs \ {"fds"} => f0[p] # f
                       /\ pc[p] \in Own1PCs \ {"fds"} => f1[p] # f
  BY Mine
<1>2. file[f].ref \in Nat /\ file[f].ref = Refs(f)
  BY DEF IInv, TypeOK, FileRec, RefsCounted
<1>3. <<q, d>> \in FdRefs(f)
  BY DEF FdRefs
<1>4. Cardinality(FdRefs(f)) \in Nat /\ Cardinality(FdRefs(f)) # 0
  BY <1>3, FiniteRefs, FS_CardinalityType, FS_EmptySet
<1>5. /\ Cardinality(Own0(f)) \in Nat /\ Cardinality(Own1(f)) \in Nat /\ Cardinality(Due(f)) \in Nat
  BY FiniteRefs, FS_CardinalityType
<1>6. Refs(f) > 0
  BY <1>4, <1>5 DEF Refs
<1>7. QED BY <1>1, <1>2, <1>6

\* What one changed descriptor does to the references.
LEMMA OneFd ==
  ASSUME IInv, NEW q \in Procs, NEW d \in Fds, NEW x, ofile' = [ofile EXCEPT ![q][d] = x],
         NEW f \in Files
  PROVE  /\ Cardinality(FdRefs(f)) \in Nat /\ Cardinality(FdRefs(f)') \in Nat
         /\ Cardinality(FdRefs(f)') =
              Cardinality(FdRefs(f)) - (IF ofile[q][d] = f THEN 1 ELSE 0) + (IF x = f THEN 1 ELSE 0)
<1>1. ofile \in [Procs -> [Fds -> Files \cup {None}]]
  BY DEF IInv, TypeOK
<1>2. /\ ofile'[q][d] = x
      /\ \A r \in Procs, e \in Fds : <<r, e>> # <<q, d>> => ofile'[r][e] = ofile[r][e]
  BY <1>1
<1>3. FdRefs(f) \ {<<q, d>>} = FdRefs(f)' \ {<<q, d>>}
  BY <1>2 DEF FdRefs
<1>4. /\ <<q, d>> \in FdRefs(f) <=> ofile[q][d] = f
      /\ <<q, d>> \in FdRefs(f)' <=> x = f
  BY <1>2 DEF FdRefs
<1>5. \A T : FdRefs(f) \ {<<q, d>>} = T \ {<<q, d>>} =>
         /\ Cardinality(FdRefs(f)) \in Nat /\ Cardinality(T) \in Nat
         /\ Cardinality(T) = Cardinality(FdRefs(f))
              - (IF <<q, d>> \in FdRefs(f) THEN 1 ELSE 0) + (IF <<q, d>> \in T THEN 1 ELSE 0)
  BY FiniteRefs, OneElement
<1>6. QED BY <1>3, <1>4, <1>5

\* fdalloc finds a free descriptor when there is one.
LEMMA FreeFd ==
  ASSUME IInv, NEW p \in Procs, NEW U \in SUBSET Unused(p), U # {}
  PROVE  Min(U) \in U /\ Min(U) \in Fds /\ ofile[p][Min(U)] = None
<1>1. U \in SUBSET Nat
  BY TableAssumption DEF Unused, Fds
<1>2. Min(U) \in U
  BY <1>1, MinElement
<1>3. QED BY <1>2 DEF Unused

\* A free descriptor is no file.
LEMMA NoneIsNoFile == None \notin Files
BY TableAssumption DEF Files

\* The descriptor's reference is handed over to the call, which will fileclose.
LEMMA CloseKeeps ==
  ASSUME IInv, NEW p \in Procs, NEW d \in Fds, Close(p, d)
  PROVE  IInv'
<1>0. PICK x \in Files : x = ofile[p][d]
  BY DEF Close, IInv, TypeOK
<1>1. /\ pc[p] = "idle" /\ todo[p] = <<>> /\ ofile' = [ofile EXCEPT ![p][d] = None]
      /\ pc' = [pc EXCEPT ![p] = "fileclose"] /\ todo' = [todo EXCEPT ![p] = <<x>>]
      /\ UNCHANGED <<file, used, open, iref, f0, f1, p0, ff>>
  <2>1. <<x>> # <<>>
    OBVIOUS
  <2>2. QED BY <1>0, <2>1 DEF Close, CloseAll, Goto, mine, IInv, Frames, ClosePCs
<1>2. pc'[p] = "fileclose" /\ todo'[p] = <<x>>
  BY <1>1 DEF IInv, TypeOK
<1>3. TypeOK' /\ Alone(p)
  <2>1. pc' \in [Procs -> PCs] /\ todo' \in [Procs -> Seq(Files)]
    BY <1>1 DEF IInv, TypeOK, PCs, ClosePCs
  <2>2. ofile' \in [Procs -> [Fds -> Files \cup {None}]]
    BY <1>1 DEF IInv, TypeOK
  <2>3. Alone(p)
    BY <1>1 DEF IInv, TypeOK, Alone
  <2>4. QED BY <1>1, <2>1, <2>2, <2>3 DEF IInv, TypeOK
<1>4. Frames'
  <2>1. Len(<<x>>) <= 2 /\ <<x>> # <<>>
    OBVIOUS
  <2>2. QED BY <1>1, <1>2, <1>3, <2>1 DEF IInv, Frames, Alone, ClosePCs, Own0PCs, Own1PCs
<1>5. RefsCounted'
  <2>1. ASSUME NEW f \in Files
        PROVE  Hand(p, f)' = Hand(p, f) + (IF x = f THEN 1 ELSE 0) /\ Hand(p, f) \in Nat
    <3>1. /\ AsF0(p, f) = 0 /\ AsF1(p, f) = 0 /\ AsF0(p, f)' = 0 /\ AsF1(p, f)' = 0
      BY <1>1, <1>2 DEF AsF0, AsF1, Own0PCs, Own1PCs
    <3>2. First(p, f) = 0 /\ Second(p, f) = 0
      BY <1>1 DEF First, Second
    <3>3. First(p, f)' = (IF x = f THEN 1 ELSE 0) /\ Second(p, f)' = 0
      BY <1>2 DEF First, Second
    <3>4. QED BY <3>1, <3>2, <3>3 DEF Hand
  <2>2. ASSUME NEW f \in Files
        PROVE  file'[f].ref = file[f].ref - Hand(p, f) + Hand(p, f)'
                                - Cardinality(FdRefs(f)) + Cardinality(FdRefs(f)')
    <3>1. /\ Cardinality(FdRefs(f)) \in Nat /\ Cardinality(FdRefs(f)') \in Nat
          /\ Cardinality(FdRefs(f)') =
               Cardinality(FdRefs(f)) - (IF ofile[p][d] = f THEN 1 ELSE 0) + (IF None = f THEN 1 ELSE 0)
      <4>1. ofile' = [ofile EXCEPT ![p][d] = None]
        BY <1>1
      <4>2. QED BY <4>1, OneFd
    <3>2. Cardinality(FdRefs(f)') = Cardinality(FdRefs(f)) - (IF x = f THEN 1 ELSE 0)
      BY <1>0, <3>1, NoneIsNoFile
    <3>3. file'[f].ref = file[f].ref /\ file[f].ref \in Nat
      BY <1>1 DEF IInv, TypeOK, FileRec
    <3>4. QED BY <2>1, <3>1, <3>2, <3>3
  <2>3. QED BY <1>3, <2>2, RefsMove
<1>6. Blank'
  BY <1>1, <1>2, <1>3, BlankKept DEF Own0PCs
<1>7. OneOwner' /\ OnePage'
  <2>1. PipesStay
    BY <1>1 DEF PipesStay
  <2>2. QED BY <1>1, <1>2, <1>3, <2>1, PagesKept DEF PagePCs
<1>8. InodeAccounted'
  <2>1. AsCall(p)' = 0 /\ AsCall(p) = 0 /\ \A f \in Files : AsFile(f)' = AsFile(f)
    BY <1>1, <1>2 DEF AsCall, AsFile
  <2>2. 0 \in Files
    BY TableAssumption DEF Files
  <2>3. iref' = iref - AsFile(0) + AsFile(0)' - AsCall(p) + AsCall(p)'
    BY <1>1, <2>1, <2>2 DEF IInv, TypeOK, AsFile
  <2>4. QED BY <1>3, <2>1, <2>2, <2>3, InodeMoves
<1>9. QED BY <1>3, <1>4, <1>5, <1>6, <1>7, <1>8 DEF IInv

\* A step that changes nothing keeps the invariant.
LEMMA StutterKeeps ==
  ASSUME IInv, UNCHANGED vars
  PROVE  IInv'
<1>1. UNCHANGED <<file, ofile, used, open, iref, pc, f0, f1, p0, todo, ff>>
  BY DEF vars
<1>2. TypeOK' /\ Frames' /\ Blank'
  BY <1>1 DEF IInv, TypeOK, Frames, Blank
<1>3. RefsCounted' /\ InodeAccounted'
  BY <1>1 DEF IInv, RefsCounted, Refs, FdRefs, Own0, Own1, Due, InodeAccounted
<1>4. OneOwner' /\ OnePage'
  BY <1>1 DEF IInv, OneOwner, OnePage, PipeFiles, Closers, Keepers
<1>5. QED BY <1>2, <1>3, <1>4 DEF IInv

\* sys_open takes a file and has a reference to the inode, or fails.
LEMMA OpenKeeps ==
  ASSUME IInv, NEW p \in Procs, Open(p)
  PROVE  IInv'
<1>1. pc[p] = "idle" /\ UNCHANGED <<ofile, used, open, f1, p0, todo, ff>>
  BY DEF Open
<1>2. CASE UNCHANGED <<file, f0, iref, pc>>
  BY <1>1, <1>2, StutterKeeps DEF vars
<1>3. CASE \E f \in Files : /\ filealloc(f) /\ f0' = [f0 EXCEPT ![p] = f]
                            /\ iref' = iref + 1 /\ Goto(p, "openfd")
  <2>1. PICK f \in Files : /\ filealloc(f) /\ f0' = [f0 EXCEPT ![p] = f]
                           /\ iref' = iref + 1 /\ pc' = [pc EXCEPT ![p] = "openfd"]
    BY <1>3 DEF Goto
  <2>2. iref' = IF "openfd" = "openfd" THEN iref + 1 ELSE iref
    BY <2>1
  <2>3. QED BY <1>1, <2>1, <2>2, TakeKeeps
<1>4. QED BY <1>2, <1>3 DEF Open

\* sys_open hands its file over to a descriptor, or closes it and puts the inode.
LEMMA OpenFdKeeps ==
  ASSUME IInv, NEW p \in Procs, OpenFd(p)
  PROVE  IInv'
<1>1. pc[p] = "openfd" /\ UNCHANGED <<used, open, ff>>
  BY DEF OpenFd
<1>2. CASE Leave(p, <<f0[p]>>) /\ iref' = iref - 1 /\ UNCHANGED <<ofile, file>>
  <2>1. AsCall(p) = 1
    BY <1>1 DEF AsCall
  <2>2. QED BY <1>1, <1>2, <2>1, BadKeeps
<1>3. CASE /\ Unused(p) # {} /\ ofile' = [ofile EXCEPT ![p][Min(Unused(p))] = f0[p]]
           /\ file' = [file EXCEPT ![f0[p]] = [@ EXCEPT !.type = "FD_INODE"]]
           /\ Leave(p, <<>>) /\ UNCHANGED iref
  <2>0. PICK a \in Files, d \in Fds : a = f0[p] /\ d = Min(Unused(p)) /\ ofile[p][d] = None
    BY <1>1, <1>3, FreeFd DEF IInv, Frames, Own0PCs
  <2>1. /\ ofile' = [ofile EXCEPT ![p][d] = a] /\ pc' = [pc EXCEPT ![p] = "idle"]
        /\ todo' = [todo EXCEPT ![p] = <<>>] /\ f0' = [f0 EXCEPT ![p] = None]
        /\ f1' = [f1 EXCEPT ![p] = None] /\ p0' = [p0 EXCEPT ![p] = None]
        /\ todo[p] = <<>>
    BY <1>1, <1>3, <2>0 DEF Leave, CloseAll, Goto, IInv, Frames, ClosePCs
  <2>2. pc'[p] = "idle" /\ todo' = todo
    BY <2>1 DEF IInv, TypeOK
  <2>3. file[a].ref = 1 /\ file[a].type = "FD_NONE" /\ file[a] \in FileRec
    BY <1>1, <2>0 DEF IInv, TypeOK, Blank, Own0PCs
  <2>4. /\ file' \in [Files -> FileRec] /\ \A f \in Files \ {a} : file'[f] = file[f]
        /\ file'[a].ref = 1 /\ file'[a].type = "FD_INODE"
    <3> DEFINE r == [file[a] EXCEPT !.type = "FD_INODE"]
    <3>1. r \in FileRec /\ r.ref = 1 /\ r.type = "FD_INODE"
      BY <2>3 DEF FileRec
    <3>2. file' = [file EXCEPT ![a] = r]
      BY <1>3, <2>0
    <3> HIDE DEF r
    <3>3. QED BY <3>1, <3>2 DEF IInv, TypeOK
  <2>5. TypeOK' /\ Alone(p)
    <3>1. pc' \in [Procs -> PCs] /\ todo' \in [Procs -> Seq(Files)] /\ iref' \in Int
      BY <1>3, <2>1, <2>2 DEF IInv, TypeOK, PCs
    <3>2. ofile' \in [Procs -> [Fds -> Files \cup {None}]]
      BY <2>1 DEF IInv, TypeOK
    <3>3. /\ f0' \in [Procs -> Files \cup {None}] /\ f1' \in [Procs -> Files \cup {None}]
          /\ p0' \in [Procs -> Pages \cup {None}]
      BY <2>1 DEF IInv, TypeOK
    <3>4. Alone(p)
      BY <1>1, <2>1 DEF IInv, TypeOK, Alone
    <3>5. QED BY <1>1, <2>4, <3>1, <3>2, <3>3, <3>4 DEF IInv, TypeOK
  <2>6. Frames'
    <3>1. \A f \in Files : file'[f].type = "FD_PIPE" => file'[f].pipe \in Pages
      BY <2>4 DEF IInv, Frames
    <3>2. QED BY <2>1, <2>2, <2>5, <3>1 DEF IInv, Frames, Alone, ClosePCs, Own0PCs, Own1PCs
  <2>7. RefsCounted'
    <3>1. ASSUME NEW f \in Files
          PROVE  Hand(p, f)' = Hand(p, f) - (IF a = f THEN 1 ELSE 0) /\ Hand(p, f) \in Nat
      <4>1. /\ AsF0(p, f) = (IF a = f THEN 1 ELSE 0) /\ AsF1(p, f) = 0
            /\ AsF0(p, f)' = 0 /\ AsF1(p, f)' = 0
        BY <1>1, <2>0, <2>2 DEF AsF0, AsF1, Own0PCs, Own1PCs
      <4>2. First(p, f)' = First(p, f) /\ Second(p, f)' = Second(p, f)
        BY <2>2 DEF First, Second
      <4>3. First(p, f) \in Nat /\ Second(p, f) \in Nat
        BY HandNat
      <4>4. QED BY <4>1, <4>2, <4>3 DEF Hand
    <3>2. ASSUME NEW f \in Files
          PROVE  file'[f].ref = file[f].ref - Hand(p, f) + Hand(p, f)'
                                  - Cardinality(FdRefs(f)) + Cardinality(FdRefs(f)')
      <4>1. /\ Cardinality(FdRefs(f)) \in Nat /\ Cardinality(FdRefs(f)') \in Nat
            /\ Cardinality(FdRefs(f)') =
                 Cardinality(FdRefs(f)) - (IF ofile[p][d] = f THEN 1 ELSE 0) + (IF a = f THEN 1 ELSE 0)
        <5>1. ofile' = [ofile EXCEPT ![p][d] = a]
          BY <2>1
        <5>2. QED BY <5>1, OneFd
      <4>2. Cardinality(FdRefs(f)') = Cardinality(FdRefs(f)) + (IF a = f THEN 1 ELSE 0)
        BY <2>0, <4>1, NoneIsNoFile
      <4>3. file'[f].ref = file[f].ref /\ file[f].ref \in Nat
        BY <2>3, <2>4 DEF IInv, TypeOK, FileRec
      <4>4. QED BY <3>1, <4>1, <4>2, <4>3
    <3>3. QED BY <2>5, <3>2, RefsMove
  <2>8. Blank'
    <3>1. \A f \in Files : file'[f].ref = 0 => file'[f].type = "FD_NONE"
      BY <2>4 DEF IInv, Blank
    <3>2. ASSUME NEW q \in Procs \ {p}
          PROVE  /\ pc[q] \in Own0PCs \ {"fds"} => f0[q] \in Files \ {a}
                 /\ pc[q] \in Own1PCs \ {"fds"} => f1[q] \in Files \ {a}
      BY <1>1, <2>0, Mine DEF IInv, Frames, Own0PCs, Own1PCs
    <3>3. QED BY <2>2, <2>4, <2>5, <3>1, <3>2 DEF IInv, Blank, Alone, Own0PCs, Own1PCs
  <2>9. OneOwner' /\ OnePage'
    <3>1. PipesStay
      BY <2>3, <2>4 DEF PipesStay
    <3>2. QED BY <1>1, <2>2, <2>5, <3>1, PagesKept DEF PagePCs
  <2>10. InodeAccounted'
    <3>1. AsCall(p)' = 0 /\ AsCall(p) = 1
      BY <1>1, <2>2 DEF AsCall
    <3>2. AsFile(a) = 0 /\ AsFile(a)' = 1 /\ \A f \in Files \ {a} : AsFile(f)' = AsFile(f)
      BY <2>3, <2>4 DEF AsFile
    <3>3. iref' = iref - AsFile(a) + AsFile(a)' - AsCall(p) + AsCall(p)'
      BY <1>3, <3>1, <3>2 DEF IInv, TypeOK
    <3>4. QED BY <2>5, <3>2, <3>3, InodeMoves
  <2>11. QED BY <2>5, <2>6, <2>7, <2>8, <2>9, <2>10 DEF IInv
<1>4. QED BY <1>2, <1>3 DEF OpenFd

\* sys_pipe hands its files over to two descriptors, or closes them.
LEMMA PipeFdsKeeps ==
  ASSUME IInv, NEW p \in Procs, PipeFds(p)
  PROVE  IInv'
<1>1. pc[p] = "fds" /\ UNCHANGED <<file, used, open, iref, ff>>
  BY DEF PipeFds
<1>2. CASE Leave(p, <<f0[p], f1[p]>>) /\ UNCHANGED ofile
  <2>1. iref' = iref - AsCall(p)
    BY <1>1 DEF AsCall, IInv, TypeOK
  <2>2. QED BY <1>1, <1>2, <2>1, BadKeeps
<1>3. CASE /\ Cardinality(Unused(p)) >= 2
           /\ ofile' = [ofile EXCEPT ![p][Min(Unused(p))] = f0[p],
                                     ![p][Min(Unused(p) \ {Min(Unused(p))})] = f1[p]]
           /\ Leave(p, <<>>)
  <2>0. PICK a \in Files, b \in Files, d \in Fds, e \in Fds :
          /\ a = f0[p] /\ b = f1[p] /\ d # e /\ ofile[p][d] = None /\ ofile[p][e] = None
          /\ d = Min(Unused(p)) /\ e = Min(Unused(p) \ {d})
    <3>1. f0[p] \in Files /\ f1[p] \in Files
      BY <1>1 DEF IInv, Frames, Own0PCs, Own1PCs
    <3>2. Unused(p) # {}
      <4>1. SUFFICES ASSUME Unused(p) = {} PROVE FALSE
        OBVIOUS
      <4>2. Cardinality(Unused(p)) = 0
        BY <4>1, FS_EmptySet
      <4>3. QED BY <1>3, <4>2
    <3>3. PICK d \in Fds : d = Min(Unused(p)) /\ ofile[p][d] = None
      BY <3>2, FreeFd
    <3>4. Unused(p) \ {d} # {}
      <4>1. SUFFICES ASSUME Unused(p) \ {d} = {} PROVE FALSE
        OBVIOUS
      <4>2. Unused(p) = {d}
        BY <3>2, <4>1
      <4>3. Cardinality(Unused(p)) = 1
        BY <4>2, FS_Singleton
      <4>4. QED BY <1>3, <4>3
    <3>5. PICK U \in SUBSET Unused(p) : U = Unused(p) \ {d}
      OBVIOUS
    <3>6. Min(U) \in U /\ Min(U) \in Fds /\ ofile[p][Min(U)] = None
      BY <3>4, <3>5, FreeFd
    <3>7. QED BY <3>1, <3>3, <3>5, <3>6
  <2>1. /\ ofile' = [ofile EXCEPT ![p][d] = a, ![p][e] = b] /\ pc' = [pc EXCEPT ![p] = "idle"]
        /\ todo' = [todo EXCEPT ![p] = <<>>] /\ f0' = [f0 EXCEPT ![p] = None]
        /\ f1' = [f1 EXCEPT ![p] = None] /\ p0' = [p0 EXCEPT ![p] = None]
        /\ todo[p] = <<>>
    BY <1>1, <1>3, <2>0 DEF Leave, CloseAll, Goto, IInv, Frames, ClosePCs
  <2>2. pc'[p] = "idle" /\ todo' = todo
    BY <2>1 DEF IInv, TypeOK
  <2>3. TypeOK' /\ Alone(p)
    <3>1. pc' \in [Procs -> PCs] /\ todo' \in [Procs -> Seq(Files)]
      BY <2>1, <2>2 DEF IInv, TypeOK, PCs
    <3>2. ofile' \in [Procs -> [Fds -> Files \cup {None}]]
      BY <2>1 DEF IInv, TypeOK
    <3>3. /\ f0' \in [Procs -> Files \cup {None}] /\ f1' \in [Procs -> Files \cup {None}]
          /\ p0' \in [Procs -> Pages \cup {None}]
      BY <2>1 DEF IInv, TypeOK
    <3>4. Alone(p)
      BY <1>1, <2>1 DEF IInv, TypeOK, Alone
    <3>5. QED BY <1>1, <3>1, <3>2, <3>3, <3>4 DEF IInv, TypeOK
  <2>4. Frames'
    BY <1>1, <2>1, <2>2, <2>3 DEF IInv, Frames, Alone, ClosePCs, Own0PCs, Own1PCs
  <2>5. RefsCounted'
    <3>1. ASSUME NEW f \in Files
          PROVE  /\ Hand(p, f)' = Hand(p, f) - (IF a = f THEN 1 ELSE 0) - (IF b = f THEN 1 ELSE 0)
                 /\ Hand(p, f) \in Nat
      <4>1. /\ AsF0(p, f) = (IF a = f THEN 1 ELSE 0) /\ AsF1(p, f) = (IF b = f THEN 1 ELSE 0)
            /\ AsF0(p, f)' = 0 /\ AsF1(p, f)' = 0
        BY <1>1, <2>0, <2>2 DEF AsF0, AsF1, Own0PCs, Own1PCs
      <4>2. First(p, f)' = First(p, f) /\ Second(p, f)' = Second(p, f)
        BY <2>2 DEF First, Second
      <4>3. First(p, f) \in Nat /\ Second(p, f) \in Nat
        BY HandNat
      <4>4. QED BY <4>1, <4>2, <4>3 DEF Hand
    <3>2. ASSUME NEW f \in Files
          PROVE  file'[f].ref = file[f].ref - Hand(p, f) + Hand(p, f)'
                                  - Cardinality(FdRefs(f)) + Cardinality(FdRefs(f)')
      <4>1. /\ ofile'[p][d] = a /\ ofile'[p][e] = b
            /\ \A r \in Procs, c \in Fds : <<r, c>> \notin {<<p, d>>, <<p, e>>} => ofile'[r][c] = ofile[r][c]
        BY <2>0, <2>1 DEF IInv, TypeOK
      <4>2. FdRefs(f) \ {<<p, d>>, <<p, e>>} = FdRefs(f)' \ {<<p, d>>, <<p, e>>}
        BY <4>1 DEF FdRefs
      <4>3. /\ <<p, d>> \notin FdRefs(f) /\ <<p, e>> \notin FdRefs(f)
            /\ <<p, d>> \in FdRefs(f)' <=> a = f
            /\ <<p, e>> \in FdRefs(f)' <=> b = f
        BY <2>0, <4>1, NoneIsNoFile DEF FdRefs
      <4>4. ASSUME NEW x, NEW y, x # y, FdRefs(f) \ {x, y} = FdRefs(f)' \ {x, y}
            PROVE  /\ Cardinality(FdRefs(f)) \in Nat /\ Cardinality(FdRefs(f)') \in Nat
                   /\ Cardinality(FdRefs(f)') = Cardinality(FdRefs(f))
                        - (IF x \in FdRefs(f) THEN 1 ELSE 0) - (IF y \in FdRefs(f) THEN 1 ELSE 0)
                        + (IF x \in FdRefs(f)' THEN 1 ELSE 0) + (IF y \in FdRefs(f)' THEN 1 ELSE 0)
        BY <4>4, FiniteRefs, TwoElements
      <4>5. /\ Cardinality(FdRefs(f)) \in Nat /\ Cardinality(FdRefs(f)') \in Nat
            /\ Cardinality(FdRefs(f)') =
                 Cardinality(FdRefs(f)) + (IF a = f THEN 1 ELSE 0) + (IF b = f THEN 1 ELSE 0)
        <5>1. <<p, d>> # <<p, e>>
          BY <2>0
        <5>2. QED BY <4>2, <4>3, <4>4, <5>1
      <4>6. file'[f].ref = file[f].ref /\ file[f].ref \in Nat
        BY <1>1 DEF IInv, TypeOK, FileRec
      <4>7. QED BY <3>1, <4>5, <4>6
    <3>3. QED BY <2>3, <3>2, RefsMove
  <2>6. Blank'
    BY <1>1, <2>2, <2>3, BlankKept DEF Own0PCs
  <2>7. OneOwner' /\ OnePage'
    <3>1. PipesStay
      BY <1>1 DEF PipesStay
    <3>2. QED BY <1>1, <2>2, <2>3, <3>1, PagesKept DEF PagePCs
  <2>8. InodeAccounted'
    <3>1. AsCall(p)' = 0 /\ AsCall(p) = 0 /\ \A f \in Files : AsFile(f)' = AsFile(f)
      BY <1>1, <2>2 DEF AsCall, AsFile
    <3>2. 0 \in Files
      BY TableAssumption DEF Files
    <3>3. iref' = iref - AsFile(0) + AsFile(0)' - AsCall(p) + AsCall(p)'
      BY <1>1, <3>1, <3>2 DEF IInv, TypeOK, AsFile
    <3>4. QED BY <2>3, <3>1, <3>2, <3>3, InodeMoves
  <2>9. QED BY <2>3, <2>4, <2>5, <2>6, <2>7, <2>8 DEF IInv
<1>4. QED BY <1>1, <1>2, <1>3 DEF PipeFds

\* How often a list, or the descriptors of a process, refer to file f.
Count(fs, f) == Cardinality({d \in DOMAIN fs : fs[d] = f})

\* filedup adds references to files that have one already, and does nothing else.
LEMMA Dupped ==
  ASSUME IInv, NEW fs, filedup(fs), IsFiniteSet(DOMAIN fs),
         NEW p \in Procs, \A d \in DOMAIN fs : \E e \in Fds : ofile[p][e] = fs[d]
  PROVE  /\ file' \in [Files -> FileRec]
         /\ \A f \in Files :
              /\ Count(fs, f) \in Nat /\ file'[f].ref = file[f].ref + Count(fs, f)
              /\ file'[f].type = file[f].type /\ file'[f].pipe = file[f].pipe
              /\ file'[f].end = file[f].end
         /\ PipesStay /\ \A f \in Files : AsFile(f)' = AsFile(f)
         /\ \A q \in Procs : /\ pc[q] \in Own0PCs \ {"fds"} => file'[f0[q]].ref = file[f0[q]].ref
                             /\ pc[q] \in Own1PCs \ {"fds"} => file'[f1[q]].ref = file[f1[q]].ref
<1>1. \A f \in Files : Count(fs, f) \in Nat
  <2>1. \A f \in Files : IsFiniteSet({d \in DOMAIN fs : fs[d] = f})
    <3>1. \A f \in Files : {d \in DOMAIN fs : fs[d] = f} \subseteq DOMAIN fs
      OBVIOUS
    <3>2. QED BY <3>1, FS_Subset
  <2>2. QED BY <2>1, FS_CardinalityType DEF Count
<1>2. file' = [f \in Files |-> [file[f] EXCEPT !.ref = @ + Count(fs, f)]]
  BY DEF filedup, Count
<1>3. ASSUME NEW f \in Files, \A d \in DOMAIN fs : fs[d] # f PROVE Count(fs, f) = 0
  <2>1. {d \in DOMAIN fs : fs[d] = f} = {}
    BY <1>3
  <2>2. QED BY <2>1, FS_EmptySet DEF Count
<1>4. ASSUME NEW f \in Files, \A e \in Fds : ofile[p][e] # f PROVE Count(fs, f) = 0
  BY <1>3, <1>4
<1>5. ASSUME NEW f \in Files
      PROVE  /\ file'[f] \in FileRec /\ file'[f].ref = file[f].ref + Count(fs, f)
             /\ file'[f].type = file[f].type /\ file'[f].pipe = file[f].pipe
             /\ file'[f].end = file[f].end /\ file[f].ref \in Nat
  <2>1. file[f] \in FileRec /\ Count(fs, f) \in Nat
    BY <1>1 DEF IInv, TypeOK
  <2>2. file'[f] = [file[f] EXCEPT !.ref = @ + Count(fs, f)]
    BY <1>2
  <2>3. QED BY <2>1, <2>2 DEF FileRec
<1>6. file' \in [Files -> FileRec]
  BY <1>2, <1>5
<1>7. \A f \in Files : file'[f].ref > 0 <=> file[f].ref > 0
  <2>1. ASSUME NEW f \in Files, file[f].ref = 0 PROVE Count(fs, f) = 0
    <3>1. \A e \in Fds : ofile[p][e] # f
      BY <2>1, Installed
    <3>2. QED BY <3>1, <1>4
  <2>2. QED BY <1>1, <1>5, <2>1
<1>8. PipesStay
  BY <1>5, <1>7 DEF PipesStay
<1>9. \A f \in Files : AsFile(f)' = AsFile(f)
  BY <1>5, <1>7 DEF AsFile
<1>10. ASSUME NEW q \in Procs
       PROVE  /\ pc[q] \in Own0PCs \ {"fds"} => file'[f0[q]].ref = file[f0[q]].ref
              /\ pc[q] \in Own1PCs \ {"fds"} => file'[f1[q]].ref = file[f1[q]].ref
  <2>1. ASSUME NEW f \in Files, \A e \in Fds : ofile[p][e] # f PROVE file'[f].ref = file[f].ref
    BY <1>4, <1>5, <2>1
  <2>2. /\ pc[q] \in Own0PCs \ {"fds"} => f0[q] \in Files /\ \A e \in Fds : ofile[p][e] # f0[q]
        /\ pc[q] \in Own1PCs \ {"fds"} => f1[q] \in Files /\ \A e \in Fds : ofile[p][e] # f1[q]
    BY Mine DEF IInv, Frames
  <2>3. QED BY <2>1, <2>2
<1>11. QED BY <1>1, <1>5, <1>6, <1>8, <1>9, <1>10

\* What dup and fork have in common: the new descriptors are counted by filedup.
LEMMA DupForkKeeps ==
  ASSUME IInv, NEW fs, filedup(fs), IsFiniteSet(DOMAIN fs),
         NEW p \in Procs, \A d \in DOMAIN fs : \E e \in Fds : ofile[p][e] = fs[d],
         ofile' \in [Procs -> [Fds -> Files \cup {None}]],
         \A f \in Files : Cardinality(FdRefs(f)') =
                            Cardinality(FdRefs(f)) + Count(fs, f),
         UNCHANGED <<used, open, iref, pc, mine, todo, ff>>,
         pc[p] = "idle"
  PROVE  IInv'
<1>a. /\ file' \in [Files -> FileRec] /\ PipesStay /\ \A f \in Files : AsFile(f)' = AsFile(f)
      /\ \A q \in Procs : /\ pc[q] \in Own0PCs \ {"fds"} => file'[f0[q]].ref = file[f0[q]].ref
                          /\ pc[q] \in Own1PCs \ {"fds"} => file'[f1[q]].ref = file[f1[q]].ref
  BY Dupped
<1>b. \A f \in Files :
        /\ file'[f].type = file[f].type /\ file'[f].pipe = file[f].pipe
        /\ Count(fs, f) \in Nat /\ file'[f].ref = file[f].ref + Count(fs, f)
  BY Dupped
<1>1. UNCHANGED <<used, open, iref, pc, f0, f1, p0, todo, ff>>
  BY DEF mine
<1>2. TypeOK' /\ Alone(p)
  BY <1>1, <1>a DEF IInv, TypeOK, Alone
<1>3. Frames'
  BY <1>1, <1>b DEF IInv, Frames
<1>4. RefsCounted'
  <2>1. ASSUME NEW f \in Files
        PROVE  file'[f].ref = file[f].ref - Hand(p, f) + Hand(p, f)'
                                - Cardinality(FdRefs(f)) + Cardinality(FdRefs(f)')
    <3>1. Hand(p, f)' = Hand(p, f) /\ Hand(p, f) \in Nat
      BY <1>1, HandNat DEF Hand, AsF0, AsF1, First, Second
    <3>2. Cardinality(FdRefs(f)) \in Nat
      BY FiniteRefs, FS_CardinalityType
    <3>3. file[f].ref \in Nat
      BY DEF IInv, TypeOK, FileRec
    <3>4. PICK k \in Nat : /\ file'[f].ref = file[f].ref + k
                           /\ Cardinality(FdRefs(f)') = Cardinality(FdRefs(f)) + k
      BY <1>b
    <3>5. QED BY <3>1, <3>2, <3>3, <3>4
  <2>2. QED BY <1>2, <2>1, RefsMove
<1>5. Blank'
  <2>1. \A f \in Files : file'[f].ref = 0 => file'[f].type = "FD_NONE"
    <3>1. ASSUME NEW f \in Files, file'[f].ref = 0 PROVE file[f].ref = 0 /\ file'[f].type = file[f].type
      <4>1. file[f].ref \in Nat
        BY DEF IInv, TypeOK, FileRec
      <4>2. PICK k \in Nat : file'[f].ref = file[f].ref + k
        BY <1>b
      <4>3. file[f].ref = 0
        BY <3>1, <4>1, <4>2
      <4>4. QED BY <4>3, <1>b
    <3>2. QED BY <3>1 DEF IInv, Blank
  <2>2. QED BY <1>1, <1>a, <1>b, <2>1 DEF IInv, Blank, Frames
<1>6. OneOwner' /\ OnePage'
  BY <1>1, <1>2, <1>a, PagesKept DEF PagePCs
<1>7. InodeAccounted'
  <2>1. AsCall(p)' = AsCall(p) /\ AsCall(p) = 0
    BY <1>1 DEF AsCall
  <2>2. 0 \in Files
    BY TableAssumption DEF Files
  <2>3. AsFile(0)' = AsFile(0) /\ \A g \in Files \ {0} : AsFile(g)' = AsFile(g)
    BY <2>2, <1>a
  <2>4. iref' = iref - AsFile(0) + AsFile(0)' - AsCall(p) + AsCall(p)'
    BY <1>1, <2>1, <2>3 DEF IInv, TypeOK, AsFile
  <2>5. QED BY <1>2, <2>2, <2>3, <2>4, InodeMoves
<1>8. QED BY <1>2, <1>3, <1>4, <1>5, <1>6, <1>7 DEF IInv

\* dup adds one descriptor and one reference.
LEMMA DupKeeps ==
  ASSUME IInv, NEW p \in Procs, NEW d \in Fds, Dup(p, d)
  PROVE  IInv'
<1>0. PICK x \in Files : x = ofile[p][d]
  BY DEF Dup, IInv, TypeOK
<1>1. PICK e \in Fds : e = Min(Unused(p)) /\ ofile[p][e] = None
  BY FreeFd DEF Dup
<1>2. /\ ofile' = [ofile EXCEPT ![p][e] = x] /\ filedup(<<x>>) /\ pc[p] = "idle"
      /\ UNCHANGED <<used, open, iref, pc, mine, todo, ff>>
  BY <1>0, <1>1 DEF Dup
<1>3. DOMAIN <<x>> = {1} /\ <<x>>[1] = x
  OBVIOUS
<1>4. IsFiniteSet(DOMAIN <<x>>)
  BY <1>3, FS_Singleton
<1>5. ofile' \in [Procs -> [Fds -> Files \cup {None}]]
  BY <1>2 DEF IInv, TypeOK
<1>6. ASSUME NEW f \in Files
      PROVE  Cardinality(FdRefs(f)') =
               Cardinality(FdRefs(f)) + Count(<<x>>, f)
  <2>1. Count(<<x>>, f) = IF x = f THEN 1 ELSE 0
    <3>1. CASE x = f
      <4>1. {k \in DOMAIN <<x>> : <<x>>[k] = f} = {1}
        BY <1>3, <3>1
      <4>2. QED BY <3>1, <4>1, FS_Singleton DEF Count
    <3>2. CASE x # f
      <4>1. {k \in DOMAIN <<x>> : <<x>>[k] = f} = {}
        BY <1>3, <3>2
      <4>2. QED BY <3>2, <4>1, FS_EmptySet DEF Count
    <3>3. QED BY <3>1, <3>2
  <2>2. /\ Cardinality(FdRefs(f)) \in Nat /\ Cardinality(FdRefs(f)') \in Nat
        /\ Cardinality(FdRefs(f)') =
             Cardinality(FdRefs(f)) - (IF ofile[p][e] = f THEN 1 ELSE 0) + (IF x = f THEN 1 ELSE 0)
    <3>1. ofile' = [ofile EXCEPT ![p][e] = x]
      BY <1>2
    <3>2. QED BY <3>1, OneFd
  <2>3. ofile[p][e] # f
    BY <1>1, NoneIsNoFile
  <2>4. QED BY <2>1, <2>2, <2>3
<1>7. \A k \in DOMAIN <<x>> : \E c \in Fds : ofile[p][c] = <<x>>[k]
  BY <1>0, <1>3
<1>8. QED BY <1>2, <1>4, <1>5, <1>6, <1>7, DupForkKeeps

\* fork gives the child the descriptors of its parent, each with a reference.
LEMMA ForkKeeps ==
  ASSUME IInv, NEW p \in Procs, NEW q \in Procs, Fork(p, q)
  PROVE  IInv'
<1>1. /\ ofile' = [ofile EXCEPT ![q] = ofile[p]] /\ filedup(ofile[p]) /\ pc[p] = "idle"
      /\ p # q /\ Unused(q) = Fds /\ UNCHANGED <<used, open, iref, pc, mine, todo, ff>>
  BY DEF Fork
<1>2. ofile[p] \in [Fds -> Files \cup {None}] /\ DOMAIN ofile[p] = Fds
  BY DEF IInv, TypeOK
<1>3. IsFiniteSet(DOMAIN ofile[p])
  <2>1. 0 \in Int /\ NOFILE - 1 \in Int
    BY TableAssumption
  <2>2. QED BY <1>2, <2>1, FS_Interval DEF Fds
<1>4. ofile' \in [Procs -> [Fds -> Files \cup {None}]]
  BY <1>1, <1>2 DEF IInv, TypeOK
<1>5. ASSUME NEW f \in Files
      PROVE  Cardinality(FdRefs(f)') =
               Cardinality(FdRefs(f)) + Count(ofile[p], f)
  <2> DEFINE D == {d \in DOMAIN ofile[p] : ofile[p][d] = f}
             Q == {q} \X D
             R == FdRefs(f)
  <2>1. IsFiniteSet(D) /\ Cardinality(D) \in Nat
    <3>1. D \subseteq DOMAIN ofile[p]
      OBVIOUS
    <3>2. QED BY <1>3, <3>1, FS_Subset, FS_CardinalityType
  <2>2. IsFiniteSet(R) /\ Cardinality(R) \in Nat
    BY FiniteRefs, FS_CardinalityType
  <2>3. FdRefs(f)' = R \cup Q
    <3>1. ofile'[q] = ofile[p] /\ \A r \in Procs \ {q} : ofile'[r] = ofile[r]
      BY <1>1 DEF IInv, TypeOK
    <3>2. \A d \in Fds : ofile[q][d] # f
      BY <1>1, NoneIsNoFile DEF Unused
    <3>3. QED BY <1>2, <3>1, <3>2 DEF FdRefs
  <2>4. R \cap Q = {}
    <3>1. \A d \in Fds : ofile[q][d] # f
      BY <1>1, NoneIsNoFile DEF Unused
    <3>2. QED BY <1>2, <3>1 DEF FdRefs
  <2> HIDE DEF D, R
  <2>5. IsFiniteSet(Q) /\ Cardinality(Q) = Cardinality(D)
    <3>1. IsFiniteSet({q}) /\ Cardinality({q}) = 1
      BY FS_Singleton
    <3>2. IsFiniteSet(Q) /\ Cardinality(Q) = 1 * Cardinality(D)
      BY <2>1, <3>1, FS_Product
    <3>3. QED BY <2>1, <3>2
  <2> HIDE DEF Q
  <2>6. Cardinality(R \cup Q) = Cardinality(R) + Cardinality(Q) - Cardinality(R \cap Q)
    BY <2>2, <2>5, FS_Union
  <2>7. Cardinality(R \cap Q) = 0
    BY <2>4, FS_EmptySet
  <2>8. Cardinality(R \cup Q) = Cardinality(R) + Cardinality(D)
    BY <2>1, <2>2, <2>5, <2>6, <2>7
  <2> USE DEF D, R
  <2>9. QED BY <2>3, <2>8 DEF Count
<1>6. \A d \in DOMAIN ofile[p] : \E e \in Fds : ofile[p][e] = ofile[p][d]
  BY <1>2
<1>7. QED BY <1>1, <1>3, <1>4, <1>5, <1>6, DupForkKeeps

-----------------------------------------------------------------------------
(* The invariant, and what it says                                         *)

\* Nothing is open at the start.
LEMMA InitIInv == Init => IInv
<1> SUFFICES ASSUME Init PROVE IInv
  OBVIOUS
<1>0. Init
  OBVIOUS
<1>1. NoFile \in FileRec /\ NoFile.ref = 0 /\ NoFile.type = "FD_NONE"
  BY DEF NoFile, FileRec, Ends
<1>2. TypeOK
  <2>1. <<>> \in Seq(Files)
    OBVIOUS
  <2>2. QED BY <1>0, <1>1, <2>1 DEF Init, TypeOK, PCs
<1>3. Frames
  <2>1. Len(<<>>) <= 2
    OBVIOUS
  <2>2. QED BY <1>0, <1>1, <2>1 DEF Init, Frames, ClosePCs, Own0PCs, Own1PCs
<1>4. RefsCounted
  <2>1. ASSUME NEW f \in Files
        PROVE  FdRefs(f) = {} /\ Own0(f) = {} /\ Own1(f) = {} /\ Due(f) = {} /\ file[f].ref = 0
    <3>1. FdRefs(f) = {}
      BY <1>0, NoneIsNoFile DEF Init, FdRefs
    <3>2. Own0(f) = {} /\ Own1(f) = {}
      BY <1>0 DEF Init, Own0, Own1
    <3>3. Due(f) = {}
      <4>1. Len(<<>>) = 0 /\ \A k \in 1..2 : ~(k <= 0)
        OBVIOUS
      <4>2. \A x \in Procs \X (1..2) : x[1] \in Procs /\ x[2] \in 1..2
        OBVIOUS
      <4>3. QED BY <1>0, <4>1, <4>2 DEF Init, Due
    <3>4. QED BY <1>0, <1>1, <3>1, <3>2, <3>3 DEF Init
  <2>2. Cardinality({}) = 0
    BY FS_EmptySet
  <2>3. \A f \in Files : Refs(f) = 0
    BY <2>1, <2>2 DEF Refs
  <2>4. QED BY <2>1, <2>3 DEF RefsCounted
<1>5. Blank
  BY <1>0, <1>1 DEF Init, Blank, Own0PCs, Own1PCs
<1>6. OneOwner /\ OnePage
  <2>1. \A g \in Pages, e \in Ends : PipeFiles(g, e) = {} /\ Closers(g, e) = {} /\ open[g][e] = 0
    BY <1>0, <1>1 DEF Init, PipeFiles, Closers
  <2>2. \A g \in Pages : Keepers(g) = {}
    BY <1>0 DEF Init, Keepers
  <2>3. QED BY <1>0, <2>1, <2>2 DEF Init, OneOwner, OnePage
<1>7. InodeAccounted
  <2>1. /\ {f \in Files : file[f].ref > 0 /\ file[f].type = "FD_INODE"} = {}
        /\ {p \in Procs : pc[p] \in {"openfd", "iput"}} = {}
    BY <1>0, <1>1 DEF Init
  <2>2. /\ Cardinality({f \in Files : file[f].ref > 0 /\ file[f].type = "FD_INODE"}) = 0
        /\ Cardinality({p \in Procs : pc[p] \in {"openfd", "iput"}}) = 0
    BY <2>1, FS_EmptySet, Zenon
  <2>3. iref = 0 /\ 0 = 0 + 0
    BY <1>0 DEF Init
  <2>4. QED BY <2>2, <2>3, Zenon DEF InodeAccounted
<1>8. QED BY <1>2, <1>3, <1>4, <1>5, <1>6, <1>7 DEF IInv

\* No step of any process breaks the invariant.
LEMMA NextIInv == IInv /\ [Next]_vars => IInv'
<1> SUFFICES ASSUME IInv, [Next]_vars PROVE IInv'
  OBVIOUS
<1>1. CASE UNCHANGED vars
  BY <1>1, StutterKeeps
<1>2. CASE Next
  <2>1. PICK p \in Procs :
          \/ FileClose(p) \/ PipeClose(p) \/ KFree(p) \/ IPut(p)
          \/ Pipe(p) \/ Alloc0(p) \/ Alloc1(p) \/ KAlloc(p) \/ Fill(p) \/ PipeFds(p)
          \/ Open(p) \/ OpenFd(p)
          \/ \E d \in Fds : Dup(p, d) \/ Close(p, d)
          \/ \E q \in Procs : Fork(p, q)
    BY <1>2 DEF Next
  <2>2. CASE FileClose(p) \/ PipeClose(p) \/ KFree(p) \/ IPut(p)
    BY <2>2, FileCloseKeeps, PipeCloseKeeps, KFreeKeeps, IPutKeeps
  <2>3. CASE Pipe(p) \/ Alloc0(p) \/ Alloc1(p) \/ KAlloc(p) \/ Fill(p) \/ PipeFds(p)
    BY <2>3, PipeKeeps, Alloc0Keeps, Alloc1Keeps, KAllocKeeps, FillKeeps, PipeFdsKeeps
  <2>4. CASE Open(p) \/ OpenFd(p)
    BY <2>4, OpenKeeps, OpenFdKeeps
  <2>5. CASE \E d \in Fds : Dup(p, d) \/ Close(p, d)
    BY <2>5, DupKeeps, CloseKeeps
  <2>6. CASE \E q \in Procs : Fork(p, q)
    BY <2>6, ForkKeeps
  <2>7. QED BY <2>1, <2>2, <2>3, <2>4, <2>5, <2>6
<1>3. QED BY <1>1, <1>2

\* The conjunction that every action keeps holds in every reachable state.
THEOREM Invariance == Spec => []IInv
<1>1. Init => IInv
  BY InitIInv
<1>2. IInv /\ [Next]_vars => IInv'
  BY NextIInv
<1>3. QED BY <1>1, <1>2, PTL DEF Spec

\* A file's ref is the number of descriptors, calls and closes that refer to it, so
\* that neither filedup nor fileclose panics, and a failing call leaves no file
\* behind.
THEOREM RefCounts == Spec => []RefsCounted
<1>1. IInv => RefsCounted
  BY DEF IInv
<1>2. QED BY <1>1, Invariance, PTL

\* iput is called once for every reference sys_open took, failed calls included.
THEOREM InodeRefs == Spec => []InodeAccounted
<1>1. IInv => InodeAccounted
  BY DEF IInv
<1>2. QED BY <1>1, Invariance, PTL

\* An open end of a pipe has one owner, which will close it once, and a closed end
\* has none.
THEOREM EndsOwned == Spec => []EndHasOwner
<1>1. IInv => EndHasOwner
  <2> SUFFICES ASSUME IInv, NEW g \in Pages, NEW e \in Ends
               PROVE  Cardinality(PipeFiles(g, e)) + Cardinality(Closers(g, e)) = open[g][e]
    BY DEF EndHasOwner, IInv, TypeOK
  <2>1. /\ open[g][e] \in {0, 1}
        /\ open[g][e] = 1 <=> PipeFiles(g, e) \cup Closers(g, e) # {}
        /\ \A f, h \in PipeFiles(g, e) : f = h
        /\ \A p, q \in Closers(g, e) : p = q
        /\ PipeFiles(g, e) = {} \/ Closers(g, e) = {}
    BY DEF IInv, TypeOK, OneOwner
  <2>2. QED BY <2>1, OneOfTwo
<1>2. QED BY <1>1, Invariance, PTL

\* A page that pipeclose frees is allocated, is freed once, and no file and no other
\* process refers to it.
THEOREM PageFreedOnce == Spec => []FreedOnce
<1>1. IInv => FreedOnce
  <2> SUFFICES ASSUME IInv, NEW p \in Procs, pc[p] = "kfree"
               PROVE  LET g == ff[p].pipe
                      IN  /\ g \in used
                          /\ \A e \in Ends : PipeFiles(g, e) \cup Closers(g, e) = {}
                          /\ \A q \in Procs \ {p} : pc[q] = "kfree" => ff[q].pipe # g
    BY DEF FreedOnce
  <2>1. PICK g \in Pages : g = ff[p].pipe
    BY DEF IInv, Frames
  <2>2. p \in Keepers(g)
    BY <2>1 DEF Keepers
  <2>3. g \in used /\ (\A e \in Ends : open[g][e] = 0) /\ \A q \in Keepers(g) : q = p
    BY <2>2 DEF IInv, OnePage
  <2>4. \A e \in Ends : PipeFiles(g, e) \cup Closers(g, e) = {}
    BY <2>3 DEF IInv, OneOwner
  <2>5. \A q \in Procs \ {p} : pc[q] = "kfree" => ff[q].pipe # g
    BY <2>3 DEF Keepers
  <2>6. QED BY <2>1, <2>3, <2>4, <2>5
<1>2. QED BY <1>1, Invariance, PTL

\* No page is lost: as long as one is allocated, a file or a process that will free
\* it refers to it.
THEOREM PageNotLost == Spec => []PagesAccounted
<1>1. IInv => PagesAccounted
  <2> SUFFICES ASSUME IInv, NEW g \in used
               PROVE  \/ \E e \in Ends : PipeFiles(g, e) \cup Closers(g, e) # {}
                      \/ \E p \in Procs : \/ pc[p] = "fill" /\ p0[p] = g
                                          \/ pc[p] = "kfree" /\ ff[p].pipe = g
    BY DEF PagesAccounted
  <2>1. g \in Pages
    BY DEF IInv, TypeOK
  <2>2. (\E e \in Ends : open[g][e] = 1) \/ Keepers(g) # {}
    BY <2>1 DEF IInv, OnePage
  <2>3. CASE \E e \in Ends : open[g][e] = 1
    BY <2>1, <2>3 DEF IInv, OneOwner
  <2>4. CASE Keepers(g) # {}
    BY <2>4 DEF Keepers
  <2>5. QED BY <2>2, <2>3, <2>4
<1>2. QED BY <1>1, Invariance, PTL

\* Files that agree but for ref are the same file to a descriptor.
LEMMA SameButRef ==
  ASSUME NEW r \in FileRec, NEW s \in FileRec,
         r.type = s.type, r.pipe = s.pipe, r.end = s.end
  PROVE  [r EXCEPT !.ref = 0] = [s EXCEPT !.ref = 0]
<1>1. /\ r = [ref |-> r.ref, type |-> r.type, pipe |-> r.pipe, end |-> r.end]
      /\ s = [ref |-> s.ref, type |-> s.type, pipe |-> s.pipe, end |-> s.end]
  BY DEF FileRec
<1>2. PICK a, b, t, g, e : /\ r = [ref |-> a, type |-> t, pipe |-> g, end |-> e]
                           /\ s = [ref |-> b, type |-> t, pipe |-> g, end |-> e]
  BY <1>1
<1>3. QED BY <1>2

\* A step changes nothing but ref of a file that has a descriptor: not fileclose,
\* as the descriptor is a reference, and not the filling in of a file, as it has no
\* descriptor yet.
LEMMA OpenFileKept ==
  ASSUME IInv, Next, NEW p \in Procs, NEW d \in Fds, NEW f \in Files, ofile[p][d] = f
  PROVE  file'[f].type = file[f].type /\ file'[f].pipe = file[f].pipe /\ file'[f].end = file[f].end
<1>1. file \in [Files -> FileRec] /\ file[f] \in FileRec
  BY DEF IInv, TypeOK
<1>2. file[f].ref > 0 /\ \A q \in Procs : /\ pc[q] \in Own0PCs \ {"fds"} => f0[q] # f
                                          /\ pc[q] \in Own1PCs \ {"fds"} => f1[q] # f
  BY Installed
<1>3. PICK q \in Procs :
        \/ FileClose(q) \/ PipeClose(q) \/ KFree(q) \/ IPut(q)
        \/ Pipe(q) \/ Alloc0(q) \/ Alloc1(q) \/ KAlloc(q) \/ Fill(q) \/ PipeFds(q)
        \/ Open(q) \/ OpenFd(q)
        \/ \E e \in Fds : Dup(q, e) \/ Close(q, e)
        \/ \E r \in Procs : Fork(q, r)
  BY DEF Next
<1>4. CASE FileClose(q)
  <2>1. PICK h \in Files : h = Head(todo[q]) /\ todo[q][1] = h /\ Len(todo[q]) >= 1
    <3>1. todo[q] \in Seq(Files) /\ todo[q] # <<>> /\ Len(todo[q]) <= 2
      BY <1>4 DEF FileClose, IInv, TypeOK, Frames
    <3>2. /\ Head(todo[q]) \in Files /\ todo[q][1] = Head(todo[q])
          /\ Len(todo[q]) = 1 \/ Len(todo[q]) = 2
      BY <3>1, HeadRest
    <3>3. \A k \in {1, 2} : k >= 1
      OBVIOUS
    <3>4. QED BY <3>2, <3>3, Zenon
  <2>2. CASE h # f
    <3>1. file'[f] = file[f]
      <4>1. file' = [file EXCEPT ![h].ref = @ - 1] \/ file' = [file EXCEPT ![h] = ClosedFile(@)]
        BY <1>4, <2>1 DEF FileClose
      <4>2. QED BY <1>1, <2>2, <4>1
    <3>2. QED BY <3>1
  <2>3. CASE h = f
    <3>1. First(q, f) = 1
      BY <2>1, <2>3 DEF First
    <3>2. Hand(q, f) >= 1
      BY <3>1, HandNat DEF Hand
    <3>3. ~(file[f].ref <= 1)
      BY <3>2, Sole
    <3>4. file[f].ref > 1
      BY <1>1, <3>3 DEF FileRec
    <3>5. file' = [file EXCEPT ![f].ref = @ - 1]
      BY <1>4, <2>1, <2>3, <3>4 DEF FileClose
    <3>6. file'[f] = [file[f] EXCEPT !.ref = @ - 1]
      BY <1>1, <3>5
    <3>7. QED BY <1>1, <3>6 DEF FileRec
  <2>4. QED BY <2>2, <2>3
<1>5. CASE UNCHANGED file
  BY <1>5
<1>6. CASE \E h \in Files : filealloc(h)
  <2>1. PICK h \in Files : filealloc(h)
    BY <1>6
  <2>2. file' = [file EXCEPT ![h].ref = 1]
    BY <2>1 DEF filealloc
  <2>3. QED BY <1>1, <2>2 DEF FileRec
<1>7. CASE Fill(q)
  <2>1. f # f0[q] /\ f # f1[q]
    BY <1>2, <1>7 DEF Fill, Own0PCs, Own1PCs
  <2>2. file'[f] = file[f]
    BY <1>1, <1>7, <2>1 DEF Fill
  <2>3. QED BY <2>2
<1>8. CASE OpenFd(q)
  <2>1. f # f0[q]
    BY <1>2, <1>8 DEF OpenFd, Own0PCs
  <2>2. file'[f] = file[f]
    BY <1>1, <1>8, <2>1 DEF OpenFd
  <2>3. QED BY <2>2
<1>9. CASE \E fs : filedup(fs)
  <2>1. PICK k : file'[f] = [file[f] EXCEPT !.ref = @ + k]
    BY <1>9 DEF filedup
  <2>2. QED BY <1>1, <2>1 DEF FileRec
<1>10. QED
  <2>1. CASE PipeClose(q) \/ KFree(q) \/ IPut(q) \/ Pipe(q) \/ KAlloc(q) \/ PipeFds(q)
             \/ \E e \in Fds : Close(q, e)
    BY <1>5, <2>1 DEF PipeClose, KFree, IPut, Pipe, KAlloc, PipeFds, Close
  <2>2. CASE Alloc0(q) \/ Alloc1(q) \/ Open(q)
    BY <1>5, <1>6, <2>2 DEF Alloc0, Alloc1, Open
  <2>3. CASE (\E e \in Fds : Dup(q, e)) \/ (\E r \in Procs : Fork(q, r))
    BY <1>9, <2>3 DEF Dup, Fork
  <2>4. QED BY <1>3, <1>4, <1>7, <1>8, <2>1, <2>2, <2>3

\* What an open descriptor refers to stays the same, whatever other processes open
\* and close.
THEOREM DescriptorsSteady == Spec => Steady
<1>1. ASSUME IInv, IInv', [Next]_vars
      PROVE  [\A p \in Procs, d \in Fds :
                ofile[p][d] # None /\ ofile'[p][d] = ofile[p][d] =>
                  LET f == ofile[p][d]
                  IN  [file'[f] EXCEPT !.ref = 0] = [file[f] EXCEPT !.ref = 0]]_vars
  <2>1. CASE UNCHANGED vars
    BY <2>1
  <2>2. CASE Next
    <3>1. ASSUME NEW p \in Procs, NEW d \in Fds, ofile[p][d] # None
          PROVE  [file'[ofile[p][d]] EXCEPT !.ref = 0] = [file[ofile[p][d]] EXCEPT !.ref = 0]
      <4>1. PICK f \in Files : f = ofile[p][d]
        BY <1>1, <3>1 DEF IInv, TypeOK
      <4>2. file[f] \in FileRec /\ file'[f] \in FileRec
        BY <1>1 DEF IInv, TypeOK
      <4>3. /\ file'[f].type = file[f].type /\ file'[f].pipe = file[f].pipe
            /\ file'[f].end = file[f].end
        BY <1>1, <2>2, <4>1, OpenFileKept
      <4>4. QED BY <4>1, <4>2, <4>3, SameButRef
    <3>2. QED BY <3>1
  <2>3. QED BY <1>1, <2>1, <2>2
<1>2. QED BY <1>1, Invariance, PTL DEF Spec, Steady
=============================================================================
