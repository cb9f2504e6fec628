------------------------------ MODULE MFSTree ------------------------------
(***************************************************************************)
(* What the file server promises: a tree of named directories and files in *)
(* which a call takes effect at once or not at all.                        *)
(***************************************************************************)
EXTENDS Integers

CONSTANTS Names, Data, Inums, Blocks, Junk

VARIABLES
  entries,  \* the tree: records [dir, name, inum, isdir]; the root is inode 0
  content   \* [<<inode, block>> -> what the block holds], the blocks that exist

treevars == <<entries, content>>

Init == entries = {} /\ content = <<>>

IsDirectory(p) == p = 0 \/ \E e \in entries : e.inum = p /\ e.isdir

\* The content with block x, in which nobody has written.
Added(x) == [y \in DOMAIN content \cup {x} |-> IF y = x THEN Junk ELSE content[y]]

\* A name that is new in its directory, for an inode that had no name.
Creat(e) ==
  /\ entries' = entries \cup {e}
  /\ IsDirectory(e.dir) /\ e.name \in Names
  /\ ~ \E f \in entries : (f.dir = e.dir /\ f.name = e.name) \/ f.inum = e.inum
  /\ e.inum \in Inums \ {0}
  /\ content' = IF e.isdir THEN content ELSE Added(<<e.inum, 0>>)

\* A block that is about to be written for the first time exists before its
\* content does.
Grow(x) ==
  /\ \E e \in entries : e.inum = x[1] /\ ~e.isdir
  /\ x[2] \in Blocks
  /\ content' = Added(x)
  /\ UNCHANGED entries

Write(x, v) ==
  /\ content' = [content EXCEPT ![x] = v]
  /\ UNCHANGED entries

\* A file that is being unlinked loses its content before its name, and keeps
\* the name when the server dies between the two.
Erase(x) ==
  /\ content' = [content EXCEPT ![x] = Junk]
  /\ UNCHANGED entries

\* A name goes with what it names; a directory must be empty.
Unlink(e) ==
  /\ entries' = entries \ {e}
  /\ ~ \E f \in entries : f.dir = e.inum
  /\ content' = [x \in {x \in DOMAIN content : x[1] # e.inum} |-> content[x]]

Next ==
  \/ \E e \in entries' \ entries : Creat(e)
  \/ \E x \in DOMAIN content' \ DOMAIN content : Grow(x)
  \/ \E x \in DOMAIN content \cap DOMAIN content' : content'[x] \in Data /\ Write(x, content'[x])
  \/ \E x \in DOMAIN content : Erase(x)
  \/ \E e \in entries \ entries' : Unlink(e)

Spec == Init /\ [][Next]_treevars
=============================================================================
