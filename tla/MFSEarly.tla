------------------------------- MODULE MFSEarly -------------------------------
(***************************************************************************)
(* The first version of the file server, P4/server.c, with its library     *)
(* P4/libmfs.c.  Its image is that of P4-test, whose module MFSLog this    *)
(* one reuses; the handlers differ.  One client calls the library over UDP *)
(* that loses datagrams, and the server may die and be started again.      *)
(***************************************************************************)
EXTENDS MFSLog

CONSTANTS MaxCalls,   \* bound: calls the client makes
          MaxCrashes  \* bound: crashes of the server

VARIABLES
  disk,     \* the image
  up,       \* whether the server runs
  net,      \* the datagram on its way: "request", "reply" or "none"
  pc,       \* the client is "idle", waits in "select", or in "block" with no timeout
  msg,      \* msg of the call
  written,  \* history: [<<inode, block>> -> what the last MFS_Write put there]
  calls,    \* calls made
  crashes   \* crashes so far

vars == <<disk, up, net, pc, msg, written, calls, crashes>>

-----------------------------------------------------------------------------
(* The handlers of P4/server.c                                             *)

\* load_mem
all_inodes(d) == InodeLoc(d)

\* As in P4-test, the search runs through unused block pointers.
server_Lookup(d, p, nm) == server_lookup(d, p, nm)
server_Stat(d, k) == server_stat(d, k)

\* A block in use is written where it is.  A new one is entered in the inode at the
\* old end of the log and written at the new one.
server_Write(d, k, v, b) ==
  IF ~IsFile(d, k) \/ b \notin Blocks THEN Reply(None)
  ELSE
    LET ino == Inode(d, k)
        at  == all_inodes(d)[k]
        end == CR(d).end
    IN  IF ino.block_loc[b] # None
          THEN [ret    |-> 0,
                writes |-> << <<at, One(ino)>>, <<ino.block_loc[b], DataBlock(v)>> >>]
          ELSE [ret    |-> 0,
                writes |-> << <<0, One(CRCell(CR(d).imap, end + DIRENTS))>>,
                              <<at, One([ino EXCEPT !.size = @ + 1, !.block_loc[b] = end])>>,
                              <<end + DIRENTS, DataBlock(v)>> >>]

\* For an unused block lseek to -1 fails, and read goes on behind the inode.
server_Read(d, k, b) ==
  IF ~IsInode(d, k) \/ b \notin Blocks THEN [ret |-> None, data |-> Junk]
  ELSE LET loc == Inode(d, k).block_loc[b]
       IN  [ret |-> 0, data |-> BlockAt(d, IF loc = None THEN all_inodes(d)[k] + 1 ELSE loc)]

\* Same writes, in the same order, as in P4-test.
create_Inode(d, p, type) == create_inode_imap(d, p, type)

\* The parent inode is read at `index', the address of a C library function: far
\* behind the end of the image, so that parentInode is what the stack holds.  It
\* may be no directory, zeros, or an inode an earlier call has read.  Its size is
\* bounded by 3670016, half the blocks.
Leftovers(d) ==
  {InodeCell(MFS_REGULAR_FILE, 0, [b \in Blocks |-> None]),
   InodeCell(MFS_DIRECTORY, 0, [b \in Blocks |-> 0])}
    \cup {d[a] : a \in {a \in DOMAIN d : d[a].kind = "inode"}}

server_Creat(d, p, type, nm, parentInode) ==
  IF server_Lookup(d, p, nm) >= 0 THEN Reply(0)
  ELSE IF parentInode.type # MFS_DIRECTORY \/ parentInode.size >= (BLOCKS \div 2) * DIRENTS
    THEN Reply(None)
  ELSE
    LET new  == create_Inode(d, p, type)
        b    == parentInode.size \div DIRENTS
        j    == parentInode.size % DIRENTS
        full == j = 0
        loc  == IF full THEN new.cr.end ELSE parentInode.block_loc[b]
        cr   == CRCell(new.cr.imap, new.cr.end + DIRENTS)
        ino  == [parentInode EXCEPT !.size = @ + 1, !.block_loc[b] = loc]
    IN  [ret    |-> 0,
         writes |-> new.writes
                    \o (IF full THEN << <<loc, FreeBlock>>, <<0, One(cr)>> >> ELSE <<>>)
                    \o << <<all_inodes(d)[p], One(ino)>>, <<loc + j, One(EntCell(nm, new.inum))>> >>]

server_Unlink(d, p, nm) == Reply(0)

\* What set_return_number may do with message m.
Handle(d, m) ==
  CASE m.lib = "LOOKUP" -> {Reply(server_Lookup(d, m.pinum, m.name))}
    [] m.lib = "STAT"   -> {Reply(server_Stat(d, m.inum).ret)}
    [] m.lib = "READ"   -> {Reply(server_Read(d, m.inum, m.block))}
    [] m.lib = "WRITE"  -> {server_Write(d, m.inum, m.buffer, m.block)}
    [] m.lib = "CREAT"  -> {server_Creat(d, m.pinum, m.type, m.name, ino) : ino \in Leftovers(d)}
    [] m.lib = "UNLINK" -> {server_Unlink(d, m.pinum, m.name)}

-----------------------------------------------------------------------------
(* The library, the network and the server                                 *)

Init ==
  /\ disk = Image /\ up = TRUE /\ net = "none" /\ pc = "idle" /\ msg = [lib |-> "NONE"]
  /\ written = [x \in {} |-> None] /\ calls = 0 /\ crashes = 0

\* The root, and what MFS_Lookup of a name in it returns.
Numbers == {k \in {0} \cup {server_Lookup(disk, 0, nm) : nm \in Names} : IsInode(disk, k)}
Requests ==
  {[lib |-> "LOOKUP", pinum |-> 0, name |-> nm] : nm \in Names}
  \cup {[lib |-> "STAT", inum |-> k] : k \in Numbers}
  \cup {[lib |-> "READ", inum |-> k, block |-> b] : k \in Numbers, b \in Blocks}
  \cup {[lib |-> "WRITE", inum |-> k, block |-> b, buffer |-> v] :
          k \in Numbers, b \in Blocks, v \in Data}
  \cup {[lib |-> "CREAT", pinum |-> k, type |-> t, name |-> nm] :
          k \in Numbers, t \in {MFS_DIRECTORY, MFS_REGULAR_FILE}, nm \in Names}
  \cup {[lib |-> "UNLINK", pinum |-> 0, name |-> nm] : nm \in Names}
  \cup {[lib |-> "SHUTDOWN"]}

Call(m) ==
  /\ pc = "idle" /\ calls < MaxCalls
  /\ pc' = IF m.lib = "SHUTDOWN" THEN "block" ELSE "select"
  /\ msg' = m /\ net' = "request"
  /\ calls' = calls + 1
  /\ UNCHANGED <<disk, up, written, crashes>>

\* select returned 0 after 5 seconds: the loop sends the message again.
Timeout ==
  /\ pc = "select" /\ net = "none"
  /\ net' = "request"
  /\ UNCHANGED <<disk, up, pc, msg, written, calls, crashes>>

\* The reply is in msg.
Receive ==
  /\ net = "reply"
  /\ net' = "none" /\ pc' = "idle" /\ msg' = [lib |-> "NONE"]
  /\ written' = IF msg.lib = "WRITE" /\ msg.ret = 0
                  THEN [x \in DOMAIN written \cup {<<msg.inum, msg.block>>} |->
                          IF x = <<msg.inum, msg.block>> THEN msg.buffer ELSE written[x]]
                  ELSE written
  /\ UNCHANGED <<disk, up, calls, crashes>>

Serve ==
  /\ up /\ net = "request" /\ msg.lib # "SHUTDOWN"
  /\ \E h \in Handle(disk, msg) :
       /\ disk' = Whole(disk, h)
       /\ msg' = [n \in DOMAIN msg \cup {"ret"} |-> IF n = "ret" THEN h.ret ELSE msg[n]]
  /\ net' = "reply"
  /\ UNCHANGED <<up, pc, written, calls, crashes>>

\* The reply goes to the global sd, which nobody sets, as main has its own: it is
\* lost, and MFS_Shutdown waits for ever.
Shutdown ==
  /\ up /\ net = "request" /\ msg.lib = "SHUTDOWN"
  /\ up' = FALSE /\ net' = "none"
  /\ UNCHANGED <<disk, pc, msg, written, calls, crashes>>

Lose ==
  /\ net # "none" /\ net' = "none"
  /\ UNCHANGED <<disk, up, pc, msg, written, calls, crashes>>

\* The server dies after some of the writes; init_image finds the image.
Crash ==
  /\ up /\ net = "request" /\ msg.lib # "SHUTDOWN" /\ crashes < MaxCrashes
  /\ \E h \in Handle(disk, msg) : \E n \in 0..Len(h.writes) : disk' = After(disk, h.writes, n)
  /\ net' = "none" /\ crashes' = crashes + 1
  /\ UNCHANGED <<up, pc, msg, written, calls>>

Next == (\E m \in Requests : Call(m)) \/ Timeout \/ Receive \/ Serve \/ Shutdown \/ Lose \/ Crash

Spec == Init /\ [][Next]_vars

-----------------------------------------------------------------------------
(* Properties                                                              *)

\* MFS_Read of a block that MFS_Write has put there returns what was written, as
\* P4/client.c compares the two.
ReadsBack ==
  \A x \in DOMAIN written :
    net = "reply" /\ msg.lib = "READ" /\ <<msg.inum, msg.block>> = x =>
      msg.ret = [ret |-> 0, data |-> written[x]]
=============================================================================
