-------------------------------- MODULE MFSRpc --------------------------------
(***************************************************************************)
(* The client library P4-test/libmfs.c and the server of P4-test/server.c  *)
(* over UDP.  A client sends the request and waits 5 seconds for any       *)
(* datagram; when none comes it sends the request again.  Requests and     *)
(* replies carry no number, so that neither side recognizes a copy.        *)
(*                                                                         *)
(* The server executes one request at a time, so its handlers, the         *)
(* operators of MFSLog, are one step here; a crash leaves a prefix of the  *)
(* writes of the request being executed (MFSServer has the steps between). *)
(***************************************************************************)
EXTENDS MFSLog, Bags, TLC

CONSTANTS Clients,    \* processes linked with libmfs
          Requests,   \* [client |-> the requests it makes]
          Late,       \* whether a datagram may still be on its way after 5 s
          MaxCopies,  \* bound: datagrams of one client in flight
          Loads       \* bounds: records of the calls of each client and the crashes

ASSUME RpcAssumption ==
  /\ Late \in BOOLEAN /\ MaxCopies \in Nat \ {0}
  /\ DOMAIN Requests = Clients
  /\ \A b \in Loads : b.calls \in [Clients -> Nat] /\ b.crashes \in Nat

VARIABLES
  disk,     \* the image
  up,       \* whether the server runs
  net,      \* datagrams on their way: a bag
  pc,       \* whether a client is out of the library, waits with a timeout, or without
  msg,      \* msg of its last call
  answer,   \* what the call returned
  seq,      \* history: calls it has made
  expect,   \* history: what the call may return and leave, were it executed once
  others,   \* history: requests of other clients' calls that overlap the call
  shrunk,   \* history: an UNLINK has reset the size of the root
  spoiled,  \* history: and a CREAT has put its entry over another by that size
  crashes   \* crashes so far

vars == <<disk, up, net, pc, msg, answer, seq, expect, others, shrunk, spoiled, crashes>>

\* `seq' is not in the datagram: it tells the properties which call it is of.
Request(c) == [to |-> "server", client |-> c, seq |-> seq[c], msg |-> msg[c]]
Answered(q, r) ==
  [to |-> "client", client |-> q.client, seq |-> q.seq, msg |-> [lib |-> q.msg.lib, ret |-> r]]

OfClient(c) == {x \in BagToSet(net) : x.client = c}
InFlight(c) == BagCardinality([x \in OfClient(c) |-> net[x]])

-----------------------------------------------------------------------------
(* set_return_number: the reply to a request, a sequence of the return     *)
(* number and what comes with it, and the writes it makes; the set of what *)
(* the server may do.                                                      *)

StatReply(s) == IF s.ret = None THEN <<None>> ELSE <<0, s.type, s.size>>
ReadReply(r) == IF r.ret = None THEN <<None>> ELSE <<0, r.data>>
Changes(h)   == [ret |-> <<h.ret>>, writes |-> h.writes]

Handle(d, m) ==
  CASE m.lib = "LOOKUP"   -> {Reply(<<server_lookup(d, m.pinum, m.name)>>)}
    [] m.lib = "STAT"     -> {Reply(StatReply(server_stat(d, m.inum)))}
    [] m.lib = "READ"     -> {Reply(ReadReply(server_read(d, m.inum, m.block)))}
    [] m.lib = "WRITE"    -> {Changes(server_write(d, m.inum, m.buffer, m.block))}
    [] m.lib = "CREAT"    -> {Changes(server_create(d, m.pinum, m.type, m.name))}
    [] m.lib = "UNLINK"   -> {Changes(h) : h \in server_unlink(d, m.pinum, m.name)}
    [] m.lib = "SHUTDOWN" -> {Reply(<<0>>)}

\* What clients can see of an image below the root.
Seen(d) ==
  [nm \in Names |->
     LET k == server_lookup(d, 0, nm)
     IN  [stat |-> server_stat(d, k), data |-> [b \in Blocks |-> server_read(d, k, b)]]]

\* What a call is about: the name it is given, or the block or inode.
Named(m) == m.lib \in {"LOOKUP", "CREAT", "UNLINK"}
Own(d, m) ==
  CASE Named(m) -> server_stat(d, server_lookup(d, m.pinum, m.name)).ret
    [] m.lib \in {"READ", "WRITE"} -> server_read(d, m.inum, m.block)
    [] m.lib = "STAT" -> server_stat(d, m.inum)
    [] m.lib = "SHUTDOWN" -> 0

\* What call m may return and leave, and the names that what is no entry reads as
\* to a search when the call is made.
Outcome(h, d, m) ==
  LET e == Whole(d, h)
  IN  [ret |-> h.ret, seen |-> Seen(e), own |-> Own(e, m),
       alike |-> {EntryAt(d, a).name : a \in {a \in DOMAIN d : ~IsEntry(d, a)}}]

\* One of the bounds allows n calls of the clients and k crashes.
Within(n, k) ==
  \E b \in Loads : k <= b.crashes /\ \A c \in Clients : n[c] <= b.calls[c]

NoCall == [lib |-> "NONE"]

Init ==
  /\ disk = Image /\ up = TRUE /\ net = EmptyBag
  /\ pc = [c \in Clients |-> "idle"]
  /\ msg = [c \in Clients |-> NoCall]
  /\ answer = [c \in Clients |-> <<>>]
  /\ seq = [c \in Clients |-> 0]
  /\ expect = [c \in Clients |-> {}]
  /\ others = [c \in Clients |-> {}] /\ shrunk = FALSE /\ spoiled = FALSE
  /\ crashes = 0

-----------------------------------------------------------------------------
(* The client                                                              *)

\* Inode numbers come from MFS_Lookup: that of a name, or its -1.
Learnt(k) == \E nm \in Names : server_lookup(disk, 0, nm) = k

Call(c, m) ==
  /\ pc[c] = "idle" /\ Within([seq EXCEPT ![c] = @ + 1], crashes)
  /\ "inum" \in DOMAIN m => Learnt(m.inum)
  /\ pc' = [pc EXCEPT ![c] = IF m.lib = "SHUTDOWN" THEN "block" ELSE "select"]
  /\ msg' = [msg EXCEPT ![c] = m]
  /\ answer' = [answer EXCEPT ![c] = <<>>]
  /\ seq' = [seq EXCEPT ![c] = @ + 1]
  /\ expect' = [expect EXCEPT ![c] = {Outcome(h, disk, m) : h \in Handle(disk, m)}]
  /\ others' = [d \in Clients |->
                  IF d = c THEN {msg[e] : e \in {e \in Clients : pc[e] # "idle"}}
                  ELSE IF pc[d] = "idle" THEN {} ELSE others[d] \cup {m}]
  /\ net' = net (+) SetToBag({Request(c)'})
  /\ UNCHANGED <<disk, up, shrunk, spoiled, crashes>>

ExpiredEarly(c) == TRUE          \* variant: a timeout shorter than a round trip
NeverAgain(c) == FALSE           \* variant: no loop, as in MFS_Shutdown
Expired(c) == Late \/ OfClient(c) = {}

\* select returned 0: the loop sends the message again.
Timeout(c) ==
  /\ pc[c] = "select" /\ Expired(c) /\ InFlight(c) < MaxCopies
  /\ net' = net (+) SetToBag({Request(c)})
  /\ UNCHANGED <<disk, up, pc, msg, answer, seq, expect, others, shrunk, spoiled, crashes>>

\* UDP_Read: whatever arrives is the reply, to this call or to an earlier one.
Receive(c) ==
  /\ pc[c] \in {"select", "block"}
  /\ \E x \in OfClient(c) :
       /\ x.to = "client"
       /\ net' = net (-) SetToBag({x})
       /\ answer' = [answer EXCEPT ![c] = x.msg.ret]
  /\ pc' = [pc EXCEPT ![c] = "idle"]
  /\ msg' = [msg EXCEPT ![c] = NoCall]
  /\ expect' = [expect EXCEPT ![c] = {}]
  /\ others' = [others EXCEPT ![c] = {}]
  /\ UNCHANGED <<disk, up, seq, shrunk, spoiled, crashes>>

-----------------------------------------------------------------------------
(* The server                                                              *)

\* The slot CREAT would take, by the size of the root, holds an entry.
Overwrites(m) ==
  /\ m.lib = "CREAT" /\ ~Exists(disk, 0, m.name)
  /\ \E addr \in {OwnAddr(Inode(disk, 0))} :
       /\ Inode(disk, 0).size \in DOMAIN addr
       /\ disk[addr[Inode(disk, 0).size]].name \in Names

Sized(m) ==
  /\ shrunk' = (shrunk \/ m.lib = "UNLINK")
  /\ spoiled' = (spoiled \/ (shrunk /\ Overwrites(m)))

Serve(c) ==
  /\ up
  /\ \E q \in OfClient(c) :
       /\ q.to = "server"
       /\ \E h \in Handle(disk, q.msg) :
            /\ disk' = Whole(disk, h)
            /\ net' = (net (-) SetToBag({q})) (+) SetToBag({Answered(q, h.ret)})
       /\ up' = (q.msg.lib # "SHUTDOWN")
       /\ Sized(q.msg)
  /\ UNCHANGED <<pc, msg, answer, seq, expect, others, crashes>>

\* The process dies after some or all of the writes and is started again.
AnsweredFirst(q) == SetToBag({Answered(q, h.ret) : h \in Handle(disk, q.msg)})   \* variant: reply before the writes
Unanswered(q) == EmptyBag
Crash(c) ==
  /\ up /\ Within(seq, crashes + 1)
  /\ \E q \in OfClient(c) :
       /\ q.to = "server"
       /\ \E h \in Handle(disk, q.msg) :
            \E k \in 0..Len(h.writes) : disk' = After(disk, h.writes, k)
       /\ net' = (net (-) SetToBag({q})) (+) Unanswered(q)
       /\ Sized(q.msg)
  /\ crashes' = crashes + 1
  /\ UNCHANGED <<up, pc, msg, answer, seq, expect, others>>

\* The network drops a datagram.
Lose ==
  /\ \E x \in BagToSet(net) : net' = net (-) SetToBag({x})
  /\ UNCHANGED <<disk, up, pc, msg, answer, seq, expect, others, shrunk, spoiled, crashes>>

Next ==
  \/ \E c \in Clients :
       \/ \E m \in Requests[c] : Call(c, m)
       \/ Timeout(c) \/ Receive(c) \/ Serve(c) \/ Crash(c)
  \/ Lose

Spec == Init /\ [][Next]_vars

\* SF_net(Serve(c)), with its ENABLED written out.
CanServe(c) == up /\ \E q \in OfClient(c) : q.to = "server"
ServeFairly(c) == []<>CanServe(c) => []<><<Serve(c)>>_net

\* Timers expire, the server takes what arrives, and a datagram that is sent
\* again and again arrives in the end.  Whether to make a call is up to the
\* client.
FairSpec ==
  /\ Spec
  /\ \A c \in Clients : WF_net(Timeout(c)) /\ ServeFairly(c) /\ SF_net(Receive(c))

-----------------------------------------------------------------------------
(* Properties                                                              *)

\* A request that is executed again, because its reply was lost, changes
\* nothing and is answered the same way: the server needs no memory of requests.
Repeatable ==
  \A c \in Clients : pc[c] = "select" =>
    \A h \in Handle(disk, msg[c]) : \A once \in {Whole(disk, h)} :
      \A again \in Handle(once, msg[c]) :
        /\ Whole(once, again) = once
        /\ again.ret = h.ret

\* Every datagram on its way belongs to the call its client is in, so that what a
\* client takes for the reply is the reply: no copy of a request or of a reply
\* survives the call.
NoneStale ==
  \A x \in BagToSet(net) : pc[x.client] # "idle" /\ x.seq = seq[x.client]

\* A call that no other client's call overlaps returns what it would return, and
\* leaves what it would leave, if it were executed once at the moment it is made,
\* however many requests and replies are lost and whenever the server crashes; as
\* long as no CREAT has put its entry over another, by a size UNLINK has reset.
OnceAtReturn ==
  [][\A c \in Clients :
       pc[c] # "idle" /\ pc'[c] = "idle" /\ others[c] = {} /\ ~spoiled =>
         \E e \in expect[c] : answer'[c] = e.ret /\ Seen(disk) = e.seen]_vars

\* Request n of another client is about what client c's call is about, or stores
\* or may erase data that reads as an entry of the name c's call is given.
Disturbs(n, c) ==
  IF Named(msg[c])
    THEN \/ Named(n) /\ n.name = msg[c].name
         \/ n.lib = "WRITE" /\ AsEntry(DataCell(n.buffer)).name = msg[c].name
         \/ n.lib \in {"WRITE", "UNLINK"} /\ \E e \in expect[c] : msg[c].name \in e.alike
  ELSE \/ n.lib = "UNLINK"
       \/ n.lib = "WRITE" /\ (msg[c].lib = "STAT" \/ n.block = msg[c].block)

\* Calls that overlap do not disturb each other when they are about different names
\* or blocks and no data that reads as the name is stored or erased, although
\* either may be cut off by a crash, executed again after the other, or both: each
\* returns, and leaves for its own name or block, what it would alone.
OwnAtReturn ==
  [][\A c \in Clients :
       pc[c] = "select" /\ pc'[c] = "idle" /\ ~spoiled /\ ~ (\E n \in others[c] : Disturbs(n, c)) =>
         \E e \in expect[c] : answer'[c] = e.ret /\ Own(disk, msg[c]) = e.own]_vars

\* Every call but MFS_Shutdown returns, or the server has been shut down.
CallsReturn == \A c \in Clients : pc[c] = "select" ~> pc[c] = "idle" \/ ~up

\* A lookup after the name was unlinked fails (a single client).
UnlinkedIsGone ==
  [][\A c \in Clients :
       pc[c] = "select" /\ pc'[c] = "idle" /\ msg[c].lib = "LOOKUP" /\ (\A e \in expect[c] : e.ret = <<None>>)
         => answer'[c] = <<None>>]_vars
=============================================================================
