---------------------------- MODULE MFSRpcProofs ----------------------------
(***************************************************************************)
(* Theorems about the datagrams of MFSRpc, for any number of clients and   *)
(* calls, when the timeout is longer than a datagram can be on its way     *)
(* (Late = FALSE; the run MCMFSRpc_late shows what happens otherwise).     *)
(***************************************************************************)
EXTENDS MFSRpc, TLAPS

\* Where the clients are.
Control ==
  /\ pc \in [Clients -> {"idle", "select", "block"}]
  /\ seq \in [Clients -> Nat] /\ DOMAIN msg = Clients

\* A client has at most one datagram on its way, of the call it is in: the request
\* that carries its msg, or the reply to it.
OneEach ==
  /\ \A x \in BagToSet(net) :
       /\ net[x] = 1 /\ x.client \in Clients
       /\ pc[x.client] # "idle" /\ x.seq = seq[x.client]
       /\ x.to = "server" => x.msg = msg[x.client]
       /\ x.to = "client" => x.msg.lib = msg[x.client].lib
  /\ \A x, y \in BagToSet(net) : x.client = y.client => x = y

IInv == Control /\ OneEach

-----------------------------------------------------------------------------
(* Bags of which no element occurs twice                                   *)

\* A datagram that is the only one on its way.
LEMMA SendNew ==
  ASSUME NEW B, NEW x, \A y \in DOMAIN B : B[y] = 1, x \notin DOMAIN B
  PROVE  /\ DOMAIN (B (+) SetToBag({x})) = DOMAIN B \cup {x}
         /\ \A y \in DOMAIN B \cup {x} : (B (+) SetToBag({x}))[y] = 1
BY DEF SetToBag, (+)

\* Taking the only datagram leaves none.
LEMMA TakeAway ==
  ASSUME NEW B, NEW x, \A y \in DOMAIN B : B[y] = 1, x \in DOMAIN B
  PROVE  /\ DOMAIN (B (-) SetToBag({x})) = DOMAIN B \ {x}
         /\ \A y \in DOMAIN B \ {x} : (B (-) SetToBag({x}))[y] = 1
BY DEF SetToBag, (-)

\* A bag of no copies adds nothing.
LEMMA AddNothing ==
  ASSUME NEW B, \A y \in DOMAIN B : B[y] = 1
  PROVE  /\ DOMAIN (B (+) EmptyBag) = DOMAIN B
         /\ \A y \in DOMAIN B : (B (+) EmptyBag)[y] = 1
BY DEF SetToBag, EmptyBag, (+)

-----------------------------------------------------------------------------
(* Every action keeps the invariant                                        *)

\* A call begins when the client has nothing on its way.
LEMMA CallKeeps ==
  ASSUME IInv, NEW c \in Clients, NEW m \in Requests[c], Call(c, m)
  PROVE  IInv'
<1> DEFINE x == Request(c)'
<1>1. Control'
  BY DEF IInv, Control, Call
<1>2. /\ pc'[c] # "idle" /\ \A d \in Clients \ {c} : pc'[d] = pc[d]
      /\ seq'[c] = seq[c] + 1 /\ \A d \in Clients \ {c} : seq'[d] = seq[d]
      /\ msg'[c] = m /\ \A d \in Clients \ {c} : msg'[d] = msg[d]
  BY DEF IInv, Control, Call
<1>3. /\ x.to = "server" /\ x.client = c /\ x.seq = seq'[c] /\ x.msg = msg'[c]
  BY DEF Request
<1>4. \A y \in DOMAIN net : y.client # c /\ net[y] = 1
  BY DEF IInv, OneEach, Call, BagToSet
<1>5. DOMAIN net' = DOMAIN net \cup {x} /\ \A y \in DOMAIN net \cup {x} : net'[y] = 1
  <2>1. x \notin DOMAIN net
    BY <1>3, <1>4
  <2>2. net' = net (+) SetToBag({x})
    BY DEF Call
  <2> HIDE DEF x
  <2>3. \A y \in DOMAIN net : net[y] = 1
    BY <1>4
  <2>4. QED BY <2>1, <2>2, <2>3, SendNew
<1>6. OneEach'
  BY <1>2, <1>3, <1>4, <1>5 DEF IInv, OneEach, BagToSet
<1>7. QED BY <1>1, <1>6 DEF IInv

\* The request is sent again when neither a request nor a reply is on its way.
LEMMA TimeoutKeeps ==
  ASSUME ~Late, IInv, NEW c \in Clients, Timeout(c)
  PROVE  IInv'
<1> DEFINE x == Request(c)
<1>1. x.to = "server" /\ x.client = c /\ x.seq = seq[c] /\ x.msg = msg[c]
  BY DEF Request
<1>2. \A y \in DOMAIN net : y.client # c /\ net[y] = 1
  BY DEF IInv, OneEach, Timeout, Expired, OfClient, BagToSet
<1>3. DOMAIN net' = DOMAIN net \cup {x} /\ \A y \in DOMAIN net \cup {x} : net'[y] = 1
  <2>1. x \notin DOMAIN net
    BY <1>1, <1>2
  <2>2. net' = net (+) SetToBag({x})
    BY DEF Timeout
  <2> HIDE DEF x
  <2>3. \A y \in DOMAIN net : net[y] = 1
    BY <1>2
  <2>4. QED BY <2>1, <2>2, <2>3, SendNew
<1>4. UNCHANGED <<pc, seq, msg>> /\ pc[c] = "select"
  BY DEF Timeout
<1>5. OneEach'
  BY <1>1, <1>2, <1>3, <1>4 DEF IInv, OneEach, BagToSet
<1>6. QED BY <1>4, <1>5 DEF IInv, Control

\* What a client receives was all it had on its way.
LEMMA ReceiveKeeps ==
  ASSUME IInv, NEW c \in Clients, Receive(c)
  PROVE  IInv'
<1>1. PICK x \in OfClient(c) : net' = net (-) SetToBag({x})
  BY DEF Receive
<1>2. x \in DOMAIN net /\ x.client = c /\ \A y \in DOMAIN net : net[y] = 1
  BY DEF OfClient, IInv, OneEach, BagToSet
<1>3. DOMAIN net' = DOMAIN net \ {x} /\ \A y \in DOMAIN net \ {x} : net'[y] = 1
  BY <1>1, <1>2, TakeAway
<1>4. /\ seq' = seq /\ \A d \in Clients \ {c} : pc'[d] = pc[d] /\ msg'[d] = msg[d]
      /\ \A y \in DOMAIN net \ {x} : y.client \in Clients \ {c}
  BY <1>2 DEF IInv, Control, OneEach, Receive, BagToSet
<1>5. OneEach'
  BY <1>2, <1>3, <1>4 DEF IInv, OneEach, BagToSet
<1>6. Control'
  BY DEF IInv, Control, Receive
<1>7. QED BY <1>5, <1>6 DEF IInv

\* The reply takes the place of the request.
LEMMA ServeKeeps ==
  ASSUME IInv, NEW c \in Clients, Serve(c)
  PROVE  IInv'
<1>1. PICK q \in OfClient(c) : \E r :
        q.to = "server" /\ net' = (net (-) SetToBag({q})) (+) SetToBag({Answered(q, r)})
  BY DEF Serve
<1>2. PICK r :
        q.to = "server" /\ net' = (net (-) SetToBag({q})) (+) SetToBag({Answered(q, r)})
  BY <1>1
<1> DEFINE x == Answered(q, r)
           B == net (-) SetToBag({q})
<1>3. q \in DOMAIN net /\ q.client = c /\ \A y \in DOMAIN net : net[y] = 1
  BY DEF OfClient, IInv, OneEach, BagToSet
<1>4. x.to = "client" /\ x.client = q.client /\ x.seq = q.seq /\ x.msg.lib = q.msg.lib
  BY DEF Answered
<1>5. DOMAIN B = DOMAIN net \ {q} /\ \A y \in DOMAIN B : B[y] = 1
  BY <1>3, TakeAway
<1>6. \A y \in DOMAIN B : y.client # c
  BY <1>3, <1>5 DEF IInv, OneEach, BagToSet
<1>7. DOMAIN net' = DOMAIN B \cup {x} /\ \A y \in DOMAIN B \cup {x} : net'[y] = 1
  <2>1. x \notin DOMAIN B
    BY <1>3, <1>4, <1>6
  <2>2. net' = B (+) SetToBag({x})
    BY <1>2
  <2> HIDE DEF B, x
  <2>3. QED BY <2>1, <2>2, <1>5, SendNew
<1>8. UNCHANGED <<pc, seq, msg>>
  BY DEF Serve
<1>9. OneEach'
  <2> HIDE DEF x, B
  <2>1. q.seq = seq[c] /\ q.msg = msg[c] /\ pc[c] # "idle"
    BY <1>2, <1>3 DEF IInv, OneEach, BagToSet
  <2>2. QED BY <2>1, <1>3, <1>4, <1>5, <1>6, <1>7, <1>8 DEF IInv, OneEach, BagToSet
<1>10. QED BY <1>8, <1>9 DEF IInv, Control

\* A datagram goes and none comes.
LEMMA RemoveKeeps ==
  ASSUME IInv, NEW x \in DOMAIN net, UNCHANGED <<pc, seq, msg>>,
         DOMAIN net' = DOMAIN net \ {x}, \A y \in DOMAIN net \ {x} : net'[y] = 1
  PROVE  IInv'
BY DEF IInv, Control, OneEach, BagToSet

\* A crash takes the request with it.
LEMMA CrashKeeps ==
  ASSUME IInv, NEW c \in Clients, Crash(c)
  PROVE  IInv'
<1>1. PICK q \in OfClient(c) : net' = (net (-) SetToBag({q})) (+) EmptyBag
  BY DEF Crash, Unanswered
<1>2. q \in DOMAIN net /\ \A y \in DOMAIN net : net[y] = 1
  BY DEF OfClient, IInv, OneEach, BagToSet
<1>3. DOMAIN net' = DOMAIN net \ {q} /\ \A y \in DOMAIN net \ {q} : net'[y] = 1
  <2> DEFINE B == net (-) SetToBag({q})
  <2>1. DOMAIN B = DOMAIN net \ {q} /\ \A y \in DOMAIN B : B[y] = 1
    BY <1>2, TakeAway
  <2>2. net' = B (+) EmptyBag
    BY <1>1
  <2> HIDE DEF B
  <2>3. QED BY <2>1, <2>2, AddNothing
<1>4. QED BY <1>2, <1>3, RemoveKeeps DEF Crash

\* A datagram that is lost leaves fewer.
LEMMA LoseKeeps ==
  ASSUME IInv, Lose
  PROVE  IInv'
<1>1. PICK x \in DOMAIN net : net' = net (-) SetToBag({x})
  BY DEF Lose, BagToSet
<1>2. DOMAIN net' = DOMAIN net \ {x} /\ \A y \in DOMAIN net \ {x} : net'[y] = 1
  BY <1>1, TakeAway DEF IInv, OneEach, BagToSet
<1>3. QED BY <1>2, RemoveKeeps DEF Lose

-----------------------------------------------------------------------------
(* Theorems                                                                *)

\* At the start nothing is on its way.
LEMMA InitIInv == Init => IInv
BY DEF Init, IInv, Control, OneEach, EmptyBag, SetToBag, BagToSet

\* Every step keeps the invariant, when no answer comes after the timeout.
LEMMA NextIInv == ~Late /\ IInv /\ [Next]_vars => IInv'
<1> SUFFICES ASSUME ~Late, IInv, [Next]_vars PROVE IInv'
  OBVIOUS
<1>1. CASE Next
  BY <1>1, CallKeeps, TimeoutKeeps, ReceiveKeeps, ServeKeeps, CrashKeeps, LoseKeeps DEF Next
<1>2. CASE UNCHANGED vars
  BY <1>2 DEF vars, IInv, Control, OneEach
<1>3. QED BY <1>1, <1>2

\* When no answer comes after the timeout, a client has one datagram on its way at most.
THEOREM Invariance == ~Late => (Spec => []IInv)
<1> SUFFICES ASSUME ~Late PROVE Spec => []IInv
  OBVIOUS
<1>1. IInv /\ [Next]_vars => IInv'
  BY NextIInv
<1>2. QED BY <1>1, InitIInv, PTL DEF Spec

\* No datagram survives its call: what UDP_Read of a client takes for the reply is
\* the reply to the request it has made last, although requests and replies have
\* no number.
THEOREM RepliesNotStale == ~Late => (Spec => []NoneStale)
<1> SUFFICES ASSUME ~Late PROVE Spec => []NoneStale
  OBVIOUS
<1>1. IInv => NoneStale
  BY DEF IInv, OneEach, NoneStale
<1>2. QED BY <1>1, Invariance, PTL
=============================================================================
