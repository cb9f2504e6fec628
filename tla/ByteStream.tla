----------------------------- MODULE ByteStream -----------------------------
(***************************************************************************)
(* What a pipe promises the programs that use it: a bounded stream of      *)
(* bytes between two ends.  Locks, processes and the ring are not visible. *)
(***************************************************************************)
EXTENDS Naturals, Sequences

CONSTANTS Bytes,     \* what is sent
          Capacity   \* how many bytes can be on their way

VARIABLES
  sent,   \* every byte put into the stream
  rcvd,   \* every byte taken from it
  open    \* the ends still open: open["read"] and open["write"] are 1 or 0

bsvars == <<sent, rcvd, open>>

Init ==
  /\ sent = <<>> /\ rcvd = <<>>
  /\ open = [e \in {"read", "write"} |-> 1]

\* A byte is put only while somebody can still write.
Put(b) ==
  /\ open["write"] = 1
  /\ Len(sent) - Len(rcvd) < Capacity
  /\ sent' = Append(sent, b)
  /\ UNCHANGED <<rcvd, open>>

\* The oldest byte not taken yet is the next one.
Take ==
  /\ open["read"] = 1
  /\ Len(rcvd) < Len(sent)
  /\ rcvd' = Append(rcvd, sent[Len(rcvd) + 1])
  /\ UNCHANGED <<sent, open>>

\* An end is closed once and for ever.
Close(e) ==
  /\ open[e] = 1
  /\ open' = [open EXCEPT ![e] = 0]
  /\ UNCHANGED <<sent, rcvd>>

Next ==
  \/ \E b \in Bytes : Put(b)
  \/ Take
  \/ \E e \in {"read", "write"} : Close(e)

Spec == Init /\ [][Next]_bsvars
=============================================================================
