----------------------------- MODULE AsyncPipe ------------------------------
(***************************************************************************)
(* What an asynchronous channel promises: per endpoint a bounded FIFO of    *)
(* bytes.  A packet appends as much of itself as fits, a read removes a     *)
(* prefix and returns exactly it, a flush empties the queue, and a read may *)
(* fail without touching a queue.                                           *)
(***************************************************************************)
EXTENDS Naturals, Sequences

CONSTANTS Capacity, Byte, Client, Payload, NULL

VARIABLES queue,   \* unread bytes of every endpoint
          got      \* what the last read of every client returned

Init == /\ queue = [r \in Client |-> <<>>]
        /\ got = [r \in Client |-> <<>>]

Put(o, data) ==
  /\ \E n \in 0 .. Len(data) :
       /\ n = Len(data) \/ Len(queue[o]) + n = Capacity
       /\ Len(queue[o]) + n <= Capacity
       /\ queue' = [queue EXCEPT ![o] = @ \o SubSeq(data, 1, n)]
  /\ UNCHANGED got

Take(r, o) ==
  \E n \in 0 .. Len(queue[o]) :
    /\ got' = [got EXCEPT ![r] = SubSeq(queue[o], 1, n)]
    /\ queue' = [queue EXCEPT ![o] = SubSeq(@, n + 1, Len(@))]

Flush(o) == /\ queue' = [queue EXCEPT ![o] = <<>>]
            /\ UNCHANGED got

Fail(S) == /\ got' = [r \in Client |-> IF r \in S THEN NULL ELSE got[r]]
           /\ UNCHANGED queue

Next == \/ \E o \in Client, data \in Payload : Put(o, data)
        \/ \E r, o \in Client : Take(r, o)
        \/ \E o \in Client : Flush(o)
        \/ \E S \in SUBSET Client : Fail(S)

Spec == Init /\ [][Next]_<<queue, got>>
=============================================================================
