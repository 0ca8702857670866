--------------------------- MODULE UsbAsyncProofs ---------------------------
(***************************************************************************)
(* Proofs about UsbAsync for every number of channels and clients, every    *)
(* ring size and every payload.                                             *)
(***************************************************************************)
EXTENDS UsbAsync, RingProofs, TLAPS

\* A channel's endpoint is on no other channel (usbAsyncRegister's caller).
OneChannelEach ==
  \A c, d \in Chan : chan[c] # NULL /\ chan[c] = chan[d] => c = d

\* A reader inside usbAsyncRead passed the range check; a blocked one found its
\* bit clear, and the event flag exists.
ReadersPlaced ==
  \A r \in Client :
    /\ Reading(r) => mychan[r] \in Chan
    /\ pc[r] = "wait" => up /\ mychan[r] \notin event

\* Data in a registered ring is announced: by its bit, or by a reader that has
\* consumed the bit and not copied yet.  This is what makes NoLostWakeup
\* inductive: the bit alone is not, since a reader clears it before it copies.
Announced ==
  \A c \in Chan : up /\ chan[c] # NULL /\ endp[chan[c]].size > 0 =>
    c \in event \/ \E s \in Client : pc[s] = "woken" /\ mychan[s] = c

\* With orderly teardown a reader's channel stays registered while it is inside
\* usbAsyncRead.  A reserved channel number is only ever given to its client:
\* ASYNC_ALLOC_CHAN allocates from ASYNC_USER upwards.
Quiesced ==
  Quiesce =>
    /\ \A r \in Client : /\ pc[r] # "fault"
                         /\ Reading(r) => mychan[r] \in Chan /\ chan[mychan[r]] # NULL
    /\ \A r \in Client : Want[r] # Alloc => /\ mychan[r] = Want[r]
                                           /\ chan[Want[r]] \in {NULL, r}

Inv == TypeOK /\ RingsConsistent /\ OneChannelEach /\ ReadersPlaced /\ Announced

-----------------------------------------------------------------------------
(* The event flag, and the steps. *)

\* Setting bit c keeps the types, blocks nobody on a set bit, moves readers only
\* from "wait" to "woken", and leaves channel c announced.
LEMMA SetEventFlagOK ==
  ASSUME TypeOK, NEW c \in Chan, NEW pcs,
         pcs \in [Client -> {"idle", "wait", "woken", "fault"}],
         \A r \in Client : pcs[r] = "wait" => mychan[r] \notin event,
         sceKernelSetEventFlag(c, pcs)
  PROVE  /\ pc' \in [Client -> {"idle", "wait", "woken", "fault"}]
         /\ event' \in SUBSET Chan
         /\ event \subseteq event'
         /\ \A r \in Client : /\ pc'[r] = "wait" => pcs[r] = "wait" /\ mychan[r] \notin event'
                              /\ pcs[r] = "woken" => pc'[r] = "woken"
                              /\ pc'[r] \in {"wait", "woken"} => pcs[r] \in {"wait", "woken"}
                              /\ pc'[r] = "fault" => pcs[r] = "fault"
         /\ c \in event' \/ \E s \in Client : pc'[s] = "woken" /\ mychan[s] = c
<1> DEFINE waiters == {r \in Client : pcs[r] = "wait" /\ mychan[r] = c}
<1>1. CASE waiters = {} /\ event' = event \cup {c} /\ pc' = pcs
  BY <1>1 DEF TypeOK
<1>2. CASE \E r \in waiters : pc' = [pcs EXCEPT ![r] = "woken"] /\ UNCHANGED event
  BY <1>2 DEF TypeOK
<1>3. QED BY <1>1, <1>2 DEF sceKernelSetEventFlag

\* A step keeps the types and the rings consistent.
LEMMA StepRings ==
  ASSUME Inv, [Next]_vars
  PROVE  TypeOK' /\ RingsConsistent'
<1> USE AsyncAssumption DEF Inv, TypeOK, RingsConsistent
<1>1. CASE start_func
  BY <1>1 DEF start_func
<1>2. CASE stop_func
  BY <1>2 DEF stop_func
<1>3. ASSUME NEW c \in Chan, NEW data \in Payload, fill_async(c, data)
      PROVE  TypeOK' /\ RingsConsistent'
  <2>1. chan[c] \in Client /\ data \in Seq(Byte) /\ data # <<>>
    BY <1>3 DEF fill_async
  <2>2. /\ RingPut(endp[chan[c]], data) \in RingType
        /\ RingConsistent(RingPut(endp[chan[c]], data))
    BY <2>1, RingPutOK
  <2>3. endp' \in [Client -> RingType] /\ RingsConsistent'
    BY <1>3, <2>1, <2>2 DEF fill_async
  <2>4. pc' \in [Client -> {"idle", "wait", "woken", "fault"}] /\ event' \in SUBSET Chan
    BY <1>3, SetEventFlagOK DEF fill_async, ReadersPlaced
  <2>5. QED BY <1>3, <2>3, <2>4 DEF fill_async
<1>4. ASSUME NEW c \in Chan, usbAsyncUnregister(c)
      PROVE  TypeOK' /\ RingsConsistent'
  BY <1>4 DEF usbAsyncUnregister
<1>5. ASSUME NEW c \in Chan, usbAsyncFlush(c)
      PROVE  TypeOK' /\ RingsConsistent'
  <2>1. chan[c] \in Client
    BY <1>5 DEF usbAsyncFlush
  <2>2. RingFlush(endp[chan[c]]) \in RingType /\ RingConsistent(RingFlush(endp[chan[c]]))
    BY <2>1, RingFlushOK
  <2>3. QED BY <1>5, <2>1, <2>2 DEF usbAsyncFlush
<1>6. ASSUME NEW r \in Client, usbAsyncRegister(r)
      PROVE  TypeOK' /\ RingsConsistent'
  <2>1. PICK c \in Granted(Want[r]) :
          /\ chan' = [chan EXCEPT ![c] = r]
          /\ endp' = [endp EXCEPT ![r] = RingFlush(@)]
          /\ event' = event \ {c}
          /\ mychan' = [mychan EXCEPT ![r] = c]
    BY <1>6 DEF usbAsyncRegister
  <2>2. c \in Chan
    BY <2>1 DEF Granted, Chan
  <2>3. RingFlush(endp[r]) \in RingType /\ RingConsistent(RingFlush(endp[r]))
    BY RingFlushOK
  <2>4. QED BY <1>6, <2>1, <2>2, <2>3 DEF usbAsyncRegister
<1>7. ASSUME NEW r \in Client, usbAsyncReadCall(r)
      PROVE  TypeOK' /\ RingsConsistent'
  BY <1>7 DEF usbAsyncReadCall
<1>8. ASSUME NEW r \in Client, usbAsyncReadCopy(r)
      PROVE  TypeOK' /\ RingsConsistent'
  <2> DEFINE c == mychan[r]
             ring == endp[chan[c]]
  <2>1. PICK len \in 1 .. MaxRead :
          LET n == Smaller(len, ring.size) IN
          /\ got' = [got EXCEPT ![r] = RingBytes(ring, n)]
          /\ endp' = [endp EXCEPT ![chan[c]] = RingTake(ring, n)]
          /\ IF MoreToRead(ring, n) /\ up
             THEN sceKernelSetEventFlag(c, [pc EXCEPT ![r] = "idle"])
             ELSE /\ pc' = [pc EXCEPT ![r] = "idle"]
                  /\ UNCHANGED event
    BY <1>8 DEF usbAsyncReadCopy
  <2>2. c \in Chan /\ chan[c] \in Client /\ ring \in RingType /\ RingConsistent(ring)
    BY <1>8 DEF usbAsyncReadCopy, ReadersPlaced, Reading
  <2> DEFINE n == Smaller(len, ring.size)
  <2>3. n \in 0 .. ring.size
    BY <2>2 DEF Smaller, RingType
  <2> HIDE DEF n
  <2>4. /\ RingTake(ring, n) \in RingType /\ RingConsistent(RingTake(ring, n))
        /\ RingBytes(ring, n) \in Seq(Byte)
    BY <2>2, <2>3, RingTakeOK
  <2>5. /\ got' = [got EXCEPT ![r] = RingBytes(ring, n)]
        /\ endp' = [endp EXCEPT ![chan[c]] = RingTake(ring, n)]
    BY <2>1 DEF n
  <2>6. endp' \in [Client -> RingType] /\ RingsConsistent' /\ got' \in [Client -> Seq(Byte) \cup {NULL}]
    BY <2>2, <2>4, <2>5
  <2>7. pc' \in [Client -> {"idle", "wait", "woken", "fault"}] /\ event' \in SUBSET Chan
    <3> DEFINE pcs == [pc EXCEPT ![r] = "idle"]
    <3>1. /\ pcs \in [Client -> {"idle", "wait", "woken", "fault"}]
          /\ \A s \in Client : pcs[s] = "wait" => mychan[s] \notin event
      BY DEF ReadersPlaced
    <3>2. CASE sceKernelSetEventFlag(c, pcs)
      BY <2>2, <3>1, <3>2, SetEventFlagOK
    <3>3. CASE pc' = pcs /\ UNCHANGED event
      BY <3>1, <3>3
    <3>4. QED BY <2>1, <3>2, <3>3
  <2>8. QED BY <1>8, <2>6, <2>7 DEF usbAsyncReadCopy
<1>9. ASSUME NEW r \in Client, usbAsyncReadFault(r)
      PROVE  TypeOK' /\ RingsConsistent'
  BY <1>9 DEF usbAsyncReadFault
<1>10. CASE UNCHANGED vars
  BY <1>10 DEF vars
<1>11. QED
  BY <1>1, <1>2, <1>3, <1>4, <1>5, <1>6, <1>7, <1>8, <1>9, <1>10 DEF Next

\* A step keeps one channel per endpoint, the readers where they may be and the
\* data announced.
LEMMA StepReaders ==
  ASSUME Inv, [Next]_vars
  PROVE  OneChannelEach' /\ ReadersPlaced' /\ Announced'
<1> DEFINE Goal == OneChannelEach' /\ ReadersPlaced' /\ Announced'
<1> USE AsyncAssumption DEF Inv, TypeOK, Reading
<1>1. CASE start_func
  BY <1>1 DEF start_func, OneChannelEach, ReadersPlaced, Announced
<1>2. CASE stop_func
  BY <1>2 DEF stop_func, OneChannelEach, ReadersPlaced, Announced
<1>3. ASSUME NEW c \in Chan, NEW data \in Payload, fill_async(c, data)
      PROVE  Goal
  <2>1. /\ event \subseteq event'
        /\ \A r \in Client : /\ pc'[r] = "wait" => pc[r] = "wait" /\ mychan[r] \notin event'
                             /\ pc[r] = "woken" => pc'[r] = "woken"
                             /\ pc'[r] \in {"wait", "woken"} => pc[r] \in {"wait", "woken"}
        /\ c \in event' \/ \E s \in Client : pc'[s] = "woken" /\ mychan[s] = c
    BY <1>3, SetEventFlagOK DEF fill_async, ReadersPlaced
  <2>2. UNCHANGED <<up, chan, mychan>> /\ chan[c] \in Client
    BY <1>3 DEF fill_async
  <2>3. OneChannelEach' /\ ReadersPlaced'
    BY <2>1, <2>2 DEF OneChannelEach, ReadersPlaced
  <2>4. \A d \in Chan : d # c /\ chan[d] # NULL => endp'[chan[d]] = endp[chan[d]]
    BY <1>3, <2>2 DEF fill_async, OneChannelEach
  <2>5. Announced'
    BY <2>1, <2>2, <2>4 DEF Announced
  <2>6. QED BY <2>3, <2>5
<1>4. ASSUME NEW c \in Chan, usbAsyncUnregister(c)
      PROVE  Goal
  BY <1>4 DEF usbAsyncUnregister, OneChannelEach, ReadersPlaced, Announced
<1>5. ASSUME NEW c \in Chan, usbAsyncFlush(c)
      PROVE  Goal
  <2>1. chan[c] \in Client /\ RingFlush(endp[chan[c]]).size = 0
    BY <1>5, RingFlushOK DEF usbAsyncFlush
  <2>2. OneChannelEach' /\ ReadersPlaced'
    BY <1>5 DEF usbAsyncFlush, OneChannelEach, ReadersPlaced
  <2>3. /\ endp'[chan[c]].size = 0
        /\ \A d \in Chan : d # c /\ chan[d] # NULL => endp'[chan[d]] = endp[chan[d]]
    BY <1>5, <2>1 DEF usbAsyncFlush, OneChannelEach
  <2>4. Announced'
    BY <1>5, <2>3 DEF usbAsyncFlush, Announced
  <2>5. QED BY <2>2, <2>4
<1>6. ASSUME NEW r \in Client, usbAsyncRegister(r)
      PROVE  Goal
  <2>1. PICK c \in Granted(Want[r]) :
          /\ chan' = [chan EXCEPT ![c] = r]
          /\ endp' = [endp EXCEPT ![r] = RingFlush(@)]
          /\ event' = event \ {c}
          /\ mychan' = [mychan EXCEPT ![r] = c]
    BY <1>6 DEF usbAsyncRegister
  <2>2. c \in Chan /\ chan[c] = NULL
    BY <2>1 DEF Granted, Chan
  <2>3. endp'[r].size = 0
    BY <2>1, RingFlushOK
  <2>4. \A d \in Chan : d # c => chan'[d] = chan[d] /\ (chan[d] # NULL => endp'[chan[d]] = endp[chan[d]])
    BY <1>6, <2>1, <2>2 DEF usbAsyncRegister
  <2>5. OneChannelEach'
    BY <1>6, <2>1, <2>2 DEF usbAsyncRegister, OneChannelEach
  <2>6. ReadersPlaced'
    BY <1>6, <2>1, <2>2 DEF usbAsyncRegister, ReadersPlaced
  <2>7. Announced'
    BY <1>6, <2>1, <2>2, <2>3, <2>4 DEF usbAsyncRegister, Announced
  <2>8. QED BY <2>5, <2>6, <2>7
<1>7. ASSUME NEW r \in Client, usbAsyncReadCall(r)
      PROVE  Goal
  <2>1. OneChannelEach' /\ ReadersPlaced'
    BY <1>7 DEF usbAsyncReadCall, Registered, OneChannelEach, ReadersPlaced
  <2>2. Announced'
    BY <1>7 DEF usbAsyncReadCall, Registered, Announced
  <2>3. QED BY <2>1, <2>2
<1>8. ASSUME NEW r \in Client, usbAsyncReadCopy(r)
      PROVE  Goal
  <2> DEFINE c == mychan[r]
             ring == endp[chan[c]]
             pcs == [pc EXCEPT ![r] = "idle"]
  <2>1. PICK len \in 1 .. MaxRead :
          LET n == Smaller(len, ring.size) IN
          /\ endp' = [endp EXCEPT ![chan[c]] = RingTake(ring, n)]
          /\ IF MoreToRead(ring, n) /\ up
             THEN sceKernelSetEventFlag(c, pcs)
             ELSE /\ pc' = pcs
                  /\ UNCHANGED event
    BY <1>8 DEF usbAsyncReadCopy
  <2>2. c \in Chan /\ chan[c] \in Client /\ ring \in RingType /\ RingConsistent(ring)
    BY <1>8 DEF usbAsyncReadCopy, ReadersPlaced, RingsConsistent
  <2> DEFINE n == Smaller(len, ring.size)
  <2>3. n \in 0 .. ring.size
    BY <2>2 DEF Smaller, RingType
  <2>4. UNCHANGED <<up, chan, mychan>>
    BY <1>8 DEF usbAsyncReadCopy
  <2>5. /\ pcs \in [Client -> {"idle", "wait", "woken", "fault"}]
        /\ \A s \in Client : pcs[s] = "wait" => mychan[s] \notin event
    BY DEF ReadersPlaced
  <2>6. endp' = [endp EXCEPT ![chan[c]] = RingTake(ring, n)]
    BY <2>1
  <2> HIDE DEF n
  <2>7. endp'[chan[c]].size = ring.size - n
    BY <2>2, <2>3, <2>6, RingTakeOK
  <2>8. \A d \in Chan : d # c /\ chan[d] # NULL => endp'[chan[d]] = endp[chan[d]]
    BY <2>2, <2>6 DEF OneChannelEach
  <2>9. OneChannelEach'
    BY <2>4 DEF OneChannelEach
  <2>10. CASE sceKernelSetEventFlag(c, pcs)
    <3> HIDE DEF pcs, c, Inv, TypeOK
    <3>0. TypeOK
      BY DEF Inv
    <3>1. /\ event \subseteq event'
          /\ \A s \in Client : /\ pc'[s] = "wait" => pcs[s] = "wait" /\ mychan[s] \notin event'
                               /\ pcs[s] = "woken" => pc'[s] = "woken"
                               /\ pc'[s] \in {"wait", "woken"} => pcs[s] \in {"wait", "woken"}
          /\ c \in event' \/ \E s \in Client : pc'[s] = "woken" /\ mychan[s] = c
      BY <2>2, <2>5, <2>10, <3>0, SetEventFlagOK DEF c
    <3> USE DEF pcs, c, Inv, TypeOK
    <3>2. ReadersPlaced'
      BY <2>4, <3>1 DEF ReadersPlaced
    <3>3. Announced'
      BY <2>4, <2>8, <3>1 DEF Announced
    <3>4. QED BY <2>9, <3>2, <3>3
  <2>11. CASE (ring.size = n \/ ~up) /\ pc' = pcs /\ UNCHANGED event
    <3>1. ReadersPlaced'
      BY <2>4, <2>11 DEF ReadersPlaced
    <3>2. up => endp'[chan[c]].size = 0
      BY <2>2, <2>3, <2>7, <2>11 DEF RingType
    <3>3. Announced'
      BY <2>4, <2>8, <2>11, <3>2 DEF Announced
    <3>4. QED BY <2>9, <3>1, <3>3
  <2>12. QED BY <2>1, <2>10, <2>11 DEF MoreToRead, n
<1>9. ASSUME NEW r \in Client, usbAsyncReadFault(r)
      PROVE  Goal
  BY <1>9 DEF usbAsyncReadFault, OneChannelEach, ReadersPlaced, Announced
<1>10. CASE UNCHANGED vars
  BY <1>10 DEF vars, OneChannelEach, ReadersPlaced, Announced
<1>11. QED
  BY <1>1, <1>2, <1>3, <1>4, <1>5, <1>6, <1>7, <1>8, <1>9, <1>10 DEF Next

-----------------------------------------------------------------------------
(* The theorems. *)

\* The inductive invariant holds of every behaviour of the driver.
THEOREM Invariance == Spec => []Inv
<1>1. Init => Inv
  <2> SUFFICES ASSUME Init PROVE Inv
    OBVIOUS
  <2>1. TypeOK
    <3>1. /\ up \in BOOLEAN /\ event \in SUBSET Chan
          /\ chan \in [Chan -> Client \cup {NULL}]
          /\ pc \in [Client -> {"idle", "wait", "woken", "fault"}]
      BY DEF Init
    <3>2. endp \in [Client -> RingType]
      BY EmptyRingOK DEF Init
    <3>3. mychan \in [Client -> Chan \cup {Alloc}]
      BY AsyncAssumption DEF Init
    <3>4. <<>> \in Seq(Byte)
      OBVIOUS
    <3>5. got \in [Client -> Seq(Byte) \cup {NULL}]
      BY <3>4 DEF Init
    <3>6. QED BY <3>1, <3>2, <3>3, <3>5 DEF TypeOK
  <2>2. RingsConsistent
    BY EmptyRingOK DEF Init, RingsConsistent
  <2>3. OneChannelEach /\ ReadersPlaced /\ Announced
    BY DEF Init, OneChannelEach, ReadersPlaced, Announced, Reading
  <2>4. QED BY <2>1, <2>2, <2>3 DEF Inv
<1>2. Inv /\ [Next]_vars => Inv'
  BY StepRings, StepReaders DEF Inv
<1>3. QED BY <1>1, <1>2, PTL DEF Spec

\* Every variable keeps its type: no ring index, count, event bit or channel
\* number ever leaves its range.
THEOREM TypeCorrect == Spec => []TypeOK
<1>1. Inv => TypeOK
  BY DEF Inv
<1>2. QED BY <1>1, Invariance, PTL

\* Positions and counts of the rings agree in every reachable state.
THEOREM RingsStayConsistent == Spec => []RingsConsistent
<1>1. Inv => RingsConsistent
  BY DEF Inv
<1>2. QED BY <1>1, Invariance, PTL

\* usbAsyncRead never loses a wake-up, for any number of readers per channel and
\* even when channels are torn down under them.
THEOREM NoWakeupIsLost == Spec => []NoLostWakeup
<1>1. Inv => NoLostWakeup
  BY DEF Inv, NoLostWakeup, ReadersPlaced, Announced, Reading
<1>2. QED BY <1>1, Invariance, PTL

\* A step keeps the orderly-teardown part.
LEMMA StepQuiesced ==
  ASSUME Inv, Quiesced, [Next]_vars
  PROVE  Quiesced'
<1> SUFFICES ASSUME Quiesce PROVE Quiesced'
  BY DEF Quiesced
<1> USE AsyncAssumption DEF Inv, TypeOK, Quiesced, Reading
<1>1. CASE start_func
  BY <1>1 DEF start_func, MayTearDown
<1>2. CASE stop_func
  BY <1>2 DEF stop_func
<1>3. ASSUME NEW c \in Chan, NEW data \in Payload, fill_async(c, data)
      PROVE  Quiesced'
  <2>1. \A r \in Client : /\ pc'[r] \in {"wait", "woken"} => pc[r] \in {"wait", "woken"}
                          /\ pc'[r] = "fault" => pc[r] = "fault"
    BY <1>3, SetEventFlagOK DEF fill_async, ReadersPlaced
  <2>2. QED BY <1>3, <2>1 DEF fill_async
<1>4. ASSUME NEW c \in Chan, usbAsyncUnregister(c)
      PROVE  Quiesced'
  BY <1>4 DEF usbAsyncUnregister, MayTearDown
<1>5. ASSUME NEW c \in Chan, usbAsyncFlush(c)
      PROVE  Quiesced'
  BY <1>5 DEF usbAsyncFlush
<1>6. ASSUME NEW r \in Client, usbAsyncRegister(r)
      PROVE  Quiesced'
  <2>1. PICK c \in Granted(Want[r]) :
          /\ chan' = [chan EXCEPT ![c] = r]
          /\ mychan' = [mychan EXCEPT ![r] = c]
    BY <1>6 DEF usbAsyncRegister
  <2>2. c \in Chan /\ (Want[r] # Alloc => c = Want[r]) /\ (Want[r] = Alloc => c >= AsyncUser)
    BY <2>1 DEF Granted, Chan
  <2>3. \A s \in Client : s # r /\ Want[s] # Alloc => c # Want[s]
    BY <2>2 DEF Chan, Alloc
  <2>4. pc' = pc /\ pc[r] = "idle"
    BY <1>6 DEF usbAsyncRegister
  <2>5. \A s \in Client : Want[s] # Alloc => mychan'[s] = Want[s] /\ chan'[Want[s]] \in {NULL, s}
    BY <2>1, <2>2, <2>3
  <2>6. \A s \in Client : pc[s] \in {"wait", "woken"} =>
          mychan'[s] \in Chan /\ chan'[mychan'[s]] # NULL
    BY <2>1, <2>2, <2>4
  <2>7. QED BY <2>4, <2>5, <2>6
<1>7. ASSUME NEW r \in Client, usbAsyncReadCall(r)
      PROVE  Quiesced'
  BY <1>7 DEF usbAsyncReadCall, Registered
<1>8. ASSUME NEW r \in Client, usbAsyncReadCopy(r)
      PROVE  Quiesced'
  <2> DEFINE c == mychan[r]
             pcs == [pc EXCEPT ![r] = "idle"]
  <2>1. sceKernelSetEventFlag(c, pcs) \/ pc' = pcs
    BY <1>8 DEF usbAsyncReadCopy
  <2>2. c \in Chan /\ UNCHANGED <<chan, mychan>>
    BY <1>8 DEF usbAsyncReadCopy
  <2>3. /\ pcs \in [Client -> {"idle", "wait", "woken", "fault"}]
        /\ \A s \in Client : pcs[s] = "wait" => mychan[s] \notin event
    BY DEF ReadersPlaced
  <2>4. \A s \in Client : /\ pc'[s] \in {"wait", "woken"} => pcs[s] \in {"wait", "woken"}
                          /\ pc'[s] = "fault" => pcs[s] = "fault"
    <3> HIDE DEF pcs, c, Inv, TypeOK
    <3>1. TypeOK
      BY DEF Inv
    <3>2. QED BY <2>1, <2>2, <2>3, <3>1, SetEventFlagOK
  <2>5. QED BY <2>2, <2>4
<1>9. ASSUME NEW r \in Client, usbAsyncReadFault(r)
      PROVE  Quiesced'
  BY <1>9 DEF usbAsyncReadFault
<1>10. CASE UNCHANGED vars
  BY <1>10 DEF vars
<1>11. QED
  BY <1>1, <1>2, <1>3, <1>4, <1>5, <1>6, <1>7, <1>8, <1>9, <1>10 DEF Next

\* The orderly-teardown part holds of every behaviour.
LEMMA QuiescedAlways == Spec => [](Inv /\ Quiesced)
<1>1. Init => Quiesced
  BY AsyncAssumption DEF Init, Quiesced, Reading
<1>2. Inv /\ Quiesced /\ [Next]_vars => Quiesced'
  BY StepQuiesced
<1>3. QED BY <1>1, <1>2, Invariance, PTL DEF Spec

\* When channels are torn down only with no reader inside usbAsyncRead, its
\* second, unchecked use of the channel pointer never faults.
THEOREM OrderlyTeardownIsSafe == Spec => []NoFault
<1>1. Inv /\ Quiesced => NoFault
  BY DEF Quiesced, NoFault
<1>2. QED BY <1>1, QuiescedAlways, PTL

\* With the same discipline the client of a reserved channel only ever drains
\* its own endpoint: no other client can have been given its number meanwhile.
THEOREM ReadersDrainTheirOwn == Spec => []ReaderOwnsChannel
<1>1. Inv /\ Quiesced => ReaderOwnsChannel
  BY DEF Inv, TypeOK, Quiesced, ReaderOwnsChannel, Reading
<1>2. QED BY <1>1, QuiescedAlways, PTL

-----------------------------------------------------------------------------
(* The rings implement bounded FIFOs. *)

\* When one endpoint's ring becomes q, its queue becomes what q holds and no
\* other queue changes.
LEMMA OneQueueChanges ==
  ASSUME TypeOK, NEW o \in Client, NEW q, endp' = [endp EXCEPT ![o] = q]
  PROVE  Unread' = [Unread EXCEPT ![o] = Contents(q)]
BY DEF TypeOK, Unread

\* A packet appends to its endpoint's queue as much as fits.
LEMMA FillIsPut ==
  ASSUME Inv, NEW c \in Chan, NEW data \in Payload, fill_async(c, data)
  PROVE  Pipe!Put(chan[c], data)
<1> DEFINE o == chan[c]
           n == Accepted(endp[o], Len(data))
<1>1. /\ o \in Client /\ data \in Seq(Byte) /\ endp[o] \in RingType
      /\ RingConsistent(endp[o]) /\ UNCHANGED got
      /\ endp' = [endp EXCEPT ![o] = RingPut(endp[o], data)]
  BY AsyncAssumption DEF fill_async, Inv, TypeOK, RingsConsistent
<1>2. endp[o].size \in 0 .. BufSize /\ BufSize \in Nat /\ Len(data) \in Nat
  BY <1>1, RingAssumption DEF RingType
<1>3. /\ n \in 0 .. Len(data) /\ endp[o].size + n <= BufSize
      /\ n = Len(data) \/ endp[o].size + n = BufSize
  BY <1>2 DEF Accepted, Smaller
<1>4. Unread[o] = Contents(endp[o]) /\ Len(Contents(endp[o])) = endp[o].size
  BY <1>1, <1>2, BytesAre DEF Unread, Contents
<1>5. Contents(RingPut(endp[o], data)) = Contents(endp[o]) \o SubSeq(data, 1, n)
  BY <1>1, ContentsPut
<1>6. Unread' = [Unread EXCEPT ![o] = Contents(RingPut(endp[o], data))]
  BY <1>1, OneQueueChanges DEF Inv
<1> HIDE DEF n, o
<1>7. Unread' = [Unread EXCEPT ![o] = @ \o SubSeq(data, 1, n)]
  BY <1>4, <1>5, <1>6
<1>8. Pipe!Put(o, data)
  BY <1>1, <1>3, <1>4, <1>7 DEF Pipe!Put
<1>9. QED BY <1>8 DEF o

\* usbAsyncRead returns a prefix of the queue of the endpoint it drains and
\* leaves the rest.
LEMMA CopyIsTake ==
  ASSUME Inv, NEW r \in Client, usbAsyncReadCopy(r)
  PROVE  Pipe!Take(r, chan[mychan[r]])
<1> DEFINE o == chan[mychan[r]]
           ring == endp[o]
<1>1. PICK len \in 1 .. MaxRead :
        /\ got' = [got EXCEPT ![r] = RingBytes(ring, Smaller(len, ring.size))]
        /\ endp' = [endp EXCEPT ![o] = RingTake(ring, Smaller(len, ring.size))]
  BY DEF usbAsyncReadCopy
<1>2. o \in Client /\ ring \in RingType /\ RingConsistent(ring)
  BY DEF usbAsyncReadCopy, Inv, TypeOK, RingsConsistent, ReadersPlaced, Reading
<1> DEFINE n == Smaller(len, ring.size)
<1>3. n \in 0 .. ring.size
  BY <1>2 DEF Smaller, RingType
<1>4. Unread[o] = Contents(ring) /\ Len(Contents(ring)) = ring.size
  <2>1. ring.size \in 0 .. BufSize
    BY <1>2 DEF RingType
  <2>2. QED BY <1>2, <2>1, BytesAre DEF Unread, Contents
<1>5. got' = [got EXCEPT ![r] = RingBytes(ring, n)]
  BY <1>1
<1>6. Unread' = [Unread EXCEPT ![o] = Contents(RingTake(ring, n))]
  BY <1>1, <1>2, OneQueueChanges DEF Inv
<1> HIDE DEF n, ring, o
<1>7. /\ RingBytes(ring, n) = SubSeq(Contents(ring), 1, n)
      /\ Contents(RingTake(ring, n)) = SubSeq(Contents(ring), n + 1, Len(Contents(ring)))
  BY <1>2, <1>3, ContentsTake
<1>8. /\ got' = [got EXCEPT ![r] = SubSeq(Unread[o], 1, n)]
      /\ Unread' = [Unread EXCEPT ![o] = SubSeq(@, n + 1, Len(@))]
  BY <1>4, <1>5, <1>6, <1>7
<1>9. n \in 0 .. Len(Unread[o])
  BY <1>3, <1>4
<1>10. Pipe!Take(r, o)
  BY <1>8, <1>9 DEF Pipe!Take
<1>11. QED BY <1>10 DEF o

\* A flush empties its endpoint's queue, the one at the end of usbAsyncRegister
\* too.
LEMMA FlushIsFlush ==
  ASSUME Inv, NEW o \in Client, endp' = [endp EXCEPT ![o] = RingFlush(@)], UNCHANGED got
  PROVE  Pipe!Flush(o)
<1>1. endp[o] \in RingType /\ TypeOK
  BY DEF Inv, TypeOK
<1>2. Contents(RingFlush(endp[o])) = <<>>
  BY <1>1, ContentsEmpty
<1>3. Unread' = [Unread EXCEPT ![o] = Contents(RingFlush(endp[o]))]
  BY <1>1, OneQueueChanges
<1>4. QED BY <1>2, <1>3 DEF Pipe!Flush

\* Every step of the driver is a step of the FIFOs or leaves them alone.
LEMMA StepIsPipeStep ==
  ASSUME Inv, [Next]_vars
  PROVE  [Pipe!Next]_<<Unread, got>>
<1> DEFINE Goal == [Pipe!Next]_<<Unread, got>>
<1>0. ASSUME UNCHANGED endp PROVE UNCHANGED Unread
  BY <1>0 DEF Unread
<1>1. CASE start_func
  BY <1>0, <1>1 DEF start_func
<1>2. CASE stop_func
  <2>1. Pipe!Fail({r \in Client : pc[r] = "wait"})
    BY <1>0, <1>2 DEF stop_func, Pipe!Fail
  <2>2. QED BY <2>1 DEF Pipe!Next
<1>3. ASSUME NEW c \in Chan, NEW data \in Payload, fill_async(c, data)
      PROVE  Goal
  <2>1. chan[c] \in Client
    BY <1>3 DEF fill_async, Inv, TypeOK
  <2>2. QED BY <1>3, <2>1, FillIsPut DEF Pipe!Next
<1>4. ASSUME NEW c \in Chan, usbAsyncUnregister(c)
      PROVE  Goal
  BY <1>0, <1>4 DEF usbAsyncUnregister
<1>5. ASSUME NEW c \in Chan, usbAsyncFlush(c)
      PROVE  Goal
  <2>1. chan[c] \in Client
    BY <1>5 DEF usbAsyncFlush, Inv, TypeOK
  <2>2. Pipe!Flush(chan[c])
    BY <1>5, <2>1, FlushIsFlush DEF usbAsyncFlush
  <2>3. QED BY <2>1, <2>2 DEF Pipe!Next
<1>6. ASSUME NEW r \in Client, usbAsyncRegister(r)
      PROVE  Goal
  <2>1. Pipe!Flush(r)
    BY <1>6, FlushIsFlush DEF usbAsyncRegister
  <2>2. QED BY <2>1 DEF Pipe!Next
<1>7. ASSUME NEW r \in Client, usbAsyncReadCall(r)
      PROVE  Goal
  <2>1. CASE UNCHANGED got
    BY <1>0, <1>7, <2>1 DEF usbAsyncReadCall
  <2>2. CASE got' = [got EXCEPT ![r] = NULL]
    <3>1. got \in [Client -> Seq(Byte) \cup {NULL}]
      BY DEF Inv, TypeOK
    <3>2. Pipe!Fail({r})
      BY <1>0, <1>7, <2>2, <3>1 DEF usbAsyncReadCall, Pipe!Fail
    <3>3. QED BY <3>2 DEF Pipe!Next
  <2>3. QED BY <1>7, <2>1, <2>2 DEF usbAsyncReadCall
<1>8. ASSUME NEW r \in Client, usbAsyncReadCopy(r)
      PROVE  Goal
  <2>1. chan[mychan[r]] \in Client
    BY <1>8 DEF usbAsyncReadCopy, Inv, TypeOK, ReadersPlaced, Reading
  <2>2. QED BY <1>8, <2>1, CopyIsTake DEF Pipe!Next
<1>9. ASSUME NEW r \in Client, usbAsyncReadFault(r)
      PROVE  Goal
  BY <1>0, <1>9 DEF usbAsyncReadFault
<1>10. CASE UNCHANGED vars
  BY <1>0, <1>10 DEF vars
<1>11. QED
  BY <1>1, <1>2, <1>3, <1>4, <1>5, <1>6, <1>7, <1>8, <1>9, <1>10 DEF Next

\* The channels implement one bounded FIFO per endpoint, for every ring size,
\* payload and number of clients, and with channels torn down under readers:
\* positions and counts never make a read return a byte twice, out of order or
\* from a slot whose byte is gone.
THEOREM RingsImplementPipes == Spec => ImplementsPipe
<1>1. Init => Pipe!Init
  <2> SUFFICES ASSUME Init PROVE Pipe!Init
    OBVIOUS
  <2>1. Unread = [r \in Client |-> <<>>]
    BY ContentsEmpty DEF Init, Unread
  <2>2. QED BY <2>1 DEF Init, Pipe!Init
<1>2. Inv /\ [Next]_vars => [Pipe!Next]_<<Unread, got>>
  BY StepIsPipeStep
<1>3. QED BY <1>1, <1>2, Invariance, PTL DEF Spec, ImplementsPipe, Pipe!Spec
=============================================================================
