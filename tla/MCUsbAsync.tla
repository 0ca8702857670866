----------------------------- MODULE MCUsbAsync -----------------------------
(***************************************************************************)
(* Instances of UsbAsync for TLC: clients that are torn down in order, and  *)
(* ones that are torn down while they read.                                 *)
(***************************************************************************)
EXTENDS UsbAsync, TLC

CONSTANTS shell, echo

\* usbshell on the reserved channel 0, echo with an allocated one.
WantBoth  == shell :> 0 @@ echo :> Alloc
\* Two clients competing for the allocatable channels.
WantAlloc == shell :> Alloc @@ echo :> Alloc

OneByte  == {0}
TwoBytes == {0, 1}
Lengths  == {<<0>>, <<0, 0>>}
Words    == {<<0>>, <<1>>, <<0, 0>>, <<0, 1>>, <<1, 0, 1>>}

\* To keep the run small: once two clients have registered all bytes are alike,
\* where the wake-ups and the teardown matter; one client alone gets any bytes,
\* where their order does.
AlikeOrAlone ==
  \/ \A r \in Client, i \in Pos : endp[r].buffer[i] = 0
  \/ /\ \A c \in Chan : chan[c] # echo
     /\ pc[echo] = "idle" /\ mychan[echo] = Alloc
=============================================================================
