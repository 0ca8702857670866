----------------------------- MODULE GdbPacket ------------------------------
(***************************************************************************)
(* The packets between gdb and the stub (getpacket and putpacket of         *)
(* gdbcommon/gdb-stub.c): $<data>#<checksum>, acknowledged by + or -, one   *)
(* character at a time, over a line that can garble a packet and a gdb that *)
(* can lose patience and send its packet again.                             *)
(*                                                                          *)
(* A character of data is a number; the checksum is their sum in a byte,    *)
(* here modulo Mod, and takes one character.  The line keeps apart what was *)
(* sent at once; the stub reads it a character at a time all the same.      *)
(***************************************************************************)
EXTENDS Integers, Sequences, SequencesExt

CONSTANTS Commands,   \* data of gdb's packets, as sequences of numbers
          Mod,        \* 256
          MaxBuf,     \* MAX_BUF
          OutSize,    \* characters of putpacket's outputbuffer, 4096
          ReplyLens,  \* length of the frame that answers each packet
          MaxCommands,\* bound: packets gdb sends
          MaxNoise,   \* bound: characters garbled
          MaxNaks,    \* bound: replies gdb rejects
          MaxResend   \* bound: packets gdb sends again without having been asked

\* What the constants are assumed to be.
PacketAssumption ==
  /\ Mod \in Nat \ {0, 1} /\ MaxBuf \in Nat \ {0}
  /\ Commands \subseteq Seq(0 .. (Mod - 1))
  /\ OutSize \in Nat /\ ReplyLens \in [1 .. MaxCommands -> 1 .. OutSize]
  /\ MaxCommands \in Nat /\ MaxNoise \in Nat /\ MaxNaks \in Nat /\ MaxResend \in Nat

VARIABLES in,        \* on its way to the stub, as the sequences of characters sent at once
          out,       \* acknowledgements and writes of whole frames on their way to gdb
          stub,      \* [at, buffer, checksum]
          frames,    \* frames in putpacket's outputbuffer
          executed,  \* data of the packets the stub has taken
          gdb,       \* [at, sent]: sent, the data of all packets so far
          answers,   \* the replies gdb has taken, as numbers of the packets they answer
          noise, naks, resends

vars == <<in, out, stub, frames, executed, gdb, answers, noise, naks, resends>>

Data(v) == [kind |-> "data", val |-> v]
Sum(v)  == [kind |-> "sum", val |-> v]
Start   == [kind |-> "$", val |-> 0]
End     == [kind |-> "#", val |-> 0]
Ack     == [kind |-> "+", val |-> 0]
Nak     == [kind |-> "-", val |-> 0]

Checksum(data) ==
  LET sum[i \in 0 .. Len(data)] == IF i = 0 THEN 0 ELSE (sum[i - 1] + data[i]) % Mod
  IN  sum[Len(data)]

Packet(data, sum) ==
  <<Start>> \o [i \in 1 .. Len(data) |-> Data(data[i])] \o <<End, Sum(sum)>>
Frame(data) == Packet(data, Checksum(data))

\* The frame with character i of its data garbled to c.
Garbled(data, i, c) == Packet([data EXCEPT ![i] = c], Checksum(data))

Scanning == [at |-> "start", buffer |-> <<>>, checksum |-> 0]

Init ==
  /\ in = <<>> /\ out = <<>>
  /\ stub = Scanning /\ frames = 0 /\ executed = <<>>
  /\ gdb = [at |-> "idle", sent |-> <<>>] /\ answers = <<>>
  /\ noise = 0 /\ naks = 0 /\ resends = 0

-----------------------------------------------------------------------------
(***************************************************************************)
(* getpacket.                                                               *)
(***************************************************************************)

\* The next character: getDebugChar.
Char == Head(Head(in))
getDebugChar ==
  /\ in # <<>>
  /\ in' = (IF Tail(Head(in)) = <<>> THEN <<>> ELSE <<Tail(Head(in))>>) \o Tail(in)

\* Everything before a start character is ignored.
Seek ==
  /\ stub.at = "start"
  /\ getDebugChar
  /\ stub' = IF Char.kind = "$" THEN [Scanning EXCEPT !.at = "data"] ELSE stub
  /\ UNCHANGED <<out, frames, executed, gdb, answers, noise, naks, resends>>

\* The data of a packet has been taken: it is executed, and a reply composed.
Execute(data) ==
  /\ executed' = Append(executed, data)
  /\ stub' = [Scanning EXCEPT !.at = "reply"]

\* The checksum is an unsigned char.
Added(v) == (stub.checksum + v) % Mod

\* A character of data, or the end character.  A full buffer ends the packet at
\* once; the loop's condition then compares with the checksum's initial value, -1.
ReadData ==
  /\ stub.at = "data" /\ getDebugChar
  /\ LET c == Char
         buffer == Append(stub.buffer, c.val)
         sum == Added(c.val)
     IN  IF c.kind = "#"
         THEN stub' = [stub EXCEPT !.at = "sum"] /\ UNCHANGED executed
         ELSE IF Len(buffer) < MaxBuf
         THEN stub' = [at |-> "data", buffer |-> buffer, checksum |-> sum] /\ UNCHANGED executed
         ELSE IF sum = Mod - 1 THEN Execute(buffer)
         ELSE stub' = Scanning /\ UNCHANGED executed
  /\ UNCHANGED <<out, frames, gdb, answers, noise, naks, resends>>

\* Mutant of Matches: every packet is good.
MatchesAny(c) == TRUE

\* The checksum of the packet is the one computed.
Matches(c) == c.val = stub.checksum

\* The checksum: acknowledged and executed, or asked for again.  gdb puts no sequence
\* characters (xx:) in front of its data.
ReadSum ==
  /\ stub.at = "sum" /\ getDebugChar
  /\ IF Matches(Char)
     THEN out' = Append(out, Ack) /\ Execute(stub.buffer)
     ELSE out' = Append(out, Nak) /\ stub' = Scanning /\ UNCHANGED executed
  /\ UNCHANGED <<frames, gdb, answers, noise, naks, resends>>

-----------------------------------------------------------------------------
(***************************************************************************)
(* putpacket.                                                               *)
(***************************************************************************)

\* A reply frame, named by the number of the packet it answers.
Reply(n) == [kind |-> "reply", val |-> n]

\* Mutant of Written: outputbuffer is written before it is filled.
WrittenOld(k) == [i \in 1 .. k |-> Reply(Len(executed) - 1)]

\* The frame is added to outputbuffer, and all of it is written: its index is set to
\* zero only when putpacket begins.
Written(k) == [i \in 1 .. k |-> Reply(Len(executed))]

\* k frames of the reply are within outputbuffer.  Nothing checks it: the frames of a
\* reply rejected too often run over the stub's other static data, and what it does
\* from there on is not modelled ("lost").
Room(k) == k * ReplyLens[Len(executed)] <= OutSize

WriteReply ==
  /\ stub.at = "reply"
  /\ frames' = frames + 1
  /\ out' = out \o Written(frames')
  /\ stub' = [Scanning EXCEPT !.at = IF Room(frames') THEN "ack" ELSE "lost"]
  /\ UNCHANGED <<in, executed, gdb, answers, noise, naks, resends>>

\* Mutant of Accepted: any character will do.
AcceptedAny(c) == TRUE

Accepted(c) == c.kind = "+"

\* Anything but an acknowledgement has the reply written again.
ReadAck ==
  /\ stub.at = "ack" /\ getDebugChar
  /\ IF Accepted(Char)
     THEN stub' = Scanning /\ frames' = 0
     ELSE stub' = [Scanning EXCEPT !.at = "reply"] /\ UNCHANGED frames
  /\ UNCHANGED <<out, executed, gdb, answers, noise, naks, resends>>

-----------------------------------------------------------------------------
(***************************************************************************)
(* gdb.                                                                     *)
(***************************************************************************)

\* The frame as it arrives: possibly with one character of its data garbled.
Arrives(data) ==
  \/ in' = Append(in, Frame(data)) /\ UNCHANGED noise
  \/ /\ noise < MaxNoise /\ noise' = noise + 1
     /\ \E i \in DOMAIN data : \E c \in (0 .. (Mod - 1)) \ {data[i]} :
          in' = Append(in, Garbled(data, i, c))

Send ==
  /\ gdb.at = "idle" /\ Len(gdb.sent) < MaxCommands
  /\ \E data \in Commands :
       /\ gdb' = [at |-> "sent", sent |-> Append(gdb.sent, data)]
       /\ Arrives(data)
  /\ UNCHANGED <<out, stub, frames, executed, answers, naks, resends>>

\* gdb waits for an acknowledgement and sends again if it is told to, or does not wait.
Again ==
  /\ gdb.at = "sent" /\ resends < MaxResend
  /\ resends' = resends + 1
  /\ in' = Append(in, Frame(Last(gdb.sent)))
  /\ UNCHANGED <<out, stub, frames, executed, gdb, answers, noise, naks>>

\* gdb takes what has come: an acknowledgement while it waits for one (replies are
\* ignored then), a reply while it waits for that.
Take ==
  /\ out # <<>>
  /\ LET c == Head(out)
     IN  \/ /\ gdb.at = "sent" /\ c.kind = "+"
            /\ gdb' = [gdb EXCEPT !.at = "reply"] /\ UNCHANGED <<in, answers, noise, naks>>
         \/ /\ gdb.at = "sent" /\ c.kind = "-"
            /\ Arrives(Last(gdb.sent)) /\ UNCHANGED <<gdb, answers, naks>>
         \/ /\ gdb.at = "reply" /\ c.kind = "reply"
            /\ \/ /\ in' = Append(in, <<Ack>>)
                  /\ gdb' = [gdb EXCEPT !.at = "idle"] /\ answers' = Append(answers, c.val)
                  /\ UNCHANGED naks
               \/ /\ naks < MaxNaks /\ naks' = naks + 1
                  /\ in' = Append(in, <<Nak>>) /\ UNCHANGED <<gdb, answers>>
            /\ UNCHANGED noise
         \/ /\ IF gdb.at = "sent" THEN c.kind = "reply"
               ELSE IF gdb.at = "reply" THEN c.kind # "reply" ELSE TRUE
            /\ UNCHANGED <<in, gdb, answers, noise, naks>>
  /\ out' = Tail(out)
  /\ UNCHANGED <<stub, frames, executed, resends>>

Next == Seek \/ ReadData \/ ReadSum \/ WriteReply \/ ReadAck \/ Send \/ Again \/ Take

Spec == Init /\ [][Next]_vars

\* The stub's server thread and gdb read what comes.
FairSpec == Spec /\ WF_vars(Seek \/ ReadData \/ ReadSum \/ WriteReply \/ ReadAck)
                 /\ WF_vars(Take)

-----------------------------------------------------------------------------
(***************************************************************************)
(* Properties.                                                              *)
(***************************************************************************)

TypeOK ==
  /\ stub.at \in {"start", "data", "sum", "reply", "ack", "lost"}
  /\ Len(stub.buffer) < MaxBuf /\ stub.checksum \in 0 .. (Mod - 1)
  /\ gdb.at \in {"idle", "sent", "reply"}

\* Every packet leaves room in the buffer.
Fit == \A data \in Commands : Len(data) < MaxBuf

\* getpacket: the stub executes each of gdb's packets once, unharmed and in order,
\* however often it was garbled, rejected or sent again.
ExecutesWhatWasSent == IsPrefix(executed, gdb.sent)

\* putpacket: the reply gdb takes is the one to the packet it has just sent, also
\* when replies were rejected and written again, as long as they have room.
RepliesInStep == \A i \in DOMAIN answers : answers[i] = i

\* gdb gets a reply to every packet, unless one was rejected too often.
EveryPacketAnswered == gdb.at # "idle" ~> gdb.at = "idle" \/ stub.at = "lost"
=============================================================================
