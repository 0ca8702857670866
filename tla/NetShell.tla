------------------------------ MODULE NetShell ------------------------------
(***************************************************************************)
(* The shell over the network (netshell/main.c) and the module that brings  *)
(* the network up (modnet/main.c).  The server thread of netshell serves    *)
(* one connection after the other; what any thread prints goes through      *)
(* wifiPrint into the one buffer g_data, which only the server thread       *)
(* empties.  Nothing but g_size keeps two threads from filling it at once.  *)
(*                                                                          *)
(* A character is "c" or "nl"; what is printed is a number, 0 the prompt.   *)
(***************************************************************************)
EXTENDS Integers, Sequences, SequencesExt

CONSTANTS Printer,    \* threads that print, the server apart
          Sizes,      \* sizes of what they print
          DataSize,   \* sizeof(g_data), 4096
          MaxConn,    \* bound: connections
          MaxPrints,  \* bound: calls of wifiPrint by Printer
          MaxChars    \* bound: characters of all connections

\* What the constants are assumed to be.
NetShellAssumption ==
  /\ Sizes \subseteq Nat /\ DataSize \in Nat \ {0}
  /\ MaxConn \in Nat /\ MaxPrints \in Nat /\ MaxChars \in Nat

VARIABLES modnet,     \* "off", "event", "net", "up" or "failed"
          g_ipaddr,   \* TRUE once it is set
          server,     \* where the server thread is
          g_currsock, \* number of the connection, 0 for none
          peer,       \* its other end is there
          g_size,     \* bytes of g_data that wait to be sent
          g_data,     \* the text it holds
          printer,    \* each printer: [at, text]
          prints,     \* history: the sizes of the texts given to wifiPrint
          crossed,    \* history: a thread ended its wait with another about to fill g_data
          overrun,    \* a text was copied that is longer than g_data
          wire,       \* characters on their way to the server
          data, pos,  \* of start_server; pos: the connections of the characters collected
          conns, chars,
          delivered,  \* history: texts sent, [text, size]
          lines, commands \* history: line ends taken from the wire, lines given to psplinkParseCommand

vars == <<modnet, g_ipaddr, server, g_currsock, peer, g_size, g_data, printer, prints, crossed,
          overrun, wire, data, pos, conns, chars, delivered, lines, commands>>
up     == <<modnet, g_ipaddr>>
buffer == <<g_size, g_data, overrun, delivered>>
output == <<buffer, printer, prints, crossed>>
input  == <<wire, data, pos, chars, lines, commands>>

Init ==
  /\ modnet = "off" /\ g_ipaddr = FALSE
  /\ server = "start" /\ g_currsock = 0 /\ peer = FALSE
  /\ g_size = 0 /\ g_data = 0 /\ printer = [p \in Printer |-> [at |-> "idle", text |-> 0]]
  /\ prints = <<>> /\ crossed = FALSE /\ overrun = FALSE /\ wire = <<>> /\ data = "c" /\ pos = <<>>
  /\ conns = 0 /\ chars = 0 /\ delivered = <<>> /\ lines = 0 /\ commands = <<>>

-----------------------------------------------------------------------------
(***************************************************************************)
(* modnet.                                                                  *)
(***************************************************************************)

\* Mutant of Stages: the event is set before the connection is there.
StagesEarly == [off |-> "event", event |-> "up", net |-> "up"]

\* The event flag, the network and the access point, one after the other.
Stages == [off |-> "event", event |-> "net", net |-> "up"]

\* main of modnet: each stage comes about or fails; waiting for the WLAN switch is
\* part of the second.
ModNet ==
  /\ modnet \in {"off", "event", "net"}
  /\ modnet' \in {Stages[modnet], "failed"}
  /\ g_ipaddr' = (modnet = "net" /\ modnet' = "up")
  /\ UNCHANGED <<server, g_currsock, peer, conns, output, input>>

\* modNetIsInit gives up while there is no event flag; netshell sleeps.
GiveUp ==
  /\ server = "start" /\ modnet = "off"
  /\ server' = "asleep"
  /\ UNCHANGED <<up, g_currsock, peer, conns, output, input>>

\* modNetIsInit returns: the server socket is made, or cannot be.
Listen ==
  /\ server = "start" /\ modnet = "up"
  /\ server' \in {"accept", "asleep"}
  /\ UNCHANGED <<up, g_currsock, peer, conns, output, input>>

-----------------------------------------------------------------------------
(***************************************************************************)
(* start_server.                                                            *)
(***************************************************************************)

\* A connection is accepted and welcomed.
Accept ==
  /\ server = "accept" /\ conns < MaxConn
  /\ conns' = conns + 1 /\ g_currsock' = conns' /\ peer' = TRUE /\ wire' = <<>>
  /\ server' = "prompt"
  /\ UNCHANGED <<up, output, data, pos, chars, lines, commands>>

\* A thread is past its wait in wifiPrint and has not set g_size.
Filling == server \in {"fill", "size"} \/ \E p \in Printer : printer[p].at \in {"fill", "size"}

\* psplinkPrintPrompt comes to wifiPrint in the server thread: it waits for an empty
\* buffer, copies the prompt and sets the size.
PromptWait ==
  /\ server = "prompt" /\ g_size = 0
  /\ server' = "fill" /\ crossed' = (crossed \/ Filling)
  /\ UNCHANGED <<up, g_currsock, peer, conns, buffer, printer, prints, input>>

PromptFill ==
  /\ \/ server = "fill" /\ g_data' = 0 /\ server' = "size" /\ UNCHANGED g_size
     \/ server = "size" /\ g_size' = 1 /\ server' = "loop" /\ UNCHANGED g_data
  /\ UNCHANGED <<up, g_currsock, peer, conns, printer, prints, crossed, overrun, delivered, input>>

\* The buffer is sent, or the connection turns out to be gone.
Send ==
  /\ server = "loop" /\ g_size # 0
  /\ \/ /\ delivered' = Append(delivered, [text |-> g_data, size |-> g_size])
        /\ server' = "sent" /\ UNCHANGED g_currsock
     \/ /\ ~peer
        /\ g_currsock' = 0 /\ server' = "accept"
        /\ UNCHANGED delivered
  /\ UNCHANGED <<up, peer, g_size, g_data, printer, prints, crossed, overrun, conns, input>>

\* What was sent is out of the buffer.
Clear ==
  /\ server = "sent"
  /\ g_size' = 0 /\ server' = "recv"
  /\ UNCHANGED <<up, g_currsock, peer, g_data, printer, prints, crossed, overrun, delivered,
                 conns, input>>

NothingToSend ==
  /\ server = "loop" /\ g_size = 0
  /\ server' = "recv"
  /\ UNCHANGED <<up, g_currsock, peer, conns, output, input>>

\* Mutant of Collected: the line is not begun anew.
CollectedOn(c) == IF c = "nl" THEN pos ELSE Append(pos, g_currsock)

\* The characters collected once c has come.
Collected(c) == IF c = "nl" THEN <<>> ELSE Append(pos, g_currsock)

\* A line end after some characters gives the line to psplinkParseCommand.
Taken(c) ==
  /\ pos' = Collected(c) /\ data' = c
  /\ commands' = IF c = "nl" /\ pos # <<>> THEN Append(commands, pos) ELSE commands

\* A character; none yet; or, from a connection whose other end is gone, the number 0,
\* which is no error, with the last character still in data.
Recv ==
  /\ server = "recv"
  /\ \/ /\ wire # <<>>
        /\ Taken(Head(wire)) /\ wire' = Tail(wire)
        /\ lines' = lines + (IF Head(wire) = "nl" THEN 1 ELSE 0)
     \/ /\ wire = <<>> /\ ~peer
        /\ Len(pos) < MaxChars   \* sizeof(cli)
        /\ Taken(data) /\ UNCHANGED <<wire, lines>>
     \/ /\ wire = <<>> /\ (peer \/ Len(pos) = MaxChars)
        /\ UNCHANGED <<wire, pos, data, commands, lines>>
  /\ server' = "loop"
  /\ UNCHANGED <<up, g_currsock, peer, conns, chars, output>>

-----------------------------------------------------------------------------
(***************************************************************************)
(* The other end, and the threads that print.                               *)
(***************************************************************************)

Key(c) ==
  /\ peer /\ g_currsock # 0 /\ chars < MaxChars
  /\ wire' = Append(wire, c) /\ chars' = chars + 1
  /\ UNCHANGED <<up, server, g_currsock, peer, conns, output, data, pos, lines, commands>>

HangUp ==
  /\ peer /\ g_currsock # 0 /\ peer' = FALSE
  /\ UNCHANGED <<up, server, g_currsock, conns, output, input>>

wifiPrint(p) ==
  /\ printer[p].at = "idle" /\ g_currsock # 0 /\ Len(prints) < MaxPrints
  /\ \E size \in Sizes : prints' = Append(prints, size)
  /\ printer' = [printer EXCEPT ![p] = [at |-> "spin", text |-> Len(prints')]]
  /\ UNCHANGED <<up, server, g_currsock, peer, conns, buffer, crossed, input>>

\* Mutant of PrintWait: a text is copied over one that waits to be sent.
WaitsNot(p) ==
  /\ printer[p].at = "spin"
  /\ printer' = [printer EXCEPT ![p].at = "fill"]
  /\ crossed' = (crossed \/ Filling)
  /\ UNCHANGED <<up, server, g_currsock, peer, conns, buffer, prints, input>>

\* The wait for an empty buffer ends.
PrintWait(p) ==
  /\ printer[p].at = "spin" /\ g_size = 0
  /\ printer' = [printer EXCEPT ![p].at = "fill"]
  /\ crossed' = (crossed \/ Filling)
  /\ UNCHANGED <<up, server, g_currsock, peer, conns, buffer, prints, input>>

\* memcpy, of any size.
PrintFill(p) ==
  /\ printer[p].at = "fill"
  /\ g_data' = printer[p].text
  /\ overrun' = (prints[printer[p].text] > DataSize)
  /\ printer' = [printer EXCEPT ![p].at = "size"]
  /\ UNCHANGED <<up, server, g_currsock, peer, conns, g_size, prints, crossed, delivered, input>>

PrintSize(p) ==
  /\ printer[p].at = "size"
  /\ g_size' = prints[printer[p].text]
  /\ printer' = [printer EXCEPT ![p].at = "idle"]
  /\ UNCHANGED <<up, server, g_currsock, peer, conns, g_data, prints, crossed, overrun,
                 delivered, input>>

Serve == Accept \/ PromptWait \/ PromptFill \/ Send \/ Clear \/ NothingToSend \/ Recv
Output(p) == wifiPrint(p) \/ PrintWait(p) \/ PrintFill(p) \/ PrintSize(p)

\* A text that runs over g_data writes over what lies behind it: what the program
\* does from there on is not modelled.
Next ==
  /\ ~overrun
  /\ \/ ModNet \/ GiveUp \/ Listen \/ Serve
     \/ HangUp \/ Key("c") \/ Key("nl")
     \/ \E p \in Printer : Output(p)

Spec == Init /\ [][Next]_vars

-----------------------------------------------------------------------------
(***************************************************************************)
(* Properties.                                                              *)
(***************************************************************************)

\* Where the server is while it has a connection.
Serving == {"prompt", "fill", "size", "loop", "sent", "recv"}

TypeOK ==
  /\ server \in {"start", "asleep", "accept"} \cup Serving
  /\ g_currsock \in 0 .. MaxConn /\ (g_currsock # 0) = (server \in Serving)
  /\ g_data \in 0 .. MaxPrints /\ g_size \in 0 .. DataSize
  /\ crossed \in BOOLEAN /\ overrun \in BOOLEAN

\* modNetIsInit: the server listens, and prints its address, only when the access
\* point has given it one.
ListensWhenUp == server \in {"accept"} \cup Serving => g_ipaddr

\* Whatever the connections do, a line is run only because a line end was sent; also
\* with an other end that is gone, whose last character is read again and again.
OneCommandPerLine == Len(commands) <= lines

\* What a thread prints is sent once at most, and whole, as long as no two threads
\* ended their wait for g_size together; after that one's text may be sent in the
\* other's size, and again.
PrintedOnce ==
  ~crossed =>
    /\ \A i, j \in DOMAIN delivered :
         i # j /\ delivered[i].text = delivered[j].text => delivered[i].text = 0
    /\ \A i \in DOMAIN delivered :
         delivered[i].text # 0 => delivered[i].size = prints[delivered[i].text]
=============================================================================
