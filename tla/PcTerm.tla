------------------------------- MODULE PcTerm -------------------------------
(***************************************************************************)
(* pcterm (pcterm/pcterm.c): a select loop that keeps one connection to    *)
(* the PSP's shell, network or serial, sends it the lines typed at a       *)
(* readline prompt and takes the PSP's prompts, which stand between two    *)
(* 0xFF bytes, out of the text it prints.  The peer sends Stream on every  *)
(* connection: "o" is a byte of output, "p" a byte of a prompt, "F" the    *)
(* 0xFF.  File descriptors are numbers and the lowest free one is used.    *)
(***************************************************************************)
EXTENDS Integers, Sequences, FiniteSets, SequencesExt, FiniteSetsExt

CONSTANTS
  Stream,        \* what the peer sends on a connection
  retries,       \* the -r option
  MaxOpens,      \* bound on connections tried
  MaxLines       \* bound on lines typed

\* What the constants are assumed to be.
TermAssumption ==
  /\ Stream \in Seq({"o", "p", "F"}) /\ retries \in Nat
  /\ MaxOpens \in Nat /\ MaxLines \in Nat

VARIABLES
  serialmode,
  state,         \* "IDLE", "CONNECTING", "CONNECTED"
  running,       \* the loop goes on (exit is 0)
  sock,          \* the descriptor, -1 for none
  open,          \* descriptors that are open
  readsave, writesave,           \* descriptors select watches, stdin left out
  conn_sanity,
  sent, taken,   \* bytes of Stream sent on this connection, and read
  linebuf,       \* read_socket's static line buffer; pos is its length
  printed,       \* bytes of Stream printed, and logged, on this connection
  prompt,        \* prompt of the readline handler, <<>> when removed
  prompts,       \* prompts installed on this connection
  torn,          \* history: a read of this connection, or what an earlier one left
                 \* in linebuf, has put read_socket out of step with the marks
  failures,      \* history: attempts that failed since on_connecting last succeeded
  opens, lines

net == <<sent, taken, linebuf, printed, prompt, prompts, torn>>
vars == <<serialmode, state, running, sock, open, readsave, writesave, conn_sanity,
          net, failures, opens, lines>>

Init == /\ serialmode \in BOOLEAN
        /\ state = "IDLE" /\ running = TRUE
        /\ sock = -1 /\ open = {} /\ readsave = {} /\ writesave = {}
        /\ conn_sanity = 0
        /\ sent = 0 /\ taken = 0 /\ linebuf = <<>>
        /\ printed = <<>> /\ prompt = <<>> /\ prompts = 0 /\ torn = FALSE
        /\ failures = 0 /\ opens = 0 /\ lines = 0

(* The descriptor the system gives out; stdin, stdout and stderr are 0..2. *)
NewFd == Min({3, 4, 5} \ open)

(* A connection's counters start again; read_socket's statics do not, so   *)
(* that the part of a prompt which one connection left is taken for the    *)
(* beginning of the next one's.                                            *)
NewConnection ==
  /\ sent' = 0 /\ taken' = 0 /\ printed' = <<>> /\ prompts' = 0
  /\ torn' = (linebuf # <<>>)
  /\ UNCHANGED <<linebuf, prompt>>

(* on_idle in serial mode: the port is open or pcterm ends.                *)
OpenSerial ==
  /\ running /\ state = "IDLE" /\ serialmode /\ opens < MaxOpens
  /\ opens' = opens + 1
  /\ \/ /\ sock' = NewFd /\ open' = open \cup {NewFd}
        /\ readsave' = readsave \cup {NewFd}
        /\ state' = "CONNECTED"
        /\ UNCHANGED running
     \/ running' = FALSE /\ sock' = -1 /\ UNCHANGED <<open, readsave, state>>
  /\ NewConnection
  /\ UNCHANGED <<serialmode, writesave, conn_sanity, failures, lines>>

(* on_idle: a socket that connects in the background, at once, or is       *)
(* refused at once, which ends pcterm.  socket and getsockopt do not fail. *)
(* A connection that stands at once leaves conn_sanity and writesave.      *)
Connect ==
  /\ running /\ state = "IDLE" /\ ~serialmode /\ opens < MaxOpens
  /\ opens' = opens + 1
  /\ sock' = NewFd /\ open' = open \cup {NewFd}
  /\ \/ /\ writesave' = writesave \cup {NewFd}
        /\ state' = "CONNECTING"
        /\ UNCHANGED <<running, readsave, failures>>
     \/ /\ readsave' = readsave \cup {NewFd}
        /\ state' = "CONNECTED"
        /\ UNCHANGED <<running, writesave, failures>>
     \/ /\ running' = FALSE /\ failures' = failures + 1
        /\ UNCHANGED <<readsave, writesave, state>>
  /\ NewConnection
  /\ UNCHANGED <<serialmode, conn_sanity, lines>>

(* on_connecting, when the socket is writable: connected, or try again as  *)
(* often as -r says.  The descriptor stays in writesave when it is closed. *)
on_connecting(ok) ==
  /\ running /\ state = "CONNECTING" /\ sock \in writesave
  /\ IF ok
       THEN /\ conn_sanity' = 0 /\ failures' = 0
            /\ state' = "CONNECTED"
            /\ readsave' = readsave \cup {sock}
            /\ writesave' = writesave \ {sock}
            /\ UNCHANGED <<running, sock, open>>
       ELSE /\ failures' = failures + 1
            /\ IF conn_sanity >= retries
                 THEN running' = FALSE /\ UNCHANGED <<conn_sanity, sock, open, state>>
                 ELSE /\ conn_sanity' = conn_sanity + 1
                      /\ open' = open \ {sock} /\ sock' = -1
                      /\ state' = "IDLE"
                      /\ UNCHANGED running
            /\ UNCHANGED <<readsave, writesave>>
  /\ UNCHANGED <<serialmode, net, opens, lines>>

-----------------------------------------------------------------------------
(* The peer sends another byte.                                            *)
PeerSends ==
  /\ running /\ state = "CONNECTED" /\ sent < Len(Stream)
  /\ sent' = sent + 1
  /\ UNCHANGED <<serialmode, state, running, sock, open, readsave, writesave, conn_sanity,
                 taken, linebuf, printed, prompt, prompts, torn, failures, opens, lines>>

(* Position i of Stream is inside a prompt: an odd number of 0xFF so far.  *)
Within(i) == Cardinality({k \in 1 .. i : Stream[k] = "F"}) % 2 = 1

(* Bytes of prompts are inside, bytes of output outside.                   *)
StreamInOrder ==
  \A k \in 1 .. Len(Stream) : /\ Stream[k] = "p" => Within(k)
                              /\ Stream[k] = "o" => ~Within(k)

(* Reads of n bytes that read_socket does not follow: one that ends right  *)
(* behind the mark that opens a prompt, of which nothing is kept then; one *)
(* with the marks of more than one prompt, of which it finds one; and one  *)
(* inside a prompt that does not close it and is printed.                  *)
Tears(n) ==
  LET chunk == SubSeq(Stream, taken + 1, taken + n)
      marks == Cardinality({k \in 1 .. n : chunk[k] = "F"})
  IN \/ Within(taken + n) /\ Stream[taken + n] = "F"
     \/ marks > 2
     \/ Within(taken) /\ marks # 1

FirstMark(s) == SelectInSeq(s, LAMBDA b : b = "F")

\* Mutant of PromptIn.
Discards(buf) ==
  LET start == FirstMark(buf)
      rest == SubSeq(buf, start + 1, Len(buf))
      end == FirstMark(rest)
  IN IF start = 0 \/ end = 0
       THEN [text |-> buf, keep |-> <<>>, found |-> FALSE, prompt |-> <<>>]
       ELSE [text |-> SubSeq(buf, 1, start - 1) \o SubSeq(rest, end + 1, Len(rest)),
             keep |-> <<>>, found |-> TRUE, prompt |-> SubSeq(rest, 1, end - 1)]

(* The prompt search of read_socket: with nothing kept (pos is 0) the      *)
(* first mark opens a prompt; with something kept the first mark closes    *)
(* it.  A part that is kept and not closed is printed all the same.        *)
PromptIn(buf) ==
  LET m == FirstMark(buf)
      rest == SubSeq(buf, m + 1, Len(buf))
      end == FirstMark(rest)
  IN IF linebuf = <<>>
       THEN IF m = 0 THEN [text |-> buf, keep |-> <<>>, found |-> FALSE, prompt |-> <<>>]
            ELSE IF end # 0
              THEN [text |-> SubSeq(buf, 1, m - 1) \o SubSeq(rest, end + 1, Len(rest)),
                    keep |-> <<>>, found |-> TRUE, prompt |-> SubSeq(rest, 1, end - 1)]
              ELSE [text |-> SubSeq(buf, 1, m - 1), keep |-> rest, found |-> FALSE,
                    prompt |-> <<>>]
       ELSE IF m # 0
         THEN [text |-> rest, keep |-> <<>>, found |-> TRUE,
               prompt |-> linebuf \o SubSeq(buf, 1, m - 1)]
         ELSE [text |-> buf, keep |-> linebuf \o buf, found |-> FALSE, prompt |-> <<>>]

(* read_socket                                                             *)
Read ==
  /\ running /\ state = "CONNECTED" /\ sock \in readsave
  /\ \E n \in 1 .. sent - taken :
       /\ torn' = (torn \/ Tears(n))
       /\ LET r == PromptIn(SubSeq(Stream, taken + 1, taken + n))
          IN /\ printed' = printed \o r.text
             /\ linebuf' = r.keep
             /\ prompt' = IF r.found THEN r.prompt ELSE prompt
             /\ prompts' = IF r.found THEN prompts + 1 ELSE prompts
       /\ taken' = taken + n
  /\ UNCHANGED <<serialmode, state, running, sock, open, readsave, writesave, conn_sanity,
                 sent, failures, opens, lines>>

(* The socket is closed; readsave keeps its number, and read_socket what   *)
(* it kept of a prompt.                                                    *)
Disconnect ==
  /\ open' = open \ {sock} /\ sock' = -1
  /\ state' = "IDLE"

(* read returns an error or the end of the stream.                         *)
PeerLost ==
  /\ running /\ state = "CONNECTED" /\ sock \in readsave
  /\ taken = sent
  /\ Disconnect
  /\ UNCHANGED <<serialmode, running, readsave, writesave, conn_sanity, net, failures,
                 opens, lines>>

(* cli_handler: "exit" ends pcterm and is sent on, "close" is not; "!" is  *)
(* a local command; "@" leaves the prompt.  execute_line sends nothing     *)
(* unless connected, and a failed write closes the socket.                 *)
cli_handler(line) ==
  /\ running /\ lines < MaxLines
  /\ lines' = lines + 1
  /\ running' = (line \notin {"exit", "close"})
  /\ prompt' = IF line \in {"!", "@"} THEN prompt ELSE <<>>
  /\ \/ UNCHANGED <<open, sock, state>>
     \/ line \notin {"close", "!"} /\ state = "CONNECTED" /\ Disconnect
  /\ UNCHANGED <<serialmode, readsave, writesave, conn_sanity, sent, taken, linebuf, printed,
                 prompts, torn, failures, opens>>

(* ALT+R, ALT+S and ALT+K: a line, or in serial mode a character.          *)
Key ==
  /\ running /\ lines < MaxLines
  /\ lines' = lines + 1
  /\ ~serialmode /\ state = "CONNECTED" /\ Disconnect
  /\ UNCHANGED <<serialmode, running, readsave, writesave, conn_sanity, net, failures, opens>>

Next == \/ OpenSerial \/ Connect \/ PeerSends \/ Read \/ PeerLost \/ Key
        \/ \E ok \in BOOLEAN : on_connecting(ok)
        \/ \E line \in {"ls", "exit", "close", "!", "@"} : cli_handler(line)

Spec == Init /\ [][Next]_vars

-----------------------------------------------------------------------------
TypeOK ==
  /\ state \in {"IDLE", "CONNECTING", "CONNECTED"}
  /\ sock \in open \cup {-1}
  /\ taken \in 0 .. sent /\ sent \in 0 .. Len(Stream)
  /\ conn_sanity \in 0 .. retries

(* Whenever the loop waits in select, all descriptors it waits for are     *)
(* open, although nothing ever takes a closed socket out of the sets; and  *)
(* the socket it has is among them, so that it will be told.               *)
Selectable ==
  (running /\ state # "IDLE") =>
    /\ readsave \cup writesave \subseteq open
    /\ sock \in IF state = "CONNECTED" THEN readsave ELSE writesave

(* A connected terminal does not wait for its socket to become writable,   *)
(* which it nearly always is: the loop would never sleep.  It does so when *)
(* an attempt in the background failed and the next stood at once.         *)
WaitsQuietly == (running /\ state = "CONNECTED" /\ failures = 0) => sock \notin writesave

(* "-r retries: Number of connection retries": that many, counted from the *)
(* last connection made in the background, and pcterm only gives up after  *)
(* them.                                                                   *)
RetriesAsAsked ==
  /\ failures' <= retries + 1
  /\ (failures' # failures /\ state = "CONNECTING" /\ ~running') => failures' = retries + 1

(* When all that a connection sent has been read, each of its prompts has  *)
(* been installed and the text printed is the text sent without them,      *)
(* whatever earlier connections met, unless a read of this one tore its    *)
(* marks or it began with a part of a prompt left over.                    *)
PromptsSeen ==
  (running /\ state = "CONNECTED" /\ taken = sent /\ ~Within(taken) /\ ~torn) =>
    /\ prompts = Cardinality({k \in 1 .. taken : Stream[k] = "F"}) \div 2
    /\ printed \in Seq({"o"})
    /\ Len(printed) = Cardinality({k \in 1 .. taken : Stream[k] = "o"})
=============================================================================
