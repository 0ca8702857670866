----------------------------- MODULE HostDriver -----------------------------
(***************************************************************************)
(* The host: device of the PSP (usbhostfs/host_driver.c): files opened,     *)
(* read, written, moved in and closed by the threads of programs, over      *)
(* exchanges with the PC that can fail and sessions that can end between    *)
(* any two of them.  A transfer is split in blocks of HOSTFS_MAX_BLOCK      *)
(* bytes, each an exchange of its own, so the calls of several threads      *)
(* interleave block by block.                                               *)
(*                                                                          *)
(* An exchange (command_xchg, modelled in HostFsLink) has one of three      *)
(* outcomes: it is answered; the PC executes it and the answer is lost; it  *)
(* never reaches the PC.  Commands that take a path instead of a handle are *)
(* in HostPath.                                                             *)
(***************************************************************************)
EXTENDS Integers, Sequences, FiniteSets

CONSTANTS Thread,     \* threads of PSP programs, each with one handle at a time
          Fid,        \* ids the PC gives out
          Size,       \* bytes of each file (and room for writing)
          MaxBlock,   \* HOSTFS_MAX_BLOCK
          Lens,       \* lengths programs ask for
          MaxOpen,    \* bound: opens
          MaxFaults,  \* bound: exchanges that fail
          MaxSession  \* bound: sessions with the PC

None == -1

\* What the constants are assumed to be.
DriverAssumption ==
  /\ Fid \subseteq Nat /\ Size \in Nat /\ MaxBlock \in Nat \ {0} /\ Lens \subseteq Int
  /\ MaxOpen \in Nat /\ MaxFaults \in Nat /\ MaxSession \in Nat

VARIABLES connected,  \* usb_connected()
          session,    \* number of the current or last session
          pc,         \* the PC's table: what an id stands for, [open, pos], open = number of the open
          thr,        \* each thread: its handle and its call
          opens,      \* opens so far
          faults,     \* failed exchanges so far
          orphans,    \* files the PC has open after a lost answer or an unsent close
          mistaken    \* an id kept from an ended session reached a file of this one

vars == <<connected, session, pc, thr, opens, faults, orphans, mistaken>>

Closed   == [open |-> 0, pos |-> 0]
NoHandle == [arg |-> None, open |-> 0, session |-> 0]
\* moved: for every byte of the call that reached the buffer or the file, in
\* order, which open and position of the file and which byte of the buffer;
\* eaten: bytes the PC had read or written of a block when it refused it
NoCall   == [op |-> "none", len |-> 0, blocks |-> 0, residual |-> 0, data |-> 0, ret |-> 0,
             start |-> 0, moved |-> <<>>, eaten |-> 0, lost |-> FALSE, short |-> FALSE]

Init ==
  /\ connected = FALSE /\ session = 0
  /\ pc = [f \in Fid |-> Closed]
  /\ thr = [t \in Thread |-> [at |-> "idle", h |-> NoHandle, call |-> NoCall]]
  /\ opens = 0 /\ faults = 0 /\ orphans = {} /\ mistaken = FALSE

-----------------------------------------------------------------------------
(***************************************************************************)
(* The PC and the link.                                                     *)
(***************************************************************************)

\* A session begins, with no file open on the PC (init_hostfs).
Connect ==
  /\ ~connected /\ session < MaxSession
  /\ connected' = TRUE /\ session' = session + 1
  /\ pc' = [f \in Fid |-> Closed] /\ orphans' = {}
  /\ UNCHANGED <<thr, opens, faults, mistaken>>

\* The cable is pulled or usbhostfs_pc ends.
Disconnect ==
  /\ connected
  /\ connected' = FALSE
  /\ UNCHANGED <<session, pc, thr, opens, faults, orphans, mistaken>>

\* Outcomes of command_xchg.
Outcome == {"answered", "unanswered", "unsent"}

command_xchg(outcome) ==
  /\ connected
  /\ IF outcome = "answered" THEN UNCHANGED faults
                             ELSE faults < MaxFaults /\ faults' = faults + 1

\* What the PC knows file id f as.
Opened(f) == f \in Fid /\ pc[f].open # 0

-----------------------------------------------------------------------------
(***************************************************************************)
(* Handles.  io_open and io_dopen differ in the table of the PC they use,   *)
(* as io_close and io_dclose do; one action stands for each pair.  An error *)
(* answer changes nothing and is not a step.                                *)
(***************************************************************************)

\* Mutant of Kept: arg->arg is not set.
KeptNone(f) == None

\* What arg->arg holds after a good answer.
Kept(f) == f

\* Nothing makes a program of an earlier session give up its ids: a command of t
\* with such an id finds another's file, if one is open under it by now.
Mistakes(t) == thr[t].h.session # session /\ Opened(thr[t].h.arg)

io_open(t) ==
  /\ thr[t].at = "idle" /\ thr[t].h.arg = None
  /\ opens < MaxOpen
  /\ \E outcome \in {"answered", "unanswered"}, f \in Fid :
       /\ command_xchg(outcome)
       /\ ~Opened(f) /\ \A g \in Fid : g < f => Opened(g)
       /\ opens' = opens + 1
       /\ pc' = [pc EXCEPT ![f] = [open |-> opens', pos |-> 0]]
       /\ IF outcome = "answered"
          THEN /\ thr' = [thr EXCEPT ![t].h = [arg |-> Kept(f), open |-> opens', session |-> session]]
               /\ UNCHANGED orphans
          ELSE orphans' = orphans \cup {opens'} /\ UNCHANGED thr
  /\ UNCHANGED <<connected, session, mistaken>>

\* Mutant of Reaches: a close is dropped when another call failed before.
ReachesEarly(outcome) == outcome # "unsent" /\ faults = 0

\* The PC executes the command.
Reaches(outcome) == outcome # "unsent"

\* Whatever io_close returns, the program's handle is gone.  With no PC connected
\* nothing is sent.
io_close(t) ==
  LET h == thr[t].h
  IN  /\ thr[t].at = "idle" /\ h.arg # None
      /\ thr' = [thr EXCEPT ![t].h = NoHandle]
      /\ \/ /\ ~connected
            /\ UNCHANGED <<pc, faults, orphans, mistaken>>
         \/ \E outcome \in Outcome :
              /\ command_xchg(outcome)
              /\ IF Reaches(outcome)
                 THEN /\ pc' = [f \in Fid |-> IF f = h.arg THEN Closed ELSE pc[f]]
                      /\ mistaken' = (mistaken \/ Mistakes(t))
                      /\ UNCHANGED orphans
                 ELSE /\ orphans' = IF outcome = "unsent" THEN orphans \cup {h.open} ELSE orphans
                      /\ UNCHANGED <<pc, mistaken>>
      /\ UNCHANGED <<connected, session, opens>>

\* io_lseek moves the position whether or not the answer arrives.
io_lseek(t, ofs) ==
  /\ thr[t].at = "idle" /\ thr[t].h.arg # None /\ Opened(thr[t].h.arg)
  /\ \E outcome \in {"answered", "unanswered"} : command_xchg(outcome)
  /\ pc' = [pc EXCEPT ![thr[t].h.arg].pos = ofs]
  /\ mistaken' = (mistaken \/ Mistakes(t))
  /\ UNCHANGED <<connected, session, thr, opens, orphans>>

-----------------------------------------------------------------------------
(***************************************************************************)
(* usb_read_data and usb_write_data.                                        *)
(***************************************************************************)

Position(t) == IF Opened(thr[t].h.arg) THEN pc[thr[t].h.arg].pos ELSE 0

\* The call, up to the first block; a negative length, length zero and a NULL
\* buffer return at once.
Begin(t, op, len, null) ==
  /\ thr[t].at = "idle" /\ thr[t].h.arg # None
  /\ thr' = [thr EXCEPT
       ![t].at = IF len <= 0 \/ null THEN "done" ELSE "block",
       ![t].call = [NoCall EXCEPT
          !.op = op, !.len = len, !.start = Position(t),
          !.blocks = IF len <= 0 \/ null THEN 0 ELSE len \div MaxBlock,
          !.residual = IF len <= 0 \/ null THEN 0 ELSE len % MaxBlock,
          !.ret = IF len < 0 \/ (null /\ len # 0) THEN -1 ELSE 0]]
  /\ UNCHANGED <<connected, session, pc, opens, faults, orphans, mistaken>>

io_read(t, len, null)  == Begin(t, "read", len, null)
io_write(t, len, null) == Begin(t, "write", len, null)

\* Bytes the next exchange asks for.
Ask(c) == IF c.blocks > 0 THEN MaxBlock ELSE c.residual

\* n bytes at the file's position, to or from the caller's buffer at c.data.
Bytes(t, n) ==
  LET h == thr[t].h
  IN  [i \in 1 .. n |-> <<pc[h.arg].open, pc[h.arg].pos + i, thr[t].call.data + i>>]

\* Mutant of Advance: the pointer moves by the length asked for.
AdvanceAsked(c, res) == c.data + Ask(c)

\* Where the next block goes in the caller's buffer.
Advance(c, res) == c.data + res

\* Mutant of Ended: the residual is forgotten.
EndedAtBlocks(c) == c.blocks <= 1

\* Nothing more to ask for after this exchange: the loop's last round with no
\* residual, or the residual itself.
Ended(c) == (c.blocks = 1 /\ c.residual = 0) \/ c.blocks = 0

\* Mutant of Refused: an error hides the bytes already transferred.
RefusedAlways(c, res) == IF res < 0 THEN res ELSE c.ret

\* The result once a block gets res <= 0: an error only if it came straight away.
Refused(c, res) == IF res < 0 /\ c.ret = 0 THEN res ELSE c.ret

\* Bytes of a refused block that are in the file already: a write's.  What a read
\* had taken from the file before it failed is not sent.
Written(t, n) == IF thr[t].call.op = "write" THEN Bytes(t, n) ELSE <<>>

\* A block the PC answered with res, after it had moved n bytes.
Answered(t, res, n) ==
  LET c == thr[t].call
  IN  IF res > 0
      THEN thr' = [thr EXCEPT
             ![t].at = IF Ended(c) THEN "done" ELSE "block",
             ![t].call = [c EXCEPT !.data = Advance(c, res), !.ret = @ + res,
                            !.blocks = IF @ > 0 THEN @ - 1 ELSE 0,
                            !.moved = @ \o Bytes(t, res),
                            !.short = @ \/ res < Ask(c)]]
      ELSE thr' = [thr EXCEPT
             ![t].at = "done",
             ![t].call = [c EXCEPT !.ret = Refused(c, res), !.short = TRUE, !.eaten = n,
                            !.moved = @ \o Written(t, n)]]

\* A block that fails, or finds no PC connected: -1, whatever came before.
Failed(t) ==
  thr' = [thr EXCEPT ![t].at = "done",
                     ![t].call = [thr[t].call EXCEPT !.ret = -1, !.lost = TRUE]]

\* Results the PC can give for the next block, and the bytes by which it has moved on
\* in the file.  An id that is not open is an error.  fixed_read goes on until the
\* block is full or the file ends, fixed_write until nothing more is taken; an
\* error in any round is the result, whatever the rounds before have moved.
Results(t) ==
  LET h == thr[t].h
      ask  == Ask(thr[t].call)
      left == Size - pc[h.arg].pos
      most == IF left < ask THEN left ELSE ask
      good == IF thr[t].call.op = "read" THEN {most} ELSE 0 .. most
  IN  IF ~Opened(h.arg) THEN {<<-1, 0>>}
      ELSE {<<n, n>> : n \in good} \cup {<<-1, n>> : n \in {m \in 0 .. most : m < ask}}

\* One exchange of the loop of usb_read_data or usb_write_data.
Block(t) ==
  /\ thr[t].at = "block"
  /\ \/ ~connected /\ Failed(t) /\ UNCHANGED <<pc, faults, mistaken>>
     \/ /\ command_xchg("unsent") /\ Failed(t)
        /\ UNCHANGED <<pc, mistaken>>
     \/ \E outcome \in {"answered", "unanswered"}, r \in Results(t) :
          /\ command_xchg(outcome)
          /\ IF outcome = "answered" THEN Answered(t, r[1], r[2]) ELSE Failed(t)
          /\ pc' = IF r[2] > 0 THEN [pc EXCEPT ![thr[t].h.arg].pos = @ + r[2]] ELSE pc
          /\ mistaken' = (mistaken \/ Mistakes(t))
  /\ UNCHANGED <<connected, session, opens, orphans>>

\* The call returns to the program.
Return(t) ==
  /\ thr[t].at = "done"
  /\ thr' = [thr EXCEPT ![t].at = "idle", ![t].call = NoCall]
  /\ UNCHANGED <<connected, session, pc, opens, faults, orphans, mistaken>>

Next ==
  \/ Connect \/ Disconnect
  \/ \E t \in Thread :
       \/ io_open(t) \/ io_close(t)
       \/ \E ofs \in 0 .. Size : io_lseek(t, ofs)
       \/ \E len \in Lens, null \in BOOLEAN : io_read(t, len, null) \/ io_write(t, len, null)
       \/ Block(t) \/ Return(t)

Spec == Init /\ [][Next]_vars

-----------------------------------------------------------------------------
(***************************************************************************)
(* Properties.                                                              *)
(***************************************************************************)

TypeOK ==
  /\ connected \in BOOLEAN /\ session \in 0 .. MaxSession
  /\ pc \in [Fid -> [open : 0 .. MaxOpen, pos : 0 .. Size]]
  /\ opens \in 0 .. MaxOpen /\ faults \in 0 .. MaxFaults /\ orphans \subseteq 1 .. MaxOpen
  /\ \A t \in Thread :
       /\ thr[t].at \in {"idle", "block", "done"}
       /\ thr[t].h.arg \in Fid \cup {None}
       /\ thr[t].at # "idle" => thr[t].h.arg # None
       /\ (thr[t].h.arg = None) = (thr[t].h.open = 0)
       /\ thr[t].call.data \in Nat /\ thr[t].call.ret \in Int
  /\ mistaken \in BOOLEAN

\* n bytes of an open file, after position start, at the start of the buffer.
Run(open, start, n) == [i \in 1 .. n |-> <<open, start + i, i>>]

\* Bytes that are in the file, of a block whose result is an error.
Unreported(c) == IF c.op = "write" THEN c.eaten ELSE 0

\* usb_read_data, usb_write_data: a call that returns n >= 0 has transferred exactly
\* the first n bytes of the caller's buffer, in order, from or to n consecutive
\* bytes of the file it opened, starting where the file stood, and has left the
\* file just after them, also when blocks were short, the session ended on the way
\* or other threads' calls came in between.  Only a block that the PC refused half
\* way makes a difference: the file is then further on by what the PC had moved of
\* it, less than a block, which for a write are the next bytes of the buffer.
TransferExact ==
  \A t \in Thread :
    LET c == thr[t].call
    IN  thr[t].at = "done" /\ c.ret >= 0 =>
          /\ c.moved = Run(thr[t].h.open, c.start, c.ret + Unreported(c))
          /\ c.ret > 0 /\ session = thr[t].h.session /\ Opened(thr[t].h.arg)
               => pc[thr[t].h.arg].pos = c.start + c.ret + c.eaten
          /\ c.eaten > 0 => c.short /\ c.eaten < MaxBlock

\* A negative result means nothing was transferred but what the PC had written of a
\* first block before it refused it, unless an exchange failed: then -1 replaces a
\* count of bytes that did move.
ErrorMovesNothing ==
  \A t \in Thread :
    LET c == thr[t].call
    IN  thr[t].at = "done" /\ c.ret < 0 /\ ~c.lost =>
          c.eaten < MaxBlock /\ c.moved = Run(thr[t].h.open, c.start, Unreported(c))

\* A call returns less than it was asked for only when a block was short or refused.
NoNeedlessShort ==
  \A t \in Thread :
    LET c == thr[t].call
    IN  thr[t].at = "done" /\ 0 <= c.ret /\ c.ret < c.len => c.short

\* While a session lasts, the handle a program got from io_open stands for the very
\* file it opened, and every file open on the PC is some program's or was orphaned
\* by an exchange that failed.
HandlesMatch ==
  connected =>
    /\ \A t \in Thread :
         thr[t].h.session = session /\ thr[t].h.open # 0 =>
           Opened(thr[t].h.arg) /\ pc[thr[t].h.arg].open = thr[t].h.open
    /\ \A f \in Fid : Opened(f) =>
         pc[f].open \in orphans \cup {thr[t].h.open : t \in Thread}

\* What the driver promises of transfers and handles, all of the above, until an id
\* of an ended session is mistaken for one of this.
TransfersExact ==
  ~mistaken => TransferExact /\ ErrorMovesNothing /\ NoNeedlessShort /\ HandlesMatch
=============================================================================
