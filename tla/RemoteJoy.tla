----------------------------- MODULE RemoteJoy -----------------------------
(***************************************************************************)
(* remotejoy: a PC program (tools/remotejoy/pc/remotejoy.c) sends the      *)
(* changes of a joystick as events of three words over the asynchronous    *)
(* channel of usbhostfs_pc, and a module on the PSP                        *)
(* (tools/remotejoy/main.c) adds them to what programs read of the pad.    *)
(* usbhostfs_pc passes on what it read in pieces of at most Chunk words;   *)
(* the channel's ring on the PSP drops the words it has no room for.       *)
(* A word is a record: k says what it is, n which event it is of.          *)
(***************************************************************************)
EXTENDS Integers, Sequences, FiniteSets, SequencesExt

CONSTANTS
  buttmap,       \* g_buttmap: joystick button -> PSP button
  analog,        \* TRUE: the first stick is the analog one as well
  Positions,     \* values an axis reports
  tol,           \* an axis beyond it is a direction
  Chunk,         \* words usbhostfs_pc reads at once: (512 - 8) / 4
  BufSize,       \* words of an AsyncEndpoint's buffer: 4096 / 4
  MaxEvents      \* bound on events sent

Directions == {"UP", "DOWN", "LEFT", "RIGHT"}

\* What the constants are assumed to be; map_names has no directions.
JoyAssumption ==
  /\ \A b \in DOMAIN buttmap : buttmap[b] \notin Directions
  /\ Positions \subseteq -32767 .. 32767 /\ 0 \in Positions /\ tol \in Nat
  /\ Chunk \in Nat /\ Chunk % 3 = 0 /\ Chunk > 0
  /\ BufSize \in Nat /\ BufSize >= 3 /\ BufSize % 3 # 2

VARIABLES
  running,       \* remotejoy has not ended
  held, stick,   \* the joystick itself: buttons down, position of its axes
  button_state,  \* remotejoy's idea of the PSP buttons that are down
  nsent,         \* events sent
  wire,          \* words in the socket to usbhostfs_pc
  ring,          \* words in the endpoint's buffer
  lost,          \* words were dropped for want of room
  pc,            \* of the PSP's thread: "read" or "flush"
  Buttons, axis, \* g_currjoy
  last           \* words the last event applied was made of

vars == <<running, held, stick, button_state, nsent, wire, ring, lost, pc, Buttons, axis, last>>
psp == <<ring, lost, pc, Buttons, axis, last>>

(* Axis 0 is Lx and LEFT, RIGHT; axis 1 is Ly and UP, DOWN.                *)
Dir == [a \in 0 .. 1 |-> IF a = 1 THEN [neg |-> "UP", pos |-> "DOWN"]
                                  ELSE [neg |-> "LEFT", pos |-> "RIGHT"]]

Init == /\ running = TRUE
        /\ held = {} /\ stick = [a \in 0 .. 1 |-> 0]
        /\ button_state = {} /\ nsent = 0 /\ wire = <<>>
        /\ ring = <<>> /\ lost = FALSE /\ pc = "read"
        /\ Buttons = {} /\ axis = [a \in 0 .. 1 |-> 128] /\ last = <<>>

(* The words of events, each [type, value]; the first has number n.        *)
Words(events, n) == [i \in 1 .. 3 * Len(events) |->
  LET e == (i + 2) \div 3
  IN  CASE i % 3 = 1 -> [k |-> "magic", n |-> n + e - 1]
        [] i % 3 = 2 -> [k |-> "type",  n |-> n + e - 1, x |-> events[e].type]
        [] i % 3 = 0 -> [k |-> "value", n |-> n + e - 1, x |-> events[e].value]]

(* send_event for each of a sequence of events.                            *)
Sends(events) ==
  /\ nsent + Len(events) <= MaxEvents
  /\ nsent' = nsent + Len(events)
  /\ wire' = wire \o Words(events, nsent + 1)

(* An event for each button of a set.                                      *)
Each(type, buttons) ==
  [i \in 1 .. Cardinality(buttons) |-> [type |-> type, value |-> SetToSeq(buttons)[i]]]

(* JS_EVENT_BUTTON                                                         *)
Button(b) ==
  /\ running
  /\ LET down == b \notin held
         bitmap == buttmap[b]
     IN /\ held' = IF down THEN held \cup {b} ELSE held \ {b}
        /\ button_state' = IF down THEN button_state \cup {bitmap} ELSE button_state \ {bitmap}
        /\ Sends(<<[type |-> IF down THEN "down" ELSE "up", value |-> bitmap]>>)
  /\ UNCHANGED <<running, stick, psp>>

(* Directions of axis a that are down and no longer meant: at most one.    *)
Released(a, curr_butt) == {Dir[a].neg, Dir[a].pos} \cap (button_state \ curr_butt)

(* An axis as the PSP has it, 0 .. 255.                                    *)
Scale(v) == ((v + 32767) * 255) \div (2 * 32767)

(* JS_EVENT_AXIS: axis a moved to v.                                       *)
Axis(a, v) ==
  /\ running /\ v # stick[a]
  /\ stick' = [stick EXCEPT ![a] = v]
  /\ LET curr_butt == CASE v > tol -> {Dir[a].pos} [] v < -tol -> {Dir[a].neg} [] OTHER -> {}
         up == Released(a, curr_butt)
     IN /\ button_state' = (button_state \ up) \cup curr_butt
        /\ Sends(Each("up", up) \o Each("down", curr_butt \ button_state)
                   \o IF analog THEN <<[type |-> "analog", value |-> <<a, Scale(v)>>]>> ELSE <<>>)
  /\ UNCHANGED <<running, held, psp>>

(* A signal, or the joystick goes away: what is held stays held.           *)
Stop == running /\ running' = FALSE
        /\ UNCHANGED <<held, stick, button_state, nsent, wire, psp>>

-----------------------------------------------------------------------------
\* Mutant of Forward.
KeepsTwoFree ==
  /\ wire # <<>>
  /\ LET n == IF Len(wire) < Chunk THEN Len(wire) ELSE Chunk
         free == BufSize - 2 - Len(ring)
         fits == IF n < free THEN n ELSE free
     IN /\ wire' = SubSeq(wire, n + 1, Len(wire))
        /\ ring' = ring \o SubSeq(wire, 1, fits)
        /\ lost' = (lost \/ fits < n)
  /\ UNCHANGED <<running, held, stick, button_state, nsent, pc, Buttons, axis, last>>

(* async_thread of usbhostfs_pc reads a piece; the ring takes what fits.   *)
Forward ==
  /\ wire # <<>>
  /\ LET n == IF Len(wire) < Chunk THEN Len(wire) ELSE Chunk
         free == BufSize - Len(ring)
         fits == IF n < free THEN n ELSE free
     IN /\ wire' = SubSeq(wire, n + 1, Len(wire))
        /\ ring' = ring \o SubSeq(wire, 1, fits)
        /\ lost' = (lost \/ fits < n)
  /\ UNCHANGED <<running, held, stick, button_state, nsent, pc, Buttons, axis, last>>

(* The switch of main_thread.  A type that is none of the four is left     *)
(* alone.                                                                  *)
Apply(type, value) ==
  IF type.k # "type" THEN UNCHANGED <<Buttons, axis, last>>
  ELSE /\ last' = <<type, value>>
       /\ IF value.k # "value" THEN UNCHANGED <<Buttons, axis>>
          ELSE /\ Buttons' = CASE type.x = "down" -> Buttons \cup {value.x}
                               [] type.x = "up" -> Buttons \ {value.x}
                               [] OTHER -> Buttons
               /\ axis' = IF type.x = "analog" THEN [axis EXCEPT ![value.x[1]] = value.x[2]]
                          ELSE axis

(* len is sizeof(joyevent) and the magic is right.                         *)
Valid(w) == Len(w) = 3 /\ w[1].k = "magic"

(* main_thread reads an event.                                             *)
Read ==
  /\ pc = "read" /\ ring # <<>>
  /\ LET n == IF Len(ring) < 3 THEN Len(ring) ELSE 3
         w == SubSeq(ring, 1, n)
     IN /\ ring' = SubSeq(ring, n + 1, Len(ring))
        /\ IF Valid(w) THEN Apply(w[2], w[3]) /\ UNCHANGED pc
           ELSE pc' = "flush" /\ UNCHANGED <<Buttons, axis, last>>
  /\ UNCHANGED <<running, held, stick, button_state, nsent, wire, lost>>

(* usbAsyncFlush after the message of the invalid read.                    *)
Flush ==
  /\ pc = "flush" /\ pc' = "read"
  /\ ring' = <<>>
  /\ UNCHANGED <<running, held, stick, button_state, nsent, wire, lost, Buttons, axis, last>>

(* add_values of the hooked pad functions: what a program is told is down, *)
(* or with neg, not down.                                                  *)
add_values(pad, neg) == IF neg THEN pad \ Buttons ELSE pad \cup Buttons

Abs(x) == IF x < 0 THEN -x ELSE x

(* Of the pad's own axis and g_currjoy's the one that is further out.      *)
map_axis(real, new) == IF Abs(real - 127) > Abs(new - 127) THEN real ELSE new

Next == \/ \E b \in DOMAIN buttmap : Button(b)
        \/ \E a \in 0 .. 1, v \in Positions : Axis(a, v)
        \/ Stop \/ Forward \/ Read \/ Flush

Spec == Init /\ [][Next]_vars
(* usbhostfs_pc's select loop and the PSP's thread run whenever there is   *)
(* something to read.                                                      *)
FairSpec == Spec /\ WF_vars(Forward) /\ WF_vars(Read) /\ WF_vars(Flush)

-----------------------------------------------------------------------------
PspButtons == {buttmap[b] : b \in DOMAIN buttmap} \cup Directions

TypeOK ==
  /\ Len(ring) <= BufSize
  /\ Buttons \subseteq PspButtons /\ button_state \subseteq PspButtons
  /\ pc \in {"read", "flush"}

(* The joystick's buttons that are button p of the PSP: from the ninth on  *)
(* the map starts over, and a map file may leave two on one.               *)
Meaning(p) == {b \in DOMAIN buttmap : buttmap[b] = p}

(* remotejoy's button_state is what the joystick does: a button of the PSP *)
(* is down when all of those that mean it are held and up when none is,    *)
(* and of the directions those of the stick are down, never two opposite   *)
(* ones.                                                                   *)
FollowsJoystick ==
  /\ \A b \in DOMAIN buttmap :
       /\ Meaning(buttmap[b]) \subseteq held => buttmap[b] \in button_state
       /\ Meaning(buttmap[b]) \cap held = {} => buttmap[b] \notin button_state
  /\ button_state \cap Directions =
       {Dir[a].pos : a \in {c \in 0 .. 1 : stick[c] > tol}}
         \cup {Dir[a].neg : a \in {c \in 0 .. 1 : stick[c] < -tol}}

(* Whatever the ring dropped and wherever reading went on, an event that   *)
(* the PSP applies is one that was sent: type and value of the same event. *)
OnlySent == last # <<>> => (last[2].k = "value" /\ last[1].n = last[2].n)

(* Events are applied in the order they were sent, none twice.             *)
InOrder == last' # last => (last = <<>> \/ last'[1].n > last[1].n)

(* Unless the ring overflowed, a PSP that has read all events has the      *)
(* buttons down, on every hooked read, that remotejoy meant, and an axis   *)
(* where the joystick has it, or where the pad has it further out.         *)
Agrees == (~lost /\ wire = <<>> /\ ring = <<>>) =>
            /\ add_values({}, FALSE) = button_state
            /\ add_values(PspButtons, TRUE) = PspButtons \ button_state
            /\ analog => \A a \in 0 .. 1, real \in {0, 127, 255} :
                 LET seen == map_axis(real, axis[a])
                 IN \/ seen = Scale(stick[a])
                    \/ Abs(seen - real) <= 1 /\ Abs(real - 127) >= Abs(Scale(stick[a]) - 127)

(* Every event sent is dealt with, and reading goes on after an overflow.  *)
Drains == <>[](wire = <<>> /\ ring = <<>> /\ pc = "read")
=============================================================================
