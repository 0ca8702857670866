---------------------------- MODULE AddressCalc ----------------------------
(***************************************************************************)
(* psplink's address calculator (psplink/decodeaddr.c): parse_line walks   *)
(* one line from left to right with a pending operator, a count of         *)
(* dereferences and a count of complements, and calls itself for a         *)
(* bracket.  The line is a sequence of tokens: a number, the letter that   *)
(* passes is_hex and that strtoul does not take, a register or symbol, a   *)
(* module expression, a bracket or an operator.  An unsigned int has       *)
(* Width bits.                                                             *)
(***************************************************************************)
EXTENDS Integers, Sequences, SequencesExt, Bitwise

CONSTANTS
  Width,      \* bits of an unsigned int
  Lines,      \* the lines that may be typed: [toks, ref], ref being <<>> or
              \* <<the answer due>>
  Memory,     \* word address -> the word found there
  Modules,    \* loaded modules: uid -> [text, stext, sdata, sbss, seg, sseg, exports]
  Threads     \* threads: uid -> [entry, stack, sstack]

\* What the constants are assumed to be.
WidthAssumption == Width \in Nat \ {0}

VARIABLES
  input,      \* the line being decoded
  frames,     \* activations of parse_line, the innermost last
  loads,      \* addresses dereferenced so far
  done,       \* memDecode has returned
  answer      \* <<>> while busy or when the line is refused, else <<value>>

vars == <<input, frames, loads, done, answer>>

Word == 0 .. 2^Width - 1
Values == {"num", "alpha", "name", "unknown", "mod", "thread", "sym", "("}
Operators == {"+", "-", "/", "*", "&", "|", "^", "<<", ">>", "&&", "||",
              "==", "!=", "<", "<=", ">", ">="}

(* The state of parse_line on entry: op is OP_START, nothing is pending.   *)
Entry(i) == [pos |-> i, op |-> "START", deref |-> 0, not |-> 0, val |-> 0]

Init == /\ input \in Lines
        /\ frames = <<Entry(1)>>
        /\ loads = {}
        /\ done = FALSE
        /\ answer = <<>>

Top == frames[Len(frames)]
At(i) == input.toks[i]

(* ~x on an unsigned int.                                                 *)
Complement(x) == 2^Width - 1 - x

(* do_op: left and right are combined; no operator means right replaces    *)
(* left.  Dividing by zero is answered with the initial ret, 1.  A shift   *)
(* count is taken modulo the width, which is what sllv does.               *)
do_op(op, not, left, right) ==
  LET r == IF not % 2 = 1 THEN Complement(right) ELSE right
      truth(b) == IF b THEN 1 ELSE 0
  IN CASE op = "+"  -> (left + r) % 2^Width
       [] op = "-"  -> (left - r) % 2^Width
       [] op = "*"  -> (left * r) % 2^Width
       [] op = "/"  -> IF r # 0 THEN left \div r ELSE 1
       [] op = "&"  -> left & r
       [] op = "|"  -> left | r
       [] op = "^"  -> left ^^ r
       [] op = "<<" -> (left * 2^(r % Width)) % 2^Width
       [] op = ">>" -> left \div 2^(r % Width)
       [] op = "&&" -> truth(left # 0 /\ r # 0)
       [] op = "||" -> truth(left # 0 \/ r # 0)
       [] op = "==" -> truth(left = r)
       [] op = "!=" -> truth(left # r)
       [] op = "<"  -> truth(left < r)
       [] op = "<=" -> truth(left <= r)
       [] op = ">"  -> truth(left > r)
       [] op = ">=" -> truth(left >= r)
       [] OTHER     -> r

\* Mutant of deref_addr.
CheckedOnce(val, deref) ==
  IF deref = 0 THEN [ok |-> TRUE, val |-> val, loads |-> {}]
  ELSE IF val % 4 # 0 \/ val \notin DOMAIN Memory
    THEN [ok |-> FALSE, val |-> val, loads |-> {}]
    ELSE [ok |-> TRUE, val |-> Memory[val],
          loads |-> {val} \cup (IF deref > 1 THEN {Memory[val]} ELSE {})]

(* deref_addr: each of the deref loads needs an aligned address of which   *)
(* memValidate grants a word.  The result is the addresses loaded and the  *)
(* final value, or that the line is refused.                               *)
deref_addr(val, deref) ==
  LET loaded[i \in 0 .. deref] ==
        IF i = 0 THEN [ok |-> TRUE, val |-> val, loads |-> {}]
        ELSE LET d == loaded[i - 1]
             IN IF d.ok /\ d.val % 4 = 0 /\ d.val \in DOMAIN Memory
                  THEN [ok |-> TRUE, val |-> Memory[d.val],
                        loads |-> d.loads \cup {d.val}]
                  ELSE [d EXCEPT !.ok = FALSE]
  IN loaded[deref]

(* get_modaddr: the module is found by its name or by a hexadecimal UID,   *)
(* and its extension picks a value of its SceKernelModuleInfo, or the      *)
(* address of an export of one of its libraries, 0 where there is none     *)
(* (libsFindExportByNid, libsFindExportByName).  When                      *)
(* psplinkReferModule fails, the test of ret, which is still 0, lets the   *)
(* call go on with the zeroed info.  A name that is neither a module nor a *)
(* number (uid "none"), and an unknown extension, refuse the line.         *)
get_modaddr(uid, ext) ==
  LET info == IF uid \in DOMAIN Modules THEN Modules[uid]
              ELSE [text |-> 0, stext |-> 0, sdata |-> 0, sbss |-> 0, seg |-> <<>>, sseg |-> <<>>,
                    exports |-> <<>>]
      segment(s, i) == IF i <= Len(s) THEN s[i] ELSE 0
      export(e) == IF e \in DOMAIN info.exports THEN info.exports[e] ELSE 0
  IN CASE uid = "none"             -> [ok |-> FALSE, val |-> 0]
       [] ext[1] \in {"", "text"}  -> [ok |-> TRUE, val |-> info.text]
       [] ext[1] \in {"stext", "sdata", "sbss"} -> [ok |-> TRUE, val |-> info[ext[1]]]
       [] ext[1] = "export"        -> [ok |-> TRUE, val |-> export(ext[2])]
       [] ext[1] = "s"             -> [ok |-> TRUE, val |-> segment(info.sseg, ext[2])]
       [] ext[1] = "n"             -> [ok |-> TRUE, val |-> segment(info.seg, ext[2])]
       [] OTHER                    -> [ok |-> FALSE, val |-> 0]

(* get_threadaddr: here a thread that cannot be referred to is refused.    *)
get_threadaddr(uid, ext) ==
  LET field == CASE ext = "" -> "entry" [] OTHER -> ext
  IN IF uid \in DOMAIN Threads /\ field \in {"entry", "stack", "sstack"}
       THEN [ok |-> TRUE, val |-> Threads[uid][field]]
       ELSE [ok |-> FALSE, val |-> 0]

(* The bracket that closes the one opened before token i.                  *)
Closing(i) ==
  LET depth[j \in i - 1 .. Len(input.toks)] ==
        IF j = i - 1 THEN 1
        ELSE depth[j - 1] + (CASE At(j).k = "(" -> 1 [] At(j).k = ")" -> -1 [] OTHER -> 0)
      ends == {j \in i .. Len(input.toks) : depth[j] = 0}
  IN IF ends = {} THEN 0 ELSE CHOOSE j \in ends : \A k \in ends : j <= k

(* The end of the string an activation reads: brackets are cut out of the  *)
(* line by the NUL written over their closing one.                         *)
EndOf(n) == IF n = 1 THEN Len(input.toks) + 1 ELSE Closing(frames[n - 1].pos)

Refuse == /\ done' = TRUE
          /\ UNCHANGED <<input, frames, loads, answer>>

(* "Do operation": the value is dereferenced, combined with what stands    *)
(* before it, and nothing is pending any more.                             *)
Operation(fs, value, nextpos) ==
  LET n == Len(fs)
      f == fs[n]
      d == deref_addr(value, f.deref)
  IN \/ /\ d.ok
        /\ frames' = [fs EXCEPT ![n] =
             [pos |-> nextpos, op |-> "NONE", deref |-> 0, not |-> 0,
              val |-> do_op(f.op, f.not, f.val, d.val)]]
        /\ loads' = loads \cup d.loads
        /\ UNCHANGED <<input, done, answer>>
     \/ ~d.ok /\ Refuse

Reading == ~done /\ Top.pos < EndOf(Len(frames))

Advance(field, value) ==
  /\ frames' = [frames EXCEPT ![Len(frames)] = [@ EXCEPT ![field] = value, !.pos = @ + 1]]
  /\ UNCHANGED <<input, loads, done, answer>>

(* '*' in front of a value asks for a load.                                *)
Deref ==
  /\ Reading
  /\ At(Top.pos).k = "*" /\ Top.op # "NONE"
  /\ Advance("deref", Top.deref + 1)

(* '~' is counted wherever it stands.                                      *)
Tilde ==
  /\ Reading
  /\ At(Top.pos).k = "~"
  /\ Advance("not", Top.not + 1)

(* A register of the last exception; one that is not known refuses.        *)
Register ==
  /\ Reading
  /\ \/ At(Top.pos).k = "unknown" /\ Refuse
     \/ At(Top.pos).k = "name" /\ Operation(frames, At(Top.pos).v, Top.pos + 1)

(* ?symbol? is its address and ?`symbol? its size; the address 0 is taken  *)
(* for a symbol that is not there.                                         *)
Symbol ==
  /\ Reading
  /\ At(Top.pos).k = "sym"
  /\ \/ At(Top.pos).addr = 0 /\ Refuse
     \/ /\ At(Top.pos).addr # 0
        /\ Operation(frames, IF At(Top.pos).getsize THEN At(Top.pos).size ELSE At(Top.pos).addr,
                     Top.pos + 1)

(* @module:extension@ and %thread:extension%                               *)
ModuleOrThread ==
  /\ Reading
  /\ At(Top.pos).k \in {"mod", "thread"}
  /\ LET t == At(Top.pos)
         r == IF t.k = "mod" THEN get_modaddr(t.uid, t.ext) ELSE get_threadaddr(t.uid, t.ext)
     IN \/ ~r.ok /\ Refuse
        \/ r.ok /\ Operation(frames, r.val, Top.pos + 1)

\* Mutant of Number.
NumberAnywhere ==
  /\ Reading
  /\ At(Top.pos).k \in {"num", "alpha"}
  /\ IF At(Top.pos).k = "num" THEN Operation(frames, At(Top.pos).v, Top.pos + 1)
                              ELSE Operation(frames, 0, Top.pos)

(* A number after a value is refused.  A letter a..f starts no number for  *)
(* strtoul, which returns 0 and takes nothing.                             *)
Number ==
  /\ Reading
  /\ At(Top.pos).k \in {"num", "alpha"}
  /\ \/ Top.op = "NONE" /\ Refuse
     \/ /\ Top.op # "NONE"
        /\ IF At(Top.pos).k = "num" THEN Operation(frames, At(Top.pos).v, Top.pos + 1)
                                    ELSE Operation(frames, 0, Top.pos)

\* Mutant of Open.
SharedState ==
  /\ Reading
  /\ At(Top.pos).k = "("
  /\ \/ Closing(Top.pos + 1) = 0 /\ Refuse
     \/ /\ Closing(Top.pos + 1) # 0
        /\ frames' = [frames EXCEPT ![Len(frames)].pos = @ + 1]
                       \o <<[Entry(Top.pos + 1) EXCEPT !.deref = Top.deref]>>
        /\ UNCHANGED <<input, loads, done, answer>>

(* An opening bracket: the text up to its closing one is another line.     *)
Open ==
  /\ Reading
  /\ At(Top.pos).k = "("
  /\ \/ Closing(Top.pos + 1) = 0 /\ Refuse
     \/ /\ Closing(Top.pos + 1) # 0
        /\ frames' = [frames EXCEPT ![Len(frames)].pos = @ + 1]
                       \o <<Entry(Top.pos + 1)>>
        /\ UNCHANGED <<input, loads, done, answer>>

(* An operator is taken after a value only; anything else is refused.      *)
Operator ==
  /\ Reading
  /\ At(Top.pos).k \notin Values \cup {"~"}
  /\ ~(At(Top.pos).k = "*" /\ Top.op # "NONE")
  /\ \/ /\ Top.op = "NONE" /\ At(Top.pos).k \in Operators
        /\ Advance("op", At(Top.pos).k)
     \/ (Top.op # "NONE" \/ At(Top.pos).k \notin Operators) /\ Refuse

(* parse_line returns 1: to memDecode, or to the activation that called it *)
(* for a bracket and goes on behind it with the value as its temp.         *)
Return ==
  /\ ~done /\ Top.pos = EndOf(Len(frames))
  /\ IF Len(frames) = 1
       THEN /\ done' = TRUE
            /\ answer' = <<Top.val>>
            /\ UNCHANGED <<input, frames, loads>>
       ELSE Operation(Front(frames), Top.val, Top.pos + 1)

Next == \/ Deref \/ Tilde \/ Register \/ Symbol \/ ModuleOrThread
        \/ Number \/ Open \/ Operator \/ Return

Spec == Init /\ [][Next]_vars

(* parse_line is one thread's loop: it takes its next step.                *)
FairSpec == Spec /\ WF_vars(Next)

-----------------------------------------------------------------------------
TypeOK ==
  /\ \A n \in 1 .. Len(frames) :
       /\ frames[n].pos \in 1 .. Len(input.toks) + 1
       /\ frames[n].op \in Operators \cup {"START", "NONE"}
       /\ frames[n].val \in Word
       /\ frames[n].deref \in Nat /\ frames[n].not \in Nat
  /\ done \in BOOLEAN
  /\ answer \in {<<>>} \cup {<<w>> : w \in Word}

(* A line built by the manual's rules, operands with their prefixes and    *)
(* brackets joined by operators, is answered with the value of working     *)
(* strictly from left to right, a bracket first (ref, computed from the    *)
(* structure the line was written from), and is refused only when that     *)
(* value does not exist: '*' after an operator dereferences, '*' after a   *)
(* value multiplies, and what is pending in front of a bracket waits for   *)
(* the bracket's value.                                                    *)
LeftToRight == (done /\ input.ref # <<>>) => answer = input.ref[1]

(* Whatever is typed, memory is only read through an aligned address that  *)
(* memValidate grants.                                                     *)
DerefsValid == \A a \in loads : a % 4 = 0 /\ a \in DOMAIN Memory

(* Every line is answered, also the ones on which strtoul makes no way.    *)
Answered == <>done
=============================================================================
