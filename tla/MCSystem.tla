------------------------------ MODULE MCSystem ------------------------------
(***************************************************************************)
(* The rest of psplink and its programs on the PC, for TLC: the address     *)
(* calculator (AddressCalc), the memory commands (MemoryCommands),          *)
(* psplink.ini (ConfigFile) and the components of Services: symbols, hooks  *)
(* on system calls, the terminal pcterm, remotejoy, the kernel's printf and *)
(* sessions.                                                                *)
(*                                                                          *)
(* A behaviour is one of one component, which part names: the others stay   *)
(* in an initial state.                                                     *)
(***************************************************************************)
EXTENDS Services, FiniteSetsExt, TLC

CONSTANTS Parts,     \* the instances the run looks at
          Buffer,    \* lines of psplink.ini that MAX_BUFFER bytes hold
          t1, t2     \* threads that make system calls

VARIABLES part,
          input, frames, loads, done, answer,                                  \* AddressCalc
          mem, g_protoff, dumpaddr, last, touched, sources, shown, io, file, commands,  \* MemoryCommands
          ini, tmp, changer, change, before, outcome, ctx, orphaned, changes   \* ConfigFile

calcVars    == <<input, frames, loads, done, answer>>
memoryVars  == <<mem, g_protoff, dumpaddr, last, touched, sources, shown, io, file, commands>>
hookVars    == vars
configVars  == <<ini, tmp, changer, change, before, outcome, ctx, orphaned, changes>>
commandVars == <<calcVars, memoryVars, symbolVars, hookVars>>
programVars == <<termVars, joyVars, printVars>>
startVars   == <<configVars, sessionVars>>
allVars     == <<part, commandVars, programVars, startVars>>

-----------------------------------------------------------------------------
(* Address expressions: every short sequence of tokens, and every           *)
(* expression of up to two operators with prefixes and one bracket,         *)
(* together with its value worked out from its structure.                   *)

Loadable  == 4 :> 8 @@ 8 :> 13 @@ 12 :> 4
Width     == 4
Modulus   == 2^Width
OpSymbols == {"+", "-", "/", "*", "&", "|", "^", "<<", ">>", "&&", "||", "==", "!=", "<", "<=",
              ">", ">="}

Tok(k)    == [k |-> k]
Num(v)    == [k |-> "num", v |-> v]
Mod(u, e) == [k |-> "mod", uid |-> u, ext |-> e]

\* Token strings, well formed or not.
Alphabet == {Tok(k) : k \in {"+", "*", "~", "(", ")", "alpha"}} \cup {Num(4), Mod("gone", <<"">>)}
Others == {Tok("="), Tok("unknown"), [k |-> "name", v |-> 7], Mod("none", <<"">>)}
            \cup {[k |-> "sym", addr |-> a, size |-> 5, getsize |-> g] : a \in {0, 12}, g \in BOOLEAN}
            \cup {[k |-> "thread", uid |-> u, ext |-> e] :
                    u \in {"user", "gone"}, e \in {"", "stack", "sstack", "bad"}}
            \cup {Mod("main", e) : e \in {<<"text">>, <<"stext">>, <<"sbss">>, <<"s", 1>>, <<"s", 2>>,
                                         <<"n", 2>>, <<"export", "init">>, <<"export", "gone">>,
                                         <<"bad">>}}
TokenLines == {[toks |-> s, ref |-> <<>>] :
                 s \in UNION {[1 .. n -> Alphabet] : n \in 0 .. 4}
                        \cup {<<a, b>> : a \in {Num(4), Tok("*")}, b \in Others}}

\* The reference.  An operand is prefixes and a value; it is refused when one
\* of its loads is; the loads come before the complements.
Refused == <<>>
Truth(b) == IF b THEN 1 ELSE 0
Bits(a, b, sums) ==
  LET bit(w, i) == (w \div 2^i) % 2
  IN FoldSet(LAMBDA i, acc : acc + 2^i, 0,
             {i \in 0 .. Width - 1 : bit(a, i) + bit(b, i) \in sums})
Value(op, a, b) ==
  CASE op = "+" -> (a + b) % Modulus      [] op = "-" -> (a - b) % Modulus
    [] op = "*" -> (a * b) % Modulus      [] op = "/" -> IF b = 0 THEN 1 ELSE a \div b
    [] op = "&" -> Bits(a, b, {2})        [] op = "|" -> Bits(a, b, {1, 2})
    [] op = "^" -> Bits(a, b, {1})
    [] op = "<<" -> (a * 2^(b % Width)) % Modulus
    [] op = ">>" -> a \div 2^(b % Width)
    [] op = "&&" -> Truth(a * b > 0)      [] op = "||" -> Truth(a + b > 0)
    [] op = "==" -> Truth(a - b = 0)      [] op = "!=" -> Truth(a - b # 0)
    [] op = "<" -> Truth(a < b)           [] op = "<=" -> Truth(~(b < a))
    [] op = ">" -> Truth(b < a)           [] op = ">=" -> Truth(~(a < b))
Combine(op, x, y) == IF Refused \in {x, y} THEN Refused ELSE <<Value(op, x[1], y[1])>>
Loaded(x) == IF x # Refused /\ x[1] \in DOMAIN Loadable THEN <<Loadable[x[1]]>> ELSE Refused
Inverted(x) == IF x = Refused THEN Refused ELSE <<Modulus - 1 - x[1]>>
Prefixed(pre, x) ==
  CASE pre = <<>>         -> x
    [] pre = <<"*">>      -> Loaded(x)
    [] pre = <<"~">>      -> Inverted(x)
    [] pre = <<"*", "*">> -> Loaded(Loaded(x))
    [] pre = <<"~", "*">> -> Inverted(Loaded(x))

Leading == {<<>>, <<"*">>, <<"~">>, <<"*", "*">>, <<"~", "*">>}
Atoms    == {[toks |-> <<Num(v)>>, ref |-> <<v>>] : v \in {0, 3, 4, 8}}
              \cup {[toks |-> <<Mod("main", <<"n", 1>>)>>, ref |-> <<12>>]}
Four     == {[toks |-> <<Num(4)>>, ref |-> <<4>>]}
Pre(P, A) == {[toks |-> [i \in DOMAIN p |-> Tok(p[i])] \o a.toks, ref |-> Prefixed(p, a.ref)] :
                p \in P, a \in A}
Binary(A, O, B) == {[toks |-> a.toks \o <<Tok(o)>> \o b.toks, ref |-> Combine(o, a.ref, b.ref)] :
                      a \in A, o \in O, b \in B}
Bracket(A) == {[toks |-> <<Tok("(")>> \o a.toks \o <<Tok(")")>>, ref |-> a.ref] : a \in A}
Structured ==
  LET few   == Pre({<<>>, <<"*">>, <<"~", "*">>}, Atoms)
      inner == Pre(Leading, Bracket(Binary(Four, {"-", "*"}, Atoms)))
  IN Pre(Leading, Atoms)
       \cup Binary(Binary(few, {"+", "*"}, few), {"*", "-"}, Four)    \* no precedence
       \cup Binary(Atoms, OpSymbols, inner)                           \* a op pre (b op c)
       \cup Binary(inner, {"*", "/"}, Atoms)
       \cup Pre(Leading, Bracket(Binary(Atoms, {"+"}, Bracket(Atoms))))
Expressions == {[e EXCEPT !.ref = <<@>>] : e \in Structured}

Calc == INSTANCE AddressCalc WITH
          Lines <- TokenLines \cup Expressions, Memory <- Loadable,
          Modules <- "main" :> [text |-> 8, stext |-> 3, sdata |-> 2, sbss |-> 1, seg |-> <<12>>,
                               sseg |-> <<2>>, exports |-> "init" :> 9],
          Threads <- "user" :> [entry |-> 4, stack |-> 12, sstack |-> 1]

-----------------------------------------------------------------------------
(* Twenty four addresses and three regions, of which the first two touch,   *)
(* as the kernel's low, middle (firmware 1.0 only) and high memory do.      *)

Area(a, n, v1) == [addr |-> a, size |-> n, v1only |-> v1]
Pattern(p, m)  == [pat |-> p, mask |-> m]

Memories == INSTANCE MemoryCommands WITH
  Base <- 2, Top <- 24, g_isv1 <- FALSE, DumpSize <- 8, Row <- 4,
  g_memareas <- <<Area(4, 8, FALSE), Area(12, 4, TRUE), Area(16, 4, FALSE)>>,
  Typeable <- {2, 5, 6, 10, 14, 17, 23}, Data <- {-1, 6}, Sizes <- {3, 9},
  Patterns <- {Pattern(<<1>>, <<TRUE>>), Pattern(<<1, 1>>, <<TRUE, TRUE>>),
               Pattern(<<1, 0, 0>>, <<TRUE, FALSE, FALSE>>)},
  FileData <- <<1, 0, 1, 1, 0, 1>>,
  Image <- [a \in 0 .. 23 |-> IF a \in {5, 6, 7, 10, 11, 17} THEN 1 ELSE 0],
  MaxCommands <- 2

(* Two relocatable modules, one linked to its address, and a broken file.   *)

Sym(n, a, s) == [name |-> n, addr |-> a, size |-> s]
SymFile(m, good, syms) == [mod |-> m, good |-> good, syms |-> syms]

SymbolTables == {SymFile("prx", TRUE, <<Sym("start", 0, 2), Sym("main", 2, 3)>>),
                 SymFile("lib", TRUE, <<Sym("init", 1, 2), Sym("mark", 3, 0), Sym("exit", 4, 2)>>),
                 SymFile("elf", TRUE, <<Sym("first", 21, 1), Sym("second", 22, 4)>>),
                 SymFile("lib", FALSE, <<Sym("init", 2, 2)>>)}

(* The constants of ApiHook: two libraries, one with a variable among its   *)
(* exports.                                                                 *)

Library(n, stubs, vstubs, entries) ==
  [libname |-> n, stubcount |-> stubs, vstubcount |-> vstubs, entrytable |-> entries]
Given(lib, nid, byname, means) ==
  [library |-> lib, nid |-> nid, byname |-> byname, means |-> means]

ExportTables == <<Library("io", 2, 1, <<101, 102, 103, 1, 2, 9>>),
                  Library("load", 1, 0, <<101, 3>>)>>
NamesTyped   == {Given("io", 101, TRUE, 1), Given("io", 102, FALSE, 2), Given("load", 101, TRUE, 3),
                 Given("io", 103, TRUE, 0), Given("gone", 101, FALSE, 0)}

(* The constants of PcTerm and RemoteJoy: two prompts and output behind     *)
(* each, and three buttons, of which two are one of the PSP, with a stick.  *)

BytesSent == <<"F", "p", "p", "F", "o", "F", "p", "F", "o">>
ButtonMap == 0 :> "CROSS" @@ 1 :> "START" @@ 8 :> "CROSS"
Reported  == {-32767, 0, 32767}

(* psplink.ini with a setting given twice, and with two shells.             *)

Setting(n, v) == [name |-> n, val |-> v]
IniFiles == {<<Setting("#", ""), Setting("usbmass", "1"), Setting("prompt", "x"),
               Setting("usbmass", "0")>>,
             <<Setting("usbshell", "1"), Setting("wifishell", "1")>>}
IniValues == {"0", "1", "x"}

Config == INSTANCE ConfigFile WITH
  InitFiles <- IniFiles, Values <- IniValues, MaxChanges <- 2, pc <- changer

(* Sessions that are reset, left and lost, with as many arguments as a      *)
(* reboot keeps, with and without a startup script that runs a program.     *)

ArgsTyped == {[i \in 1 .. 12 |-> "a"], <<>>}
IniHolds  == {[startsh |-> "none", resetonexit |-> TRUE],
              [startsh |-> "p", resetonexit |-> FALSE]}

ASSUME Instances ==
  /\ Calc!WidthAssumption /\ Memories!LayoutAssumption
  /\ SymNames!FilesInOrder /\ ArgsFit /\ Terminal!StreamInOrder

-----------------------------------------------------------------------------
MCInit ==
  /\ part \in Parts
  /\ part # "address" => input = [toks |-> <<>>, ref |-> <<>>]
  /\ Calc!Init
  /\ Memories!Init
  /\ SymNames!Init
  /\ Init
  /\ part # "terminal" => serialmode = FALSE
  /\ Terminal!Init
  /\ Joystick!Init
  /\ Printing!Init
  /\ part # "config" => ini = CHOOSE f \in IniFiles : TRUE
  /\ Config!Init
  /\ part # "sessions" => settings = CHOOSE c \in IniHolds : TRUE
  /\ Sessions!Init

\* The shell's commands and hooks.
CommandStep ==
  /\ \/ part = "address" /\ Calc!Next /\ UNCHANGED <<memoryVars, symbolVars, hookVars>>
     \/ part = "memory" /\ Memories!Next /\ UNCHANGED <<calcVars, symbolVars, hookVars>>
     \/ part = "symbols" /\ SymNames!Next /\ UNCHANGED <<calcVars, memoryVars, hookVars>>
     \/ part = "hooks" /\ Next /\ UNCHANGED <<calcVars, memoryVars, symbolVars>>
  /\ UNCHANGED <<part, programVars, startVars>>

\* The programs around it.
ProgramStep ==
  /\ \/ part = "terminal" /\ Terminal!Next /\ UNCHANGED <<joyVars, printVars>>
     \/ part = "joystick" /\ Joystick!Next /\ UNCHANGED <<termVars, printVars>>
     \/ part = "printf" /\ Printing!Next /\ UNCHANGED <<termVars, joyVars>>
  /\ UNCHANGED <<part, commandVars, startVars>>

\* What starts a session.
StartStep ==
  /\ \/ part = "config" /\ Config!Next /\ UNCHANGED sessionVars
     \/ part = "sessions" /\ Sessions!Next /\ UNCHANGED configVars
  /\ UNCHANGED <<part, commandVars, programVars>>

MCNext == CommandStep \/ ProgramStep \/ StartStep

MCSpec == MCInit /\ [][MCNext]_allVars
-----------------------------------------------------------------------------
(* Each property is the conjunction of what its component promises;         *)
(* the others are of Services, and HooksTransparent is ApiHook's.           *)

\* parse_line, deref_addr: an expression written by the manual's rules has the
\* value of working from left to right, brackets first, and is refused only
\* when that value does not exist; whatever is typed, memory is read only at
\* aligned addresses that memValidate grants.
LeftToRight == part = "address" => Calc!TypeOK /\ Calc!LeftToRight /\ Calc!DerefsValid

\* The memory commands touch bytes of one region that this firmware has (four
\* bytes elsewhere at most, with protection off); find prints every place of
\* the pattern, the one that ends on the last byte included; a saved file has
\* the bytes in order, however the writes were cut; fill and copymem change
\* what they were asked to, cut to the region, also when source and
\* destination overlap.
MemoryExact ==
  /\ [](part = "memory" =>
          Memories!TypeOK /\ Memories!InRegion /\ Memories!FindsAll /\ Memories!SavedInOrder)
  /\ [][part = "memory" => Memories!FillExact /\ Memories!CopyExact]_memoryVars

\* configChange: at every moment, power failures included, psplink.ini holds
\* all settings as they were or all with the change, or the temporary file does,
\* until confset or confdel begins while that is the only file left.
NothingLost == part = "config" => Config!NothingLost

\* configChange, configLoad: besides, once confset is done every line of the
\* name has the value, and a session has each plain setting as the last good
\* line of the file it started from.
SettingsKept ==
  /\ [](/\ part = "config" => Config!TypeOK /\ Config!SetTakesEffect
        /\ NothingLost)
  /\ [][part = "config" => Config!LastLineWins]_configVars
=============================================================================
