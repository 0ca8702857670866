---------------------------- MODULE CommandLine -----------------------------
(***************************************************************************)
(* What becomes of a line on its way to a command: process_arguments of     *)
(* psplink/script.c puts the arguments of a script in, parse_args of        *)
(* psplink/parse_args.c takes the line apart into words, with quotes and    *)
(* escapes.  One step is one round of the C loop.                           *)
(*                                                                          *)
(* A character is its code; 0 ends a string.                                *)
(***************************************************************************)
EXTENDS Integers, Sequences, SequencesExt

CONSTANTS Typed,     \* lines of users, as sequences of characters
          Wanted,    \* lists of words, to be written as lines
          Lines,     \* lines of scripts, as sequences of tokens
          Args,      \* the arguments of the script, sequences of characters; Args[1] is $0
          LastMod,   \* what $! stands for
          Stale,     \* what lies behind the line in its buffer
          MaxBuffer, \* MAX_BUFFER: room for a line with its end
          MaxArgs    \* max_args of parse_args

\* What the constants are assumed to be.
CommandLineAssumption ==
  /\ MaxBuffer \in Nat \ {0} /\ MaxArgs \in Nat \ {0}
  /\ Args # <<>>

Space == 32
Excl == 33
DQuote == 34
Dollar == 36
Quote == 39
Zero == 48
Backslash == 92
LetterN == 110
LetterR == 114
LetterX == 120

is_num(c) == c \in 48 .. 57
is_oct(c) == c \in 48 .. 55
\* Characters to number; letters of hexadecimal numbers are left out.
Digit(c) == c - 48

VARIABLES stage,   \* "subst", "parse", "done" or "error"
          line,    \* the buffer read
          in,      \* the place in it
          tmpbuf,  \* process_arguments: the line being made
          argv,    \* parse_args: the words so far, the last one still growing
          in_quote,
          written, \* characters put into out, ends of words included
          top,     \* the highest index of argv assigned
          source   \* history: what the line was made from

vars == <<stage, line, in, tmpbuf, argv, in_quote, written, top, source>>

\* A string of a buffer: up to its first end.
String(buf) ==
  IF \E i \in DOMAIN buf : buf[i] = 0
  THEN SubSeq(buf, 1, (CHOOSE i \in DOMAIN buf : buf[i] = 0 /\ \A j \in 1 .. (i - 1) : buf[j] # 0) - 1)
  ELSE buf

At(i) == IF i \in DOMAIN line THEN line[i] ELSE 0

\* At most max digits from a place on: how many there are.
Digits(i, max, base) ==
  CHOOSE n \in 0 .. max :
    /\ \A k \in i .. (i + n - 1) : IF base = 8 THEN is_oct(At(k)) ELSE is_num(At(k))
    /\ n = max \/ ~(IF base = 8 THEN is_oct(At(i + n)) ELSE is_num(At(i + n)))

\* atoi of n digits.
Number(i, n) == FoldLeft(LAMBDA v, c : v * 10 + Digit(c), 0, SubSeq(line, i, i + n - 1))

-----------------------------------------------------------------------------
(***************************************************************************)
(* Ways to write a list of words as a line.                                 *)
(***************************************************************************)

Quoted(w, q) == <<q>> \o w \o <<q>>
Escaped(w) == FlattenSeq([i \in DOMAIN w |-> <<Backslash, w[i]>>])
Joined(ws) == FlattenSeq([i \in DOMAIN ws |-> IF i = 1 THEN ws[i] ELSE <<Space>> \o ws[i]])
\* A quotation cannot hold its own quotes, and an empty word needs one.
Writable(w, style) ==
  CASE style = "escape" -> w # <<>> /\ \A i \in DOMAIN w : w[i] \notin {LetterN, LetterR, LetterX, Zero}
    [] style = "double" -> \A i \in DOMAIN w : w[i] \notin {DQuote, Backslash}
    [] style = "single" -> \A i \in DOMAIN w : w[i] \notin {Quote, Backslash}
Written(ws, style) ==
  Joined([i \in DOMAIN ws |-> IF style = "escape" THEN Escaped(ws[i])
                              ELSE IF style = "double" THEN Quoted(ws[i], DQuote)
                              ELSE Quoted(ws[i], Quote)])

\* Tokens of script lines: a character, $$, $n, $! and, at the end, a lone $.
Text(t) ==
  CASE t.kind = "char" -> <<t.val>>
    [] t.kind = "dollar" -> <<Dollar, Dollar>>
    [] t.kind = "arg" -> IF t.val < 10 THEN <<Dollar, Zero + t.val>>
                         ELSE <<Dollar, Zero + (t.val \div 10), Zero + (t.val % 10)>>
    [] t.kind = "mod" -> <<Dollar, Excl>>
    [] t.kind = "lone" -> <<Dollar>>
Meaning(t) ==
  CASE t.kind = "char" -> <<t.val>>
    [] t.kind = "dollar" -> <<Dollar>>
    [] t.kind = "arg" -> IF t.val < Len(Args) THEN Args[t.val + 1] ELSE <<>>
    [] t.kind = "mod" -> LastMod
    [] t.kind = "lone" -> <<>>

Fresh(buf, s) ==
  /\ line = buf /\ stage = s /\ in = 1 /\ tmpbuf = <<>>
  /\ argv = <<>> /\ in_quote = 0 /\ written = 0 /\ top = -1

Init ==
  \/ \E l \in Typed : Fresh(l \o <<0>>, "parse") /\ source = [kind |-> "typed"]
  \/ \E ws \in Wanted, s \in {"escape", "double", "single"} :
       /\ \A i \in DOMAIN ws : Writable(ws[i], s)
       /\ Fresh(Written(ws, s) \o <<0>>, "parse") /\ source = [kind |-> "words", words |-> ws]
  \/ \E ts \in Lines :
       /\ Fresh(FlattenSeq([i \in DOMAIN ts |-> Text(ts[i])]) \o <<0>> \o Stale, "subst")
       /\ source = [kind |-> "tokens", tokens |-> ts]

-----------------------------------------------------------------------------
(***************************************************************************)
(* process_arguments.                                                       *)
(***************************************************************************)

\* Mutant of Room: a line may fill the buffer.
RoomAll == Len(tmpbuf) < MaxBuffer

Room == Len(tmpbuf) < MaxBuffer - 1

\* A copied argument stops where the buffer is full.
Copied(s) == tmpbuf \o SubSeq(s, 1, Min({Len(s), MaxBuffer - 1 - Len(tmpbuf)}))

\* Mutant of Argument: the name of the script is not counted.
ArgumentNext(n) == IF n + 1 < Len(Args) THEN Args[n + 2] ELSE <<>>

Argument(n) == IF n < Len(Args) THEN Args[n + 1] ELSE <<>>

\* One round; a $ that ends the line copies the end and goes on behind it.
process_arguments ==
  /\ stage = "subst" /\ At(in) # 0 /\ Room
  /\ LET c == At(in + 1)
         n == Digits(in + 1, 15, 10)
     IN  \/ /\ At(in) = Dollar /\ is_num(c)
            /\ tmpbuf' = Copied(Argument(Number(in + 1, n))) /\ in' = in + 1 + n
         \/ /\ At(in) = Dollar /\ c = Excl
            /\ tmpbuf' = Copied(LastMod) /\ in' = in + 2
         \/ /\ At(in) = Dollar /\ ~is_num(c) /\ c # Excl
            /\ tmpbuf' = Append(tmpbuf, c) /\ in' = in + 2
         \/ /\ At(in) # Dollar
            /\ tmpbuf' = Append(tmpbuf, At(in)) /\ in' = in + 1
  /\ UNCHANGED <<stage, line, argv, in_quote, written, top, source>>

\* strcpy(line, tmpbuf); the line goes to shellParse.
Substituted ==
  /\ stage = "subst" /\ (At(in) = 0 \/ ~Room)
  /\ stage' = "parse" /\ line' = String(tmpbuf) \o <<0>> /\ in' = 1
  /\ UNCHANGED <<tmpbuf, argv, in_quote, written, top, source>>

-----------------------------------------------------------------------------
(***************************************************************************)
(* parse_args.                                                              *)
(***************************************************************************)

\* The place behind white space.
Skipped(i) == CHOOSE j \in i .. (Len(line) + 1) : At(j) # Space /\ \A k \in i .. (j - 1) : At(k) = Space

\* Leading white space; an empty line has no words.
Begin ==
  /\ stage = "parse" /\ argv = <<>>
  /\ in' = Skipped(in)
  /\ IF At(Skipped(in)) = 0
     THEN stage' = "done" /\ UNCHANGED <<argv, top>>
     ELSE argv' = <<<<>>>> /\ top' = 0 /\ UNCHANGED stage
  /\ UNCHANGED <<line, tmpbuf, in_quote, written, source>>

\* A character goes to the word.
Put(c, k) ==
  /\ argv' = [argv EXCEPT ![Len(argv)] = Append(@, c)]
  /\ written' = written + 1 /\ in' = in + k
  /\ UNCHANGED <<stage, in_quote, top>>

\* Mutant of MoreArgs: the last place is used as well.
MoreArgs1 == Len(argv) <= MaxArgs

MoreArgs == Len(argv) < MaxArgs

\* decode_oct and decode_hex: the value in a byte.
Value(i, n, base) == FoldLeft(LAMBDA v, c : (v * base + Digit(c)) % 256, 0, SubSeq(line, i, i + n - 1))

Decode(i, max, base) ==
  LET n == Digits(i, max, base)
      v == Value(i, n, base)
  IN  IF n = 0 \/ v = 0
      THEN stage' = "error" /\ UNCHANGED <<argv, written, in, in_quote, top>>
      ELSE Put(v, 2 + n)

Looping == stage = "parse" /\ argv # <<>> /\ At(in) # 0 /\ MoreArgs

\* The character after a backslash.
Escape ==
  /\ Looping /\ At(in) = Backslash
  /\ LET c == At(in + 1)
     IN  \/ c = LetterN /\ Put(10, 2)
         \/ c = LetterR /\ Put(13, 2)
         \/ c = Zero /\ Decode(in + 2, 4, 8)
         \/ c = LetterX /\ Decode(in + 2, 2, 16)
         \/ c = 0 /\ in' = in + 1 /\ UNCHANGED <<argv, written, stage, in_quote, top>>
         \/ c \notin {0, LetterN, LetterR, Zero, LetterX} /\ Put(c, 2)
  /\ UNCHANGED <<line, tmpbuf, source>>

\* White space ends a word and, unless the line ends, begins one.
Separate ==
  /\ Looping /\ At(in) = Space /\ in_quote = 0
  /\ in' = Skipped(in) /\ written' = written + 1
  /\ IF At(Skipped(in)) = 0 THEN UNCHANGED <<argv, top>>
     ELSE argv' = Append(argv, <<>>) /\ top' = Len(argv)
  /\ UNCHANGED <<stage, line, tmpbuf, in_quote, source>>

\* Mutant of Closes: any quote ends a quotation.
ClosesAny(c) == TRUE

Closes(c) == c = in_quote

\* Quotes open and close; the other kind is an ordinary character inside.
Quotation ==
  /\ Looping /\ At(in) \in {Quote, DQuote}
  /\ \/ in_quote = 0 /\ in_quote' = At(in) /\ in' = in + 1 /\ UNCHANGED <<argv, written, stage, top>>
     \/ /\ in_quote # 0 /\ Closes(At(in))
        /\ in_quote' = 0 /\ in' = in + 1 /\ UNCHANGED <<argv, written, stage, top>>
     \/ in_quote # 0 /\ ~Closes(At(in)) /\ Put(At(in), 1)
  /\ UNCHANGED <<line, tmpbuf, source>>

Ordinary ==
  /\ Looping /\ At(in) \notin {Quote, DQuote, Backslash}
  /\ At(in) = Space => in_quote # 0
  /\ Put(At(in), 1)
  /\ UNCHANGED <<line, tmpbuf, source>>

\* The end: a missing quote is an error; an empty last word does not count.
Finish ==
  /\ stage = "parse" /\ argv # <<>> /\ (At(in) = 0 \/ ~MoreArgs)
  /\ IF in_quote # 0
     THEN stage' = "error" /\ UNCHANGED <<argv, top, written>>
     ELSE /\ argv' = IF Last(argv) = <<>> THEN Front(argv) ELSE argv
          /\ top' = Max({top, Len(argv')})
          /\ written' = written + 1
          /\ stage' = "done"
  /\ UNCHANGED <<line, in, tmpbuf, in_quote, source>>

Next ==
  process_arguments \/ Substituted \/ Begin \/ Escape \/ Separate \/ Quotation \/ Ordinary \/ Finish

Spec == Init /\ [][Next]_vars

-----------------------------------------------------------------------------
(***************************************************************************)
(* Properties.                                                              *)
(***************************************************************************)

TypeOK ==
  /\ stage \in {"subst", "parse", "done", "error"}
  /\ in \in 1 .. (Len(line) + 1) /\ in_quote \in {0, Quote, DQuote}
  /\ Len(tmpbuf) < MaxBuffer

\* parse_args: argv has max_args places, and no other is assigned, the ending NULL
\* included; what is written to out is no longer than the line with its end.
InBounds == top < MaxArgs /\ written <= Len(String(line)) + 1

\* parse_args: words written with quotes or escapes, whatever characters they have,
\* are the words taken from the line, as many as there is room for; only an empty last
\* word is lost.
WordsTaken ==
  source.kind = "words" /\ stage = "done" =>
    LET ws == source.words
    IN  argv = IF Len(ws) >= MaxArgs THEN SubSeq(ws, 1, MaxArgs - 1)
               ELSE IF ws # <<>> /\ Last(ws) = <<>> THEN Front(ws) ELSE ws

\* process_arguments: every $n, $! and $$ is replaced, in place, by what it stands
\* for, up to the size of the buffer, also when the line ends in a $ and whatever an
\* earlier line has left behind it.
ArgumentsPutIn ==
  source.kind = "tokens" /\ stage # "subst" =>
    LET all == FlattenSeq([i \in DOMAIN source.tokens |-> Meaning(source.tokens[i])])
    IN  String(tmpbuf) = SubSeq(all, 1, Min({Len(all), MaxBuffer - 1}))
=============================================================================
