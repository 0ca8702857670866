------------------------------ MODULE PathRace ------------------------------
(***************************************************************************)
(* Two threads of usbhostfs_pc take paths apart with strtok: the server     *)
(* thread in make_path, under g_drivemtx, and the thread that runs the      *)
(* shell, in parse_shell, mount_drive and add_drive, without it.  strtok    *)
(* keeps its place in one variable of the C library.                        *)
(*                                                                          *)
(* A string is a sequence of symbols: names, slashes and blanks.  One call  *)
(* of strtok is one step.                                                   *)
(***************************************************************************)
EXTENDS Integers, Sequences, SequencesExt

CONSTANTS Slash, Blank, Dot, DotDot, Mount, Num,  \* symbols
          Paths,     \* paths of commands, as strings
          MountDirs, \* directories in mount commands, as strings
          RootDirs,  \* directories of the PC, as sequences of names
          Cwd,       \* g_rootdir, as a sequence of names
          MaxTokens, \* MAX_TOKENS - 1
          Serial     \* TRUE: no shell command runs during a command of the server

VARIABLES save,      \* the rest of the string strtok is working on
          rootdir,   \* g_drives[0].rootdir
          server,    \* what each thread does: see Idle
          shell

vars == <<save, rootdir, server, shell>>

\* str: what gen_path is to work on; toks: what it has found so far; asked: the
\* string the command was given; res: what came of it; root: the root at its start
Idle == [at |-> "idle", str |-> <<>>, toks |-> <<>>, asked |-> <<>>, res |-> <<>>, root |-> <<>>]

\* What the constants are assumed to be.
RaceAssumption == MaxTokens \in Nat /\ Serial \in BOOLEAN

Init ==
  /\ save = <<>>
  /\ rootdir \in RootDirs
  /\ server = Idle /\ shell = Idle

-----------------------------------------------------------------------------
\* strtok: what is left once leading delimiters are skipped.
RECURSIVE Skip(_, _)
Skip(str, delims) ==
  IF str # <<>> /\ Head(str) \in delims THEN Skip(Tail(str), delims) ELSE str

\* strtok: the symbols before the next delimiter, << >> for NULL, and what it keeps.
Token(str, delims) ==
  LET s == Skip(str, delims)
      n == SelectInSeq(s, LAMBDA c : c \in delims)
  IN  IF n = 0 THEN [tok |-> s, rest |-> <<>>]
      ELSE [tok |-> SubSeq(s, 1, n - 1), rest |-> SubSeq(s, n + 1, Len(s))]

\* gen_path's second loop.
Resolve(path, tok) ==
  IF tok = <<Dot>> THEN path
  ELSE IF tok = <<DotDot>> THEN (IF path = <<>> THEN path ELSE Front(path))
  ELSE Append(path, tok)

Normal(toks) == FoldLeft(Resolve, <<>>, toks)

\* A path as a string.
Written(path) == FlattenSeq([i \in 1 .. Len(path) |-> <<Slash>> \o path[i]])

\* One strtok of gen_path's first loop in thread t: the first has a string to work
\* on, the others go on with what strtok kept.  more: it looks for another token.
Strtok(t, str, first) ==
  LET r == Token(IF first THEN str ELSE save, {Slash})
  IN  [toks |-> IF r.tok = <<>> THEN t.toks ELSE Append(t.toks, r.tok),
       more |-> r.tok # <<>> /\ Len(t.toks) + 1 < MaxTokens,
       rest |-> r.rest]

-----------------------------------------------------------------------------
(***************************************************************************)
(* The server thread: make_path, for a command with a path.                 *)
(***************************************************************************)

Begin ==
  /\ server.at = "idle" /\ (Serial => shell.at = "idle")
  /\ \E p \in Paths :
       server' = [Idle EXCEPT !.at = "first", !.str = p, !.asked = p, !.root = rootdir]
  /\ UNCHANGED <<save, rootdir, shell>>

\* Mutant of SecondString: the root is not put in front again.
SecondBare(toks) == Written(Normal(toks))

\* The string of the second gen_path: the root and the normalised path.
SecondString(toks) == Written(server.root) \o Written(Normal(toks))

\* gen_path on the path, then on root and path together.  g_drivemtx is held, so
\* the root does not change.
gen_path ==
  /\ server.at \in {"first", "inner", "second", "outer"}
  /\ LET first == server.at \in {"first", "second"}
         r == Strtok(server, server.str, first)
         inner == server.at \in {"first", "inner"}
     IN  /\ save' = r.rest
         /\ server' =
              IF r.more THEN [server EXCEPT !.at = IF inner THEN "inner" ELSE "outer",
                                            !.str = <<>>, !.toks = r.toks]
              ELSE IF inner
              THEN [server EXCEPT !.at = "second", !.toks = <<>>, !.str = SecondString(r.toks)]
              ELSE [server EXCEPT !.at = "done", !.toks = <<>>, !.str = <<>>, !.res = Normal(r.toks)]
  /\ UNCHANGED <<rootdir, shell>>

Answer ==
  /\ server.at = "done"
  /\ server' = Idle
  /\ UNCHANGED <<save, rootdir, shell>>

-----------------------------------------------------------------------------
(***************************************************************************)
(* The shell: mount.                                                        *)
(***************************************************************************)

\* parse_shell: strtok finds the command.
parse_shell ==
  /\ shell.at = "idle" /\ (Serial => server.at = "idle")
  /\ \E dir \in MountDirs :
       LET r == Token(<<Mount, Blank, Num, Blank>> \o dir, {Blank})
       IN  /\ save' = r.rest
           /\ shell' = [Idle EXCEPT !.at = "num", !.asked = dir]
  /\ UNCHANGED <<rootdir, server>>

\* Mutant of RestOfLine: the directory is the next word.
NextWord(str) == Token(str, {Blank}).tok

\* strtok(NULL, ""): all that is left.
RestOfLine(str) == str

\* add_drive: a directory that does not start with a slash is one of g_rootdir.
Absolute(dir) == IF Head(dir) = Slash THEN dir ELSE Written(Cwd) \o <<Slash>> \o dir

\* mount_drive: the drive's number, and the rest of the line.  Anything but a number
\* is an error.
mount_drive ==
  \/ /\ shell.at = "num"
     /\ LET r == Token(save, {Blank})
        IN  save' = r.rest /\ shell' = IF r.tok = <<Num>> THEN [shell EXCEPT !.at = "dir"] ELSE Idle
     /\ UNCHANGED <<rootdir, server>>
  \/ /\ shell.at = "dir"
     /\ save' = <<>>
     /\ shell' = IF save = <<>> THEN Idle ELSE [shell EXCEPT !.at = "first", !.str = Absolute(RestOfLine(save))]
     /\ UNCHANGED <<rootdir, server>>

\* add_drive: gen_path on the directory.
add_drive ==
  /\ shell.at \in {"first", "rest"}
  /\ LET r == Strtok(shell, shell.str, shell.at = "first")
     IN  /\ save' = r.rest
         /\ shell' = IF r.more THEN [shell EXCEPT !.at = "rest", !.str = <<>>, !.toks = r.toks]
                     ELSE [shell EXCEPT !.at = "open", !.str = <<>>, !.toks = <<>>,
                                        !.res = Normal(r.toks)]
  /\ UNCHANGED <<rootdir, server>>

\* add_drive: a directory that opens becomes the root, under g_drivemtx.
mounted ==
  /\ shell.at = "open"
  /\ \/ shell.res \notin RootDirs /\ shell' = Idle /\ UNCHANGED rootdir
     \/ /\ shell.res \in RootDirs
        /\ server.at \in {"idle", "done"}
        /\ rootdir' = shell.res
        /\ shell' = [shell EXCEPT !.at = "mounted"]
  /\ UNCHANGED <<save, server>>

Prompt ==
  /\ shell.at = "mounted"
  /\ shell' = Idle
  /\ UNCHANGED <<save, rootdir, server>>

Next == Begin \/ gen_path \/ Answer \/ parse_shell \/ mount_drive \/ add_drive \/ mounted \/ Prompt

Spec == Init /\ [][Next]_vars

-----------------------------------------------------------------------------
(***************************************************************************)
(* Properties.  AllTokens is the reference: a string split at its slashes.  *)
(***************************************************************************)
RECURSIVE AllTokens(_)
AllTokens(str) ==
  LET r == Token(str, {Slash})
  IN  IF r.tok = <<>> THEN <<>> ELSE <<r.tok>> \o AllTokens(r.rest)

\* make_path: the path a command works on is the one it was given, normalised, under
\* the root of the drive.
ResolvedAsAsked ==
  server.at = "done" => server.res = server.root \o Normal(AllTokens(server.asked))

\* "Mount a directory (mount num dir)": a mount command that does not report an error
\* has mounted the directory it names.
MountedAsAsked ==
  shell.at = "mounted" => rootdir = Normal(AllTokens(Absolute(shell.asked)))
=============================================================================
