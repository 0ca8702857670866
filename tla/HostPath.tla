------------------------------ MODULE HostPath ------------------------------
(***************************************************************************)
(* Paths on the host: drives.  usbhostfs_pc (usbhostfs_pc/main.c) turns the *)
(* path of a command into a path of the PC: the drive's current directory   *)
(* is put in front, the result is normalised, matched without regard to     *)
(* case if that is switched on, and put under the drive's root.  The calls  *)
(* that change the PC's file tree come from host_driver.c; the drives       *)
(* themselves are changed from usbhostfs_pc's own shell.                    *)
(*                                                                          *)
(* A path is a sequence of names; a name is a base and a spelling, spellings*)
(* of one base differ in the case of their letters.  Every command is one   *)
(* step here; PathRace takes the parsing apart.                             *)
(***************************************************************************)
EXTENDS Integers, Sequences, FiniteSets, SequencesExt

CONSTANTS Drive,       \* host0 .. host7
          Name,        \* names files can get: <<base, spelling>>
          Rating(_, _),\* letters two spellings have in common, position by position
          Tops,        \* directories of the PC that exist at the start
          Mountable,   \* directories the user of the PC mounts, as paths
          MaxTokens,   \* MAX_TOKENS - 1: names gen_path looks at
          Paths,       \* paths programs use
          ChDirs,      \* paths programs change to
          MaxDepth,    \* bound: names below the PC's root
          MaxObjects,  \* bound: files and directories at a time
          RenameBuf    \* bytes of HOSTFS_RENAME_BUFSIZE, counted in names

Dot    == <<".", 0>>
DotDot == <<"..", 0>>
Other  == <<"other", 0>>   \* two names run together

\* A path as a program writes it: absolute or not, with a slash at its end or not.
Written(p) ==
  /\ p.abs \in BOOLEAN /\ p.slash \in BOOLEAN
  /\ \A i \in DOMAIN p.names : p.names[i] \in Name \cup {Dot, DotDot}

\* What the constants are assumed to be.
PathAssumption ==
  /\ MaxTokens \in Nat /\ MaxDepth \in Nat /\ MaxObjects \in Nat /\ RenameBuf \in Nat
  /\ {Dot, DotDot, Other} \cap Name = {}
  /\ \A p \in Paths \cup ChDirs : Written(p)

VARIABLES dirs, files, \* the PC's directories and files, as paths; << >> is the root
          g_drives,    \* each drive: rootdir, and currdir as the program wrote it
          g_nocase

vars == <<dirs, files, g_drives, g_nocase>>

Nowhere == [abs |-> FALSE, slash |-> FALSE, names |-> <<>>]   \* ""
Slash   == [abs |-> TRUE, slash |-> TRUE, names |-> <<>>]     \* "/"

\* parse_args: every drive shows the directory usbhostfs_pc was started in.
Init ==
  /\ dirs = {<<>>} \cup Tops /\ files = {}
  /\ \E top \in Mountable : g_drives = [d \in Drive |-> [rootdir |-> top, currdir |-> Nowhere]]
  /\ g_nocase \in BOOLEAN

-----------------------------------------------------------------------------
(***************************************************************************)
(* From a program's path to a path of the PC.                               *)
(***************************************************************************)

\* One name of gen_path's second loop.
Resolve(path, name) ==
  IF name = Dot THEN path
  ELSE IF name = DotDot THEN (IF path = <<>> THEN path ELSE Front(path))
  ELSE Append(path, name)

gen_path(names) == FoldLeft(Resolve, <<>>, SubSeq(names, 1, IF Len(names) < MaxTokens
                                                             THEN Len(names) ELSE MaxTokens))

\* snprintf "%s%s": without a slash between them, the last name of the current
\* directory and the first of the path run together.
Together(dir, path) ==
  IF dir.slash \/ path.abs \/ dir.names = <<>> \/ path.names = <<>>
  THEN dir.names \o path.names
  ELSE Front(dir.names)
         \o <<IF Last(dir.names) = Dot /\ Head(path.names) = Dot THEN DotDot ELSE Other>>
         \o Tail(path.names)

Entries(dir) == {p \in dirs \cup files : Len(p) = Len(dir) + 1 /\ Front(p) = dir}

\* Mutant of Better: any match will do.
AnyMatch(token, name, found) == TRUE

\* find_nocase: a match replaces the one found before if calc_rating rates it higher.
Better(token, name, found) == \A m \in found : Rating(token[2], name[2]) >= Rating(token[2], m[2])

\* The names find_nocase can settle on, whatever order readdir gives.
find_nocase(dir, token) ==
  LET found == {Last(p) : p \in {q \in Entries(dir) : Last(q)[1] = token[1]}}
  IN  IF dir \in dirs THEN {n \in found : Better(token, n, found)} ELSE {}

\* make_nocase: name by name; a name without a match is kept if it is the last one,
\* and otherwise the whole path is.
make_nocase(root, path) ==
  LET Step(sofar, i) ==
        UNION {LET match == find_nocase(root \o p, path[i])
               IN  IF match # {} THEN {Append(p, n) : n \in match}
                   ELSE IF i = Len(path) THEN {Append(p, path[i])} ELSE {} : p \in sofar}
      ends == FoldLeft(Step, {<<>>}, [i \in 1 .. Len(path) |-> i])
      \* a search that ends early leaves the path as it is
      lost == \E n \in 1 .. (Len(path) - 1) :
                \E p \in FoldLeft(Step, {<<>>}, [i \in 1 .. (n - 1) |-> i]) :
                  find_nocase(root \o p, path[n]) = {}
  IN  ends \cup (IF lost THEN {path} ELSE {})

\* Mutant of Inner: the path is normalised only once the root is in front of it.
InnerRaw(d, path) == Together(g_drives[d].currdir, path)

\* The path inside the drive.
Inner(d, path) == gen_path(Together(g_drives[d].currdir, path))

\* The paths of the PC make_path can return.
make_path(d, path) ==
  LET inner == Inner(d, path)
      root  == g_drives[d].rootdir
  IN  {gen_path(root \o p) : p \in IF g_nocase THEN make_nocase(root, inner) ELSE {inner}}

-----------------------------------------------------------------------------
(***************************************************************************)
(* Commands of programs.  Those that fail change nothing and are no steps.  *)
(***************************************************************************)

Exists(p) == p \in dirs \cup files

Creatable(p) ==
  /\ ~Exists(p) /\ p # <<>> /\ Front(p) \in dirs /\ Len(p) <= MaxDepth
  /\ Cardinality(dirs \cup files) < MaxObjects

\* open_file with O_CREAT on a path that does not exist.
open_file(d, path) ==
  \E p \in make_path(d, path) :
    /\ Creatable(p)
    /\ files' = files \cup {p}
    /\ UNCHANGED <<dirs, g_drives, g_nocase>>

handle_remove(d, path) ==
  \E p \in make_path(d, path) :
    /\ p \in files
    /\ files' = files \ {p}
    /\ UNCHANGED <<dirs, g_drives, g_nocase>>

handle_mkdir(d, path) ==
  \E p \in make_path(d, path) :
    /\ Creatable(p)
    /\ dirs' = dirs \cup {p}
    /\ UNCHANGED <<files, g_drives, g_nocase>>

handle_rmdir(d, path) ==
  \E p \in make_path(d, path) :
    /\ p \in dirs /\ p # <<>> /\ Entries(p) = {}
    /\ dirs' = dirs \ {p}
    /\ UNCHANGED <<files, g_drives, g_nocase>>

\* Mutant of Rebased: the new name is taken as it is written.
AsWritten(old, new) == new

\* An absolute old path and a relative new one: the new one is in the directory of
\* the old one.
Rebased(old, new) ==
  IF old.abs /\ ~new.abs
  THEN [new EXCEPT !.abs = TRUE,
                   !.names = (IF old.slash \/ old.names = <<>> THEN old.names ELSE Front(old.names))
                               \o new.names]
  ELSE new

\* The host's rename(): a file over a file, a directory over an empty directory or
\* nothing, nothing into itself.
Renames(p, q) ==
  /\ Exists(p) /\ p # q /\ q # <<>> /\ Front(q) \in dirs /\ Len(q) <= MaxDepth
  /\ ~IsPrefix(p, q) /\ ~IsPrefix(q, p)
  /\ IF p \in files
     THEN q \notin dirs /\ files' = (files \ {p}) \cup {q} /\ UNCHANGED dirs
     ELSE LET Moved(s) == {IF IsPrefix(p, r) THEN q \o SubSeq(r, Len(p) + 1, Len(r)) ELSE r : r \in s}
          IN  /\ q \notin files /\ Entries(q) = {}
              /\ \A r \in dirs \cup files :
                   IsPrefix(p, r) => (Len(q) + Len(r)) - Len(p) <= MaxDepth
              /\ dirs' = Moved(dirs) /\ files' = Moved(files)

handle_rename(d, old, new) ==
  /\ \E p \in make_path(d, old), q \in make_path(d, Rebased(old, new)) :
       /\ Renames(p, q)
     /\ UNCHANGED <<g_drives, g_nocase>>

\* The path becomes the current directory as it is written, whether or not it exists.
handle_chdir(d, path) ==
  /\ g_drives' = [g_drives EXCEPT ![d].currdir = path]
  /\ UNCHANGED <<dirs, files, g_nocase>>

(***************************************************************************)
(* The same on the PSP.  Each call is one exchange: with no PC connected it *)
(* returns -1 and nothing happens; when only the answer is lost it returns  *)
(* -1 and the PC has done it.                                               *)
(***************************************************************************)
io_open(d, path)   == open_file(d, path)
io_remove(d, path) == handle_remove(d, path)
io_mkdir(d, path)  == handle_mkdir(d, path)
io_rmdir(d, path)  == handle_rmdir(d, path)
io_chdir(d, path)  == handle_chdir(d, path)

\* Both names go into one buffer.
io_rename(d, old, new) ==
  /\ Len(old.names) + Len(new.names) + 2 <= RenameBuf
  /\ handle_rename(d, old, new)

-----------------------------------------------------------------------------
(***************************************************************************)
(* Commands of usbhostfs_pc's shell.                                        *)
(***************************************************************************)

\* A drive just mounted.
Fresh(dir) == [rootdir |-> dir, currdir |-> Slash]

\* add_drive: a directory that can be opened becomes the root.
add_drive(d, dir) ==
  /\ dir \in dirs
  /\ g_drives' = [g_drives EXCEPT ![d] = Fresh(dir)]
  /\ UNCHANGED <<dirs, files, g_nocase>>

nocase_set ==
  /\ g_nocase' = ~g_nocase
  /\ UNCHANGED <<dirs, files, g_drives>>

Next ==
  \/ \E d \in Drive, path \in Paths :
       \/ io_open(d, path) \/ io_remove(d, path) \/ io_mkdir(d, path)
       \/ io_rmdir(d, path)
       \/ \E new \in Paths : io_rename(d, path, new)
  \/ \E d \in Drive, path \in ChDirs : io_chdir(d, path)
  \/ \E d \in Drive, dir \in Mountable : add_drive(d, dir)
  \/ nocase_set

Spec == Init /\ [][Next]_vars

-----------------------------------------------------------------------------
(***************************************************************************)
(* Properties.                                                              *)
(***************************************************************************)

\* The host's tree stays a tree, whatever the commands: every file and directory is
\* in a directory, and nothing is both.
TypeOK ==
  /\ \A p \in (dirs \cup files) \ {<<>>} : Front(p) \in dirs
  /\ dirs \cap files = {}
  /\ \A d \in Drive : g_drives[d].currdir \in ChDirs \cup {Nowhere, Slash}

\* make_path: whatever ".", ".." and current directory a program uses, a command
\* changes nothing outside the root directory of a drive.
StaysInDrive ==
  \E d \in Drive :
    \A p \in ((dirs' \cup files') \ (dirs \cup files)) \cup ((dirs \cup files) \ (dirs' \cup files')) :
      IsPrefix(g_drives[d].rootdir, p)

\* find_nocase: switching case matching on never hides a file from the program that
\* spells it right.
ExactNameWins ==
  \A d \in Drive, path \in Paths :
    LET exact == g_drives[d].rootdir \o Inner(d, path)
    IN  Exists(exact) => make_path(d, path) = {exact}

\* handle_rename: renaming an absolute path to a plain relative name leaves the
\* object in the directory it was in, wherever the current directory is.
RenameStaysInDirectory ==
  \A d \in Drive, old, new \in Paths :
    /\ old.abs /\ ~new.abs /\ ~g_nocase /\ \E n \in Name : new.names = <<n>>
    /\ handle_rename(d, old, new)
    => LET from == g_drives[d].rootdir \o Inner(d, old)
       IN  \E q \in (dirs' \cup files') : q # from /\ Front(q) = Front(from)
=============================================================================
