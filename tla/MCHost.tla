------------------------------- MODULE MCHost -------------------------------
(***************************************************************************)
(* The file service between a PSP program and the PC, for TLC: the server's *)
(* descriptors (HostFsServer), the driver's transfers (HostDriver), paths   *)
(* (HostPath, PathRace) and attributes (HostStat).                          *)
(*                                                                          *)
(* A behaviour is one of one component, which part names: the others stay   *)
(* in an initial state.  So the state spaces add up and do not multiply,    *)
(* and the properties of all components are those of one run.               *)
(***************************************************************************)
EXTENDS FileService, TLC

CONSTANTS Parts,   \* the components the run looks at
          Serial,  \* of PathRace
          t1, t2,     \* threads of PSP programs
          shell, gdb  \* the channels

VARIABLES part,
          tree, leaves, g_drives, g_nocase,                        \* HostPath
          save, rootdir, serving, typing                           \* PathRace

serverVars == <<fds, g_clientsocks, async, sending, last, opened, g_bulkfd, dirs, g_hDev, session,
                nopen, files, dhandles>>
pathVars   == <<tree, leaves, g_drives, g_nocase>>
raceVars   == <<save, rootdir, serving, typing>>
allVars    == <<part, serverVars, driverVars, pathVars, raceVars, statVars>>

-----------------------------------------------------------------------------
(* The driver: one thread with every length, or two that meet in transfers  *)
(* of two blocks at the start of a file, with one failure at most.          *)

LensAsked == {-1, 0, 1, 2, 3, 5}

Alone    == thr'[t2] = thr[t2]
TwoBlock == /\ faults' <= 1 /\ \A t \in Thread : thr'[t].call.len \in {0, 3}
            /\ \A f \in Fid : table'[f].pos <= 3

-----------------------------------------------------------------------------
(* A tree with names that differ in their letters' case, and every form of  *)
(* path; spellings 0 and 3 of a two-letter name differ in both letters.     *)

small == <<"x", 0>>
big   == <<"x", 3>>
TopDir(s) == <<<<s, 0>>>>
Up   == <<"..", 0>>
Here == <<".", 0>>
Path(abs, names, slash) == [abs |-> abs, slash |-> slash, names |-> names]

PathSet == {Path(TRUE, <<small>>, FALSE), Path(FALSE, <<small>>, FALSE),
            Path(FALSE, <<big>>, FALSE), Path(TRUE, <<small, big>>, FALSE),
            Path(TRUE, <<big, small>>, FALSE), Path(FALSE, <<Up, big>>, FALSE),
            Path(FALSE, <<Here, small>>, FALSE), Path(TRUE, <<small, Up>>, FALSE),
            Path(TRUE, <<small>>, TRUE)}
ChDirSet == {Path(TRUE, <<small>>, TRUE), Path(TRUE, <<big>>, FALSE),
             Path(FALSE, <<Up, small>>, TRUE), Path(TRUE, <<small, Here>>, FALSE)}
SameLetters(a, b) == (IF a % 2 = b % 2 THEN 1 ELSE 0) + (IF a \div 2 = b \div 2 THEN 1 ELSE 0)

Tree == INSTANCE HostPath WITH
          Drive <- {0}, Name <- {small, big}, Rating <- SameLetters,
          Tops <- {TopDir("r"), TopDir("o")},
          Mountable <- {TopDir("r"), TopDir("r") \o <<small>>},
          MaxTokens <- 4, Paths <- PathSet, ChDirs <- ChDirSet,
          MaxDepth <- 3, MaxObjects <- 6, RenameBuf <- 6, dirs <- tree, files <- leaves

-----------------------------------------------------------------------------
(* Paths and mount commands as strings: names a and b, with every use of    *)
(* slashes, dots and blanks.                                                *)

RaceRoots == {<<>>, <<<<"a">>>>, <<<<"a">>, <<"b">>>>, <<<<"a", " ", "b">>>>}

Race == INSTANCE PathRace WITH
          Slash <- "/", Blank <- " ", Dot <- ".", DotDot <- "..", Mount <- "mount", Num <- "0",
          Paths <- {<<"/", "a", "/", "b">>, <<"/", "..", "/", "a">>,
                    <<"a", "/", ".", "/", "..", "/", "b">>, <<"/", "/", "b", "/">>},
          MountDirs <- {<<"/", "a">>, <<"/", "a", "/", "b">>, <<"/", "b", "/", ".", "/", "..">>,
                        <<"/", "a", " ", "b">>, <<"b">>, <<"/", "b">>},
          RootDirs <- RaceRoots, Cwd <- <<<<"a">>>>, MaxTokens <- 6,
          server <- serving, shell <- typing

ASSUME Instances == Tree!PathAssumption /\ Race!RaceAssumption

-----------------------------------------------------------------------------
MCInit ==
  /\ part \in Parts
  /\ Init
  /\ Driver!Init
  /\ part # "tree" =>
       /\ g_nocase = FALSE
       /\ g_drives = [d \in {0} |-> [rootdir |-> TopDir("r"), currdir |-> Tree!Nowhere]]
  /\ Tree!Init
  /\ part # "race" => rootdir = <<>>
  /\ Race!Init
  /\ part # "stat" => file = CHOOSE a \in Stat!Attributes : TRUE
  /\ Stat!Init

\* Files among the sockets of one channel, output to two channels beside one
\* file, and directories without the rest: neither touches what the other keeps.
OneChannel  == sending' = NotSending /\ g_clientsocks'[gdb] = None /\ async'.chan # gdb
TwoChannels == nopen' <= 1

FilesStep ==
  /\ Next /\ UNCHANGED <<dirs, dhandles>>
  /\ \/ part = "files" /\ OneChannel
     \/ part = "chans" /\ TwoChannels
  /\ UNCHANGED <<part, driverVars, pathVars, raceVars, statVars>>

DirsStep ==
  /\ part = "dirs" /\ Next /\ UNCHANGED <<opened, async, g_clientsocks>>
  /\ UNCHANGED <<part, driverVars, pathVars, raceVars, statVars>>

DriverStep ==
  /\ Driver!Next /\ ~mistaken
  /\ \/ part = "blocks" /\ Alone
     \/ part = "threads" /\ TwoBlock
  /\ UNCHANGED <<part, serverVars, pathVars, raceVars, statVars>>

TreeStep ==
  /\ part = "tree" /\ Tree!Next
  /\ UNCHANGED <<part, serverVars, driverVars, raceVars, statVars>>

RaceStep ==
  /\ part = "race" /\ Race!Next
  /\ UNCHANGED <<part, serverVars, driverVars, pathVars, statVars>>

StatStep ==
  /\ part = "stat" /\ Stat!Next
  /\ UNCHANGED <<part, serverVars, driverVars, pathVars, raceVars>>

MCNext == FilesStep \/ DirsStep \/ DriverStep \/ TreeStep \/ RaceStep \/ StatStep

MCSpec == MCInit /\ [][MCNext]_allVars
-----------------------------------------------------------------------------
(* Each property is the conjunction of what its component promises; those   *)
(* of the server, the driver and attributes are FileService's.              *)

\* mount_drive, add_drive: "Mount a directory (mount num dir)": a mount that
\* reports no error has mounted the directory it names.
MountedAsAsked == Race!MountedAsAsked

\* make_path, find_nocase, handle_rename: a command changes nothing outside a
\* drive's root directory, over any chain of mounts and changes of directory;
\* case matching never hides a file from the program that spells it right; a
\* rename to a plain name stays in the directory.  Paths and mounts are those
\* asked for, normalised, whatever calls of strtok came before.
PathsMeanWhatTheySay ==
  /\ [](/\ part = "tree" => Tree!TypeOK /\ Tree!ExactNameWins
        /\ part = "race" => Race!ResolvedAsAsked /\ MountedAsAsked)
  /\ [][part = "tree" => Tree!StaysInDrive /\ Tree!RenameStaysInDirectory]_pathVars
=============================================================================
