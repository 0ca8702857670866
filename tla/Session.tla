------------------------------- MODULE Session -------------------------------
(***************************************************************************)
(* One PSPLINK session after another: initialise (psplink/main.c), which   *)
(* lets the shell run before it is through, the commands that end a        *)
(* session or put a program in it (cd, reset, exec), a program's           *)
(* sceKernelExitGame, and what crosses a reboot: the saved context at      *)
(* SAVED_ADDR, and the strings sceKernelLoadExec hands to the bootstrap    *)
(* (bootstrap/main.c), which hands them to psplink.prx.                    *)
(***************************************************************************)
EXTENDS Integers, Sequences, SequencesExt

CONSTANTS
  Files,         \* programs exec may be given
  ArgLists,      \* arguments exec may be given
  Dirs,          \* directories cd may be given
  InitDir,       \* where a session starts, from the configuration
  MAX_ARGS,      \* size of the argument arrays of bootstrap and of psplink
  Inis,          \* what psplink.ini may hold when a session starts: [startsh, the
                 \* program its startup script runs with exec, or None; resetonexit]
  None,          \* no program
  MaxBoots       \* bound on reboots

\* What the constants are assumed to be.
SessionAssumption ==
  /\ MAX_ARGS \in Nat \ {0, 1} /\ MaxBoots \in Nat
  /\ None \notin Files /\ InitDir \in Dirs
  /\ Inis \subseteq [startsh : Files \cup {None}, resetonexit : BOOLEAN]
  /\ Files \subseteq STRING /\ ArgLists \subseteq Seq(STRING)

Keys == {"game", "vsh", "updater"}

VARIABLES
  phase,         \* "boot", "shell" (shellInit is through), "up" (initialise is)
  mode,          \* the key the PSP was rebooted with
  saved,         \* struct SavedContext: [magic, dir, key]
  argp,          \* the strings the bootstrap is started with
  dir, key,      \* g_context.currdir and rebootkey
  exec,          \* g_context.execfile, execargs, inexec: [file, args, on]
  resets,        \* g_context.resetonexit
  ctx,           \* the settings of this session
  script,        \* the startup script: "pending" or "done"
  early,         \* exec put a program in this session before initialise was through
  started,       \* programs started by exec in this session
  asked,         \* what exec was last given: [file, args]
  left,          \* how the last session ended, and where: [how, dir, key]
  boots

vars == <<phase, mode, saved, argp, dir, key, exec, resets, ctx, script, early,
          started, asked, left, boots>>

NoExec == [file |-> None, args |-> <<>>, on |-> FALSE]
BootFile == "EBOOT.PBP"

-----------------------------------------------------------------------------
(* Both argument parsers stop one short of their array.                    *)
Parsed(strings) ==
  SubSeq(strings, 1, IF Len(strings) < MAX_ARGS - 1 THEN Len(strings) ELSE MAX_ARGS - 1)

(* The bootstrap puts the id of its thread behind the first string.        *)
Bootstrap(strings) ==
  LET g_argv == Parsed(strings)
  IN <<g_argv[1], "thid">> \o SubSeq(g_argv, 2, Len(g_argv))

\* Mutant of parse_sceargs.
SwallowsFirst(strings) ==
  LET argv == Parsed(strings)
  IN IF Len(argv) > 2 THEN [file |-> argv[3], args |-> SubSeq(argv, 5, Len(argv)), on |-> FALSE]
     ELSE NoExec

(* parse_sceargs: the third string is a program, the others its arguments. *)
parse_sceargs(strings) ==
  LET argv == Parsed(strings)
  IN IF Len(argv) > 2 THEN [file |-> argv[3], args |-> SubSeq(argv, 4, Len(argv)), on |-> FALSE]
     ELSE NoExec

Init == /\ phase = "boot" /\ mode = "game"
        /\ saved = [magic |-> FALSE, dir |-> InitDir, key |-> "game"]
        /\ argp = <<BootFile>>
        /\ dir = InitDir /\ key = "game" /\ exec = NoExec /\ resets = FALSE
        /\ ctx \in Inis /\ script = "done" /\ early = FALSE /\ started = 0
        /\ asked = [file |-> None, args |-> <<>>]
        /\ left = [how |-> "cold", dir |-> InitDir, key |-> "game"]
        /\ boots = 0

\* Mutant of Start.
KeepsMagic ==
  /\ phase = "boot" /\ phase' = "shell"
  /\ exec' = parse_sceargs(Bootstrap(argp))
  /\ dir' = IF saved.magic THEN saved.dir ELSE InitDir
  /\ key' = IF saved.magic THEN saved.key ELSE "game"
  /\ resets' = FALSE /\ started' = 0
  /\ ctx' \in Inis /\ early' = FALSE
  /\ script' = IF ctx'.startsh = None THEN "done" ELSE "pending"
  /\ UNCHANGED <<mode, saved, argp, asked, left, boots>>

(* initialise up to shellInit, which starts the thread of the shell.       *)
Start ==
  /\ phase = "boot" /\ phase' = "shell"
  /\ exec' = parse_sceargs(Bootstrap(argp))
  /\ dir' = IF saved.magic THEN saved.dir ELSE InitDir
  /\ key' = IF saved.magic THEN saved.key ELSE "game"
  /\ saved' = [saved EXCEPT !.magic = FALSE]
  /\ resets' = FALSE /\ started' = 0
  /\ ctx' \in Inis /\ early' = FALSE
  /\ script' = IF ctx'.startsh = None THEN "done" ELSE "pending"
  /\ UNCHANGED <<mode, argp, asked, left, boots>>

(* The rest of initialise: a program that crossed the reboot is started.   *)
Finish ==
  /\ phase = "shell" /\ phase' = "up"
  /\ resets' = ctx.resetonexit
  /\ \/ /\ exec.file # None
        /\ exec' = [exec EXCEPT !.on = TRUE] /\ started' = started + 1
     \/ UNCHANGED <<exec, started>>    \* there is none, or it does not load
  /\ UNCHANGED <<mode, saved, argp, dir, key, ctx, script, early, asked, left, boots>>

(* sceKernelLoadExec: nothing but SAVED_ADDR and the strings survives.     *)
LoadExec(how, k, strings) ==
  /\ boots < MaxBoots /\ boots' = boots + 1
  /\ phase' = "boot" /\ mode' = k /\ argp' = strings
  /\ left' = [how |-> how, dir |-> dir, key |-> key']
  /\ UNCHANGED <<dir, exec, resets, ctx, early, started>>

psplinkReset(k) ==
  /\ key' = k
  /\ saved' = [magic |-> TRUE, dir |-> dir, key |-> k]
  /\ LoadExec("reset", k, <<BootFile>>)
  /\ UNCHANGED <<asked, script>>

\* Mutant of ExecLoad.
LoadsAgain(file, args) ==
  /\ asked' = [file |-> file, args |-> args]
  /\ exec' = [file |-> file, args |-> args, on |-> TRUE]
  /\ started' = started + 1 /\ early' = (early \/ phase = "shell")
  /\ UNCHANGED <<phase, mode, saved, argp, dir, key, resets, ctx, left, boots>>

(* exec_cmd, in a session that runs a program already or in one that does  *)
(* not; the program may fail to load.                                      *)
ExecReboot(file, args) ==
  /\ exec.on
  /\ asked' = [file |-> file, args |-> args]
  /\ UNCHANGED <<saved, key>>
  /\ LoadExec("exec", "default", <<BootFile, file>> \o args)

ExecLoad(file, args) ==
  /\ ~exec.on
  /\ asked' = [file |-> file, args |-> args]
  /\ exec' = [file |-> file, args |-> args, on |-> TRUE]
  /\ started' = started + 1 /\ early' = (early \/ phase = "shell")
  /\ UNCHANGED <<phase, mode, saved, argp, dir, key, resets, ctx, left, boots>>

(* The shell's thread runs the startup script, and then commands; it does  *)
(* not wait until initialise is through.                                   *)
Ready == phase \in {"shell", "up"}

Script ==
  /\ Ready /\ script = "pending" /\ script' = "done"
  /\ ExecLoad(ctx.startsh, <<>>) \/ ExecReboot(ctx.startsh, <<>>)

chdir_cmd(d) ==
  /\ Ready /\ script = "done" /\ d # dir /\ dir' = d
  /\ UNCHANGED <<phase, mode, saved, argp, key, exec, resets, ctx, script, early, started, asked,
                 left, boots>>

reset_cmd(k) == Ready /\ script = "done" /\ psplinkReset(k)

exec_cmd ==
  /\ Ready /\ script = "done" /\ UNCHANGED script
  /\ \/ \E file \in Files, args \in ArgLists : ExecReboot(file, args) \/ ExecLoad(file, args)
     \/ exec.on /\ ExecReboot(exec.file, exec.args)

(* exit_reset: the program calls sceKernelExitGame.                        *)
exit_reset ==
  /\ phase = "up" /\ exec.on /\ resets
  /\ psplinkReset(key)

Next == \/ Start \/ Finish \/ Script \/ exec_cmd \/ exit_reset
        \/ \E d \in Dirs : chdir_cmd(d)
        \/ \E k \in Keys : reset_cmd(k)

Spec == Init /\ [][Next]_vars

-----------------------------------------------------------------------------
TypeOK ==
  /\ phase \in {"boot", "shell", "up"} /\ mode \in Keys \cup {"default"}
  /\ saved \in [magic : BOOLEAN, dir : Dirs, key : Keys]
  /\ dir \in Dirs /\ key \in Keys
  /\ exec.file \in Files \cup {None} /\ exec.on \in BOOLEAN
  /\ resets \in BOOLEAN /\ ctx \in Inis /\ early \in BOOLEAN /\ script \in {"pending", "done"}

(* A reset leads back to the directory and the reset mode of the session   *)
(* that was reset, in that mode; whatever else ended a session leads to    *)
(* the directory of the configuration, a saved one from before included.   *)
StartsInPlace ==
  (phase = "boot" /\ phase' = "shell") =>
    IF left.how = "reset" THEN dir' = left.dir /\ key' = left.key /\ mode = left.key
    ELSE dir' = InitDir

(* The manual on exec: "This saves the path and arguments away for later   *)
(* use.  [...] If you do not specify a path then PSPLINK will reuse the    *)
(* ones from the current exec session".                                    *)
ExecReuses ==
  (exec.on /\ phase # "boot") => (exec.file = asked.file /\ exec.args = asked.args)

(* The manual on exec: "If exec has already been run in this session       *)
(* PSPLINK will reboot before executing the module."  So it is unless     *)
(* exec is typed before initialise is through.                             *)
OneExecPerSession == ~early => started <= 1
==============================================================================
