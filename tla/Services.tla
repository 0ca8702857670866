------------------------------ MODULE Services ------------------------------
(***************************************************************************)
(* What runs beside the shell, each over variables of its own: the hooks on *)
(* system calls (ApiHook), the symbols of modules (Symbols), the kernel's   *)
(* printf (Kprintf), the sequence of sessions all of it lives in (Session), *)
(* the terminal on the PC (PcTerm) and the PC's joystick (RemoteJoy).       *)
(***************************************************************************)
EXTENDS ApiHook

CONSTANTS SymFiles, Bases, ModuleSize, AbsFrom, Again, MaxLoads,                   \* Symbols
          KPRINTF_BUF_SIZE, MaxPut,                                            \* Kprintf
          Files, ArgLists, Dirs, InitDir, MAX_ARGS, Inis, None, MaxBoots,      \* Session
          Stream, retries, MaxOpens, MaxLines,                                 \* PcTerm
          buttmap, analog, Positions, tol, Chunk, BufSize, MaxEvents           \* RemoteJoy

VARIABLES base, files, symloads,                                               \* Symbols
          g_buf, g_writepos, g_readpos, g_total, flag, printer, low, high,   \* Kprintf
          putout, count, lastput, ended,
          phase, mode, saved, argp, dir, key, exec, resets, settings,        \* Session
          script, early, started, asked, left, boots,
          serialmode, state, running, sock, open, readsave, writesave,       \* PcTerm
          conn_sanity, sent, taken, linebuf, printed, prompt, prompts,
          torn, failures, opens, lines,
          joying, held, stick, button_state, nsent, wire, ring, lost,        \* RemoteJoy
          reader, Buttons, axis, applied

symbolVars  == <<base, files, symloads>>
printVars   == <<g_buf, g_writepos, g_readpos, g_total, flag, printer, low, high, putout, count,
                 lastput, ended>>
sessionVars == <<phase, mode, saved, argp, dir, key, exec, resets, settings, script, early,
                 started, asked, left, boots>>
termVars    == <<serialmode, state, running, sock, open, readsave, writesave, conn_sanity, sent,
                 taken, linebuf, printed, prompt, prompts, torn, failures, opens, lines>>
joyVars     == <<joying, held, stick, button_state, nsent, wire, ring, lost, reader, Buttons,
                 axis, applied>>

SymNames == INSTANCE Symbols WITH Size <- ModuleSize, loads <- symloads
Printing == INSTANCE Kprintf WITH
              Size <- KPRINTF_BUF_SIZE, MaxChars <- MaxPut,
              pc <- printer, done <- putout, printed <- lastput
Sessions == INSTANCE Session WITH ctx <- settings
Terminal == INSTANCE PcTerm
Joystick == INSTANCE RemoteJoy WITH running <- joying, pc <- reader, last <- applied

ASSUME ServicesAssumption ==
  /\ HookAssumption
  /\ SymNames!SymbolsAssumption
  /\ Printing!SizeAssumption
  /\ Sessions!SessionAssumption
  /\ Terminal!TermAssumption
  /\ Joystick!JoyAssumption

\* Both argument arrays have room for every argument and the four strings that
\* go before them and end them.
ArgsFit == 4 <= MAX_ARGS /\ \A args \in ArgLists : Len(args) + 4 <= MAX_ARGS

-----------------------------------------------------------------------------
(***************************************************************************)
(* Each property is the conjunction of what its component promises;         *)
(* HooksTransparent is ApiHook's.                                           *)
(***************************************************************************)

\* symbolFindByName, symbolFindByAddress: the address of a name, and every
\* address in its symbol, leads back to it wherever the module is loaded; an
\* address that is given a name and an offset is that name's plus that offset.
SymbolsLeadBack == SymNames!TypeOK /\ SymNames!NamesLeadBack /\ SymNames!AddressesLeadBack

\* PutCharDebug, main_thread of Kprintf: what is in the ring are the last
\* characters accepted, none overwritten before it is printed, and characters
\* come out in order, each once, although others come in meanwhile.
PrintedInOrder == /\ [](Printing!TypeOK /\ Printing!RingHoldsLast)
                  /\ [][Printing!InSequence]_printVars

\* psplinkReset, restoreContext, exec_cmd: a reset leads back to the directory
\* and the mode of the session, whatever else ended one to those of the
\* configuration; the program and arguments of exec are those it was last
\* given, over the reboot that it takes; a session starts at most one program
\* by exec, its startup script included, as long as no exec comes before
\* initialise is through.
SessionsResume == /\ [](Sessions!TypeOK /\ Sessions!ExecReuses /\ Sessions!OneExecPerSession)
                  /\ [][Sessions!StartsInPlace]_sessionVars

\* read_socket, on_connecting: every prompt of what was read is installed and
\* all other text printed, also when reads cut prompts in two, until one cuts
\* behind the first mark of a prompt, into its middle piece or behind two prompts,
\* or a connection ends inside one; select is called on open descriptors, the
\* socket's among them, and does not wait for a connected socket to become
\* writable unless it stood at once after an attempt that failed; and as many
\* connections are tried again as -r says.
TerminalFollows == /\ [](/\ Terminal!TypeOK /\ Terminal!Selectable
                         /\ Terminal!WaitsQuietly /\ Terminal!PromptsSeen)
                   /\ [][Terminal!RetriesAsAsked]_termVars

\* remotejoy: unless the ring overflowed, the PSP has the buttons and axes
\* meant, which are those held, a button that several mean when all are held or
\* none is; whatever the ring dropped, an event applied is
\* one that was sent, in the order sent and none twice.
JoystickFollowed == /\ [](/\ Joystick!TypeOK /\ Joystick!FollowsJoystick
                          /\ Joystick!OnlySent /\ Joystick!Agrees)
                    /\ [][Joystick!InOrder]_joyVars
=============================================================================
