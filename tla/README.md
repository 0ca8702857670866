# PSPLINK in TLA+

PSPLINK is a debugging environment for the PSP: a kernel module with a shell
(`psplink/`), a USB driver that gives programs a `host0:` file system and
asynchronous byte channels served by a PC (`usbhostfs/`), the PC program at the
other end (`usbhostfs_pc/`), and clients of the channels (`usbshell/`,
`usbgdb/`, `tools/`). This directory models the parts where several threads, two
machines and a cable that can be pulled at any time meet, and the algorithms
whose corner cases a test would hardly reach.

## Inventory

| Part | State | Operations | What makes it correct | Module |
|---|---|---|---|---|
| Asynchronous channels (`usbhostfs/main.c` 627-842) | `g_async_chan`, a ring per endpoint, one event flag | `fill_async`, `usbAsyncRegister`, `Unregister`, `Read`, `Flush`, driver start and stop | bytes in order, no overflow, no lost wake-up, nobody reads a dead or foreign endpoint | `UsbAsync`, `AsyncPipe` |
| USB link (`usbhostfs/main.c` 254-623, 844-1120) | three request structures, `g_mainevent`, `g_transevent`, `g_mainsema`, `g_connected` | `usb_thread`, `command_xchg`, `send_async`, `usbWriteBulkData`, `usbWaitForConnect`, start, stop | an exchange gets its own answer, the connection state follows the cable, the semaphore always comes back | `HostFsLink` |
| `host0:` device (`host_driver.c`) | the file id in the kernel's file argument | an exchange per call; reads and writes in 64 KB blocks | a transfer moves what it reports, ids stay the files' | `HostDriver`, `HostStat` |
| PC server (`usbhostfs_pc/main.c` 551-2324) | `open_files`, `open_dirs`, `g_bulkfd` | a handler per command, sessions | no descriptor leaks, ids stay valid, enumeration is exact | `HostFsServer` |
| PC sockets (2173-2190, 2944-3098) | `g_clientsocks` | accept, hang-up, forwarding | data goes to the client of its channel | `HostFsServer` |
| Drives and paths (307-549, 2516-2940) | `g_drives`, current directories, settings | path normalisation, case matching, mount | a path stays below its drive's root and means the file it names | `HostPath`, `PathRace` |
| tty and stdio (`psplink/tty.c`, `stdio.c`) | stdin ring, `g_stdinwaitth`, `g_in_sema` | `inputHandler`, `ttyAddInputData` | no input slept over, no stray wake-up | `TtyInput` |
| Shell (`psplink/shell.c`, `script.c`) and its clients | message box, tty mode, script stack | lines, scripts, exceptions in commands | every line is processed, as it was typed; a crash of one is survived | `Shell`, `CommandLine`, `CliEditor`, `NetShell` |
| Memory commands, address expressions, symbols | regions, symbol files | about 20 commands | no access leaves its region; names and addresses agree | `MemoryCommands`, `AddressCalc`, `Symbols` |
| Debugger and exceptions (`debug.c`, `exception.c`, `psplink_user/`) | `g_bps`, `g_stepbp`, context pool, `g_currex` | set, delete, step, trap, resume | memory gets its instructions back, contexts are neither shared nor lost | `Debugger` |
| gdb stub (`gdbcommon/`, `usbgdb/`, `netgdb/`) | one trapped context, step breakpoints, hardware registers | the remote protocol | memory as gdb left it; one packet, one execution, one answer | `GdbStub`, `GdbPacket` |
| API hooks (`apihook.c`, `libs.c`, `kmode.S`) | `g_apihooks`, the system call table | hook, delete, the stub | every call reaches its function and gets its results | `ApiHook` |
| Configuration and start-up (`config.c`, `main.c`, `bootstrap/`) | `psplink.ini`, the saved context, boot arguments | confset, confdel, reset, exec, exit | no setting lost to a power failure; a session starts where it should | `ConfigFile`, `Session` |
| `pcterm` | one connection, readline, prompt scanner | a select loop | open descriptors only, prompts and output told apart | `PcTerm` |
| remotejoy, kprintf | joystick state on both sides; a character ring | events, pad hooks; print thread | both sides agree; characters in order and all out | `RemoteJoy`, `Kprintf` |
| USB modes, module and kernel object commands, disassembler, other tools | tables | see the source | see "Not modelled" | |

How they interact: `host0:` calls and channel output become exchanges on bulk
endpoints 1 and 2 under `g_mainsema`; the PC's single server thread answers
them. Channel input arrives on endpoint 3 and is demultiplexed by `usb_thread`
into rings that client threads drain. On the PC, `async_thread` moves bytes
between sockets and endpoint 3 and shares the process's descriptor table with
the server thread. usbshell feeds the shell, which in tty mode feeds stdin.

The hard behaviours: every thread posts the *same* request structures; waits
have no timeouts; attach, detach and completion callbacks run at any time; the
PC gives up after 10 s without telling the PSP; file ids are bare descriptor
numbers; two PC threads share `g_clientsocks` and `g_hDev` without a lock.
`PROJECT.json` lists the hazards by line.

## Modules

| Module | Models | Shape |
|---|---|---|
| `Ring` | the hand-written byte ring of `AsyncEndpoint` and of the tty | operators; one copy loop, run with interrupts off, is one value |
| `AsyncPipe` | abstract: a bounded FIFO per endpoint | specification |
| `UsbAsync` | the channels | `usbAsyncRead` in three steps (check, wait, copy), everything else one step, because it runs with interrupts off; instantiates `AsyncPipe` with the unread bytes of each ring |
| `HostFsLink` | the link with both its ends | a thread is a position, an operation and the packets left of it; the PC is the packets left of what it serves |
| `TtyInput` | stdin | copy loop and `sceKernelSleepThread` are separate steps; the kernel counts early wake-ups |
| `HostFsServer` | the PC's descriptors | one descriptor table for files, sockets and the device; server handlers are single steps but for `do_async`, which checks the slot, loads it and writes; `async_thread`'s `close` and slot update are two |
| `HostDriver` | `host0:` calls | a block is an exchange that is answered, executed with the answer lost, or never made |
| `HostPath`, `HostStat` | paths and attributes on the PC | one step a command; names with spellings; a change of attributes in its system calls |
| `PathRace` | two threads in `strtok` | one step a call; the reference `gen_path` is a recursive operator |
| `Debugger` | breakpoints, steps, contexts | program threads over a memory of instructions and breaks, the processor external |
| `GdbStub`, `GdbPacket` | the stub over traps; its packets | a trap hands over registers through one context; one step a character the stub reads, what is sent at once in one piece |
| `Shell` | parse thread, its startup script and clients | priorities are guards: a client goes on only when the parse thread waits, but for the one above it; messages lie on their senders' stacks |
| `CommandLine`, `CliEditor`, `NetShell` | a line taken apart; typed; carried by the network | loops round by round; keys; connections and printers |
| `AddressCalc`, `MemoryCommands`, `Symbols` | algorithms against reference definitions | machine over tokens; commands over bytes; lookups |
| `ApiHook` | hooks with threads inside their stubs | a call is a position in the stub |
| `PcTerm`, `RemoteJoy`, `Kprintf` | PC terminal, joystick, debug output | one step a select round, an event, a character |
| `ConfigFile`, `Session` | `psplink.ini` across power failures; sessions across reboots | each file operation a step; `initialise` in two, the shell between them |
| `FileService`, `Consoles`, `Debugging`, `Services` | components side by side, each over variables of its own: descriptors, transfers and attributes; stdin and the ways to enter a line; the two debuggers; what runs beside the shell | extends one component, declares the constants and variables of the others and states a property for each |
| `MCUsbAsync`, `MCHostFsLink` | instances for TLC | constants only |
| `MCHost`, `MCShell`, `MCDebug`, `MCSystem`, `MCLive` | suites for TLC | the first four extend the modules above in this order and add components that no theorem is about, or other constants for one |
| `RingProofs`, `UsbAsyncProofs`, `HostFsServerProofs`, `HostFsLinkProofs`, `HostDriverProofs`, `ConsoleProofs`, `DebuggerProofs`, `ServiceProofs` | theorems and their lemmas | each extends its component, the last four one of the modules above |

The code's names are kept for actions and for state where the model keeps the
variable. Some correspondences that are not evident:

* `UsbAsync`: `up` is "`g_asyncevent` exists"; `got` is the result of a
  client's last read. A NULL endpoint followed after the wait is the action
  `usbAsyncReadFault`. `Quiesce` says whether a channel is torn down (by
  `usbAsyncUnregister`, or by `start_func`, which wipes the table) only when no
  reader is inside `usbAsyncRead`; the code leaves that to the clients.
* `HostFsLink`: `Prog` lists the packets of each operation. A transfer is a
  rendezvous: `Post` (wipe and post the shared request), `Block` (the event
  wait), `Inspect` (look at the request as it is *now*). `clean` records whether
  all the packets a thread took as its own were sent for it. Bits of
  `g_mainevent` and `g_transevent` are sets. A packet too short for what was
  asked (the 4-byte magic) makes `read_data` post again, as in the code.
  `CloseSession` is the one place where the cable, the PC's exit and
  `usb_reset` meet; everything posted fails and `usb_detach` runs.
  `Signal` is the step that gives `g_mainsema` back. `start_func` waits for
  nobody: a client that `stop_func` and `start_func` both overtake inside an
  exchange goes on with it, beside the new holder, and frees the new semaphore in
  the end. It can take the answer of another's exchange, so `ExchangeIsMine` is
  said up to such a restart, which the history variable `caught` records.
* `HostFsServer`: an object is named by the open that made it, so "the id still
  stands for the file" can be stated. The server's tables are private to its
  thread, so a handler with one descriptor system call is one step; `do_async`, which
  shares `g_clientsocks` with `async_thread`, is three, and `sending.raced` records
  that a socket of its channel was closed under it. One step also is
  `close_hostfs`, since it only releases numbers. `last` is the last data system
  call: what it was for and what the number stood for. `Stale` lets PSP programs
  go on using ids of an earlier session. Failing opens answer an error and
  change nothing. Descriptors that live only inside one call (`scandir`,
  `opendir`) are left out.

* `HostDriver`: `Block` is one exchange of a split read or write; a thread's
  `done` is what its loop has counted. The PC's position is in the model, so an
  exchange that is executed and not answered moves it, and so does a block that
  the PC refuses half way. An id outlives its session in the file argument;
  `mistaken` records that one reached another's file.
* `HostPath`: a path is a sequence of names and ".."; `gen_path` is a fold. The
  case matching compares bases, and takes the first spelling the directory lists.
* `Debugger`: a word is visible through several address ranges, and addresses
  are compared masked or exact as at each place of the code. The resumed thread
  runs instructions of its own until it traps.
* `GdbStub`: gdb is a user who stops, looks, writes memory, steps and continues
  in any order; `told` is the thread gdb was told about.
* `Shell`: the message lies on the client's stack, and `Return` is the moment at
  which it is dead: what the box delivers of it, and of the messages behind it, is
  then anything. `overtaken` records the lines whose sender went on before they were
  taken. Scripts are a stack of the lines left in each. The startup script runs
  before the first message, when `parseenv` is not set (`armed`): an exception in it
  ends the parse thread (`lost`).
* `NetShell`: a printer waits for `g_size`, copies and sets `g_size` in three
  steps, as does the server thread with the prompt; `crossed` records that two were
  past their wait together, `overrun` that a text was longer than `g_data`.
* `AddressCalc`: a token is a number, an operator, a bracket or one of the
  prefixed names; the machine's state is what one call of `parse_line` holds,
  with a stack for its recursion.
* `MemoryCommands`: a command is one step whose reads and writes are recorded,
  so "no access leaves its region" can be stated of them.
* `ApiHook`: a hook's slot, its stub and the table entry are separate, because
  a thread may hold one after another has changed. Hooks are deleted at any time;
  `stranded` records the threads that were on their way in through one then.
* `PcTerm`: a read ends anywhere in the stream, and a connection anywhere in a
  read. `torn` records that a prompt was cut where the scanner loses it.
* `RemoteJoy`: the two rings between the programs are a stream of words, cut in
  pieces as `usbhostfs_pc` cuts it; remotejoy is started once.
* `ConfigFile`: a file is a sequence of lines. `AllSettings` is what is in it,
  `Settings` what the code's buffered reading delivers of it. `orphaned` records
  that a change began with only the temporary file left, which it truncates.
* `Session`: a psplink.ini is what it says of the startup script and of
  `resetonexit` (`Inis`); `early` records that a command came before `initialise`
  was through. The strings of a LoadExec pass the bootstrap and `parse_sceargs`, each
  with its array of `MAX_ARGS`.

External behaviour, modelled from its use: event flags with `WAITCLEAR`
(setting a bit wakes one waiter, which consumes it), semaphores, sleep and
wake-up counts, the USB bus driver (a post is taken, fails, or is refused), and
the host's lowest-free-descriptor rule, the processor's branches and traps,
sockets, system call dispatch, `sceKernelLoadExec`, loss of power.

## Runs

A suite holds components that do not share state. Its variable `part` names the
one component that a behaviour moves; the others stay in an initial state, so
the state spaces add up instead of multiplying. A component may have several
parts with different constants (`loop`, `call` and `pool` are three programs
under the debugger). A property of a suite is what
its component promises, a conjunction of the parts that its module states by
name. Beside definitions that matter stands a mutated form ("Mutant of ..."), a
plausible bug that breaks one of these parts; `PROJECT.json` lists one for each
property.

| Run | Distinct states | Instance and properties |
|---|---|---|
| `async_readers` | 17 000 | 2 clients, 2 channels, ring of 2, orderly teardown: no NULL endpoint is followed (`NoFault`), a client of a reserved channel drains only its own endpoint (`ReaderOwnsChannel`), the head of a ring is eventually read (`HeadIsRead`); `TypeOK` |
| `async_teardown` | 315 000 | teardown under blocked readers and channels reallocated to others: `RingsConsistent`, `NoLostWakeup`, and the rings implement `AsyncPipe` (`ImplementsPipe`) |
| `link_safety` | 1 680 000 | 2 clients, 2 sessions, a restart of the driver, detach anywhere, PC timeouts, failed and refused posts, clients symmetric; behaviours are followed up to a restart that overtakes an exchange: `ExchangeIsMine`; `ConnectionFollows` until the driver is first stopped |
| `link_live` | 38 000 | 1 client with every kind of exchange, 2 sessions, `Prompt`: a lasting session connects (`SessionConnects`), every exchange ends (`ExchangeEnds`) |
| `host` | 1 230 000 | see below |
| `debugging` | 533 000 | see below |
| `shell` | 1 125 000 | see below |
| `system` | 393 000 | see below |
| `liveness` | 37 000 | see below |
| `link_stale` (violation) | | `stop_func` leaves `g_connected` set |
| `path_race` (violation) | | a `mount` while the server takes a path apart |
| `config_long` (violation) | | `confset` on a file longer than the reader's buffer |

The parts of the suites:

| Suite | Part | Instance | Property and what it is made of |
|---|---|---|---|
| `host` | `files` | 3 opens, 2 sessions, 1 channel, ids 3 to 5 and one beyond `MAX_FILES` | `NoLeak`, `BulkFileIsBulk`, `DataLands` |
| | `chans` | 2 channels and their output, one file, 2 sessions | `DataLands`, `NoLeak` |
| | `dirs` | 2 slots, 3 opens, up to 2 entries | `EnumerationExact` |
| | `blocks`, `threads` | blocks of 2 and transfers of up to 5; two threads | `TransfersExact`: `TransferExact`, `ErrorMovesNothing`, `NoNeedlessShort`, `HandlesMatch` |
| | `tree` | two spellings of a name, a drive mounted elsewhere on the way | `PathsMeanWhatTheySay`: `ExactNameWins`, `StaysInDrive`, `RenameStaysInDirectory` |
| | `race` | paths and mount commands in turns (`Serial`) | and `ResolvedAsAsked` (against a recursive reference), `MountedAsAsked` |
| | `stat` | every system call may fail | `UnaskedKept`, with `ModeFirst` |
| `debugging` | `loop` | branches taken or not | `MemoryFaithful`, `ContextsOwned`; `DebuggerObeys`: `StepStops`, `NoStrayWakeup`, `StepRuns` |
| | `call`, `pool` | two address ranges; more threads than contexts | and `MemoryFaithful`, `ContextsOwned`, `GoneOnlyWhenFull` of these |
| | `stub` | every kind of branch, hardware breakpoints, dropped connections | `AsGdbLeft`: `MemoryAsGdbLeft`, `GetsItsRegisters`, `HardwareKept`, `NoStaleContinue` |
| | `line` | packets with any character of their data garbled to any other, rejected replies, resends, up to frames that run over `outputbuffer` | `PacketsOnce`: `ExecutesWhatWasSent`, `RepliesInStep` |
| `shell` | `tty` | 2 readers, buffer of 3, stray wake-ups | `StdinSafe`: `NoMissedInput`, `OnlyReadersWoken`, `NoLeakedWakeup` |
| | `lines` | two clients, one above the parse thread, three lines, startup scripts, nested scripts, exceptions | `LinesRun`: `ProcessesLines`, `ScriptsClosed`, `ErrorStops` |
| | `words` | every short line, word list and script line | `WordsTaken`: `InBounds`, `WordsTaken`, `ArgumentsPutIn` |
| | `editor` | every short sequence of keys, history of 2 | `EntersWhatIsSeen`, with `RingHoldsLast` |
| | `typed`, `printed` | connections lost at any point; two printers beside the server, texts longer than the buffer | `LinesOverNet`: `ListensWhenUp`, `OneCommandPerLine`, `PrintedOnce` |
| `system` | `address` | all strings of up to 4 tokens and some 5000 expressions | `LeftToRight`, with `DerefsValid` |
| | `memory` | two commands over three regions, every byte read or written recorded | `MemoryExact`: `InRegion`, `FindsAll`, `SavedInOrder`, `FillExact`, `CopyExact` |
| | `symbols` | three modules, three addresses, all load orders, a symbol without a size | `SymbolsLeadBack`: `NamesLeadBack`, `AddressesLeadBack` |
| | `hooks` | 2 threads, 3 functions, 2 slots, hooks deleted at any time | `HooksTransparent`: `HookLeadsHome`, `HookedAsNamed`, `RunsOwnFunction`, `WordPassed` |
| | `terminal` | two prompts, reads cut anywhere, connections lost anywhere, connects that stand at once | `TerminalFollows`: `Selectable`, `WaitsQuietly`, `PromptsSeen`, `RetriesAsAsked` |
| | `joystick` | 5 events, a ring of 7 words, 3 buttons of which 2 are one on the PSP | `JoystickFollowed`: `FollowsJoystick`, `OnlySent`, `Agrees`, `InOrder` |
| | `printf` | a ring of 3 characters | `PrintedInOrder`: `RingHoldsLast`, `InSequence` |
| | `config` | two changes, failures and power loss anywhere | `SettingsKept`: `NothingLost`, `SetTakesEffect`; `LastLineWins` |
| | `sessions` | four reboots in any order, with and without a startup script that runs a program | `SessionsResume`: `StartsInPlace`, `ExecReuses`; `OneExecPerSession` |
| `liveness` | `stdin`, `shell`, `address`, `hooks` | | `CallersAnswered`: `InputIsRead`, `ParserReturns`, `Answered`, `CallsReturn` |
| | `stub`, `packets` | | `GdbAnswered`: `TrapsAreHandled`, `EveryPacketAnswered` |
| | `printf`, `joystick` | 6 events | `OutputComesOut`: `StringComesOut`, `FullComesOut`, `Drains` |

Each conjunction also has its component's type invariant.

Bounds. A ring of 2 or 3 wraps, fills and overflows with packets of up to 3
bytes. Two clients are enough for one to steal the other's wake-up, packet or
channel; two sessions for the first to leave something behind for the second.
The descriptor table is chosen so that it fills up and so that `open()` reaches
a number beyond `MAX_FILES`; three opens are what a closed bulk file needs to
leave its number to another file while a bulk file is still open.
In `async_teardown` bytes differ only while one client alone uses the channels
(`AlikeOrAlone`): their order matters to one ring, wake-ups and teardown to two
clients. `link_live` has one client, since the state space with two is out of
reach of the liveness check; contention for the semaphore is in `link_safety`.

For the sequential algorithms (`CommandLine`, `AddressCalc`, `MemoryCommands`,
`Symbols`, `HostPath`) the inputs are all those up to a size at which every
branch of the code is taken and a second operator, quote, region, symbol or
directory follows a first. `Debugger` and `GdbStub` have programs of a few
instructions with a branch of each kind and breakpoints on and next to it.
`RemoteJoy`'s ring is no multiple of an event, as in the code. Power failures
and reboots are bounded by the number of changes and boots: two changes are what
it takes for one to meet what another left, two reboots for a saved context to
be stale.

Deadlock is not checked where the bounds make the model stop (sessions, opens,
events, changes) or where an algorithm ends, which some part of every suite does;
in the runs of `UsbAsync`, whose own steps have no such bound, it is.

Fairness. `UsbAsync` and `TtyInput` assume that a runnable client thread runs:
clients loop over `usbAsyncRead`, and a woken reader only has a bounded copy
loop ahead. `HostFsLink` assumes the same of threads that are not blocked,
strong fairness of the semaphore (the kernel queues its waiters), and that the
PC's loop reads and answers, with the one-second timeout on the magic.
`link_live` further assumes that the PSP's threads come to rest between a detach
and the next open (`Prompt`: the PC polls once a second, the PSP's threads are
of high priority) and that a post without a PC completes with an error. Both
are needed: without the first, a client left over from the old session swallows
the new magic, or a stale attach makes `usb_thread` wait for a magic that was
sent already; without the second, `write_data` ignores the refusal and waits for
ever with the semaphore taken. The safety properties assume neither.

`MCLive` asks each component's fairness in its part only. It is weak fairness of
a thread that is runnable: the parse thread and the return of its clients in
`Shell`, program threads and the stub in `GdbStub` (and that gdb, once it is told
of a stop, continues at some time), the threads in a hook, kprintf's thread, and
on the PC the loops of `usbhostfs_pc` and gdb's reading of replies. They are
loops without a condition other than the ones in the guards.

Findings. Three are runs of their own, quoted with their lines in `PROJECT.json`:
`link_stale`, `path_race` and `config_long`. Other places where the code and
what is said of it part were met while modelling. The models have the code's
behaviour. A property that holds only up to such a place says so: a history
variable, given here, records that it was reached. Where an instance keeps away from
one instead, the constant or the assumption that does is given:

* driver: `usbWaitForConnect` returns 1 and 0 where `usbasync.h:36` has 0 and
  negative; the access time gets the modification time's minute and second
  (`host_driver.c:793`).
* debugger: a branch to itself cannot be stepped (`debug.c:200`).
* gdb stub: there is one context for all threads that trap (`gdb-common.c:48`);
  a reply that is written again repeats the first transmission
  (`gdb-stub.c:84`), and one rejected often enough overruns `outputbuffer`
  (`gdb-stub.c:80`, `Room`); a packet as long as the buffer has no room for its end
  (`gdb-stub.c:183`).
* shell: the message to the parse thread lies on the stack of its sender, which
  for the serial shell has the higher priority and goes on before it is taken
  (`shell.c:4190`, `overtaken`); an exception in the startup script finds no
  `setjmp` before it (`shell.c:4152`, `lost`); synonyms shared by two commands
  reach only the first (`shell.c:4028`).
* netshell: its prompt can wait for itself (`netshell/main.c:54`); two threads
  whose wait for `g_size` ends together fill `g_data` over each other (59-60,
  `crossed`), and a text longer than `g_data` overruns it (`overrun`).
* expressions and memory: values side by side (`decodeaddr.c:498`), an unknown
  module has UID 0 (`decodeaddr.c:200`), a dump drops its last row
  (`shell.c:2221`).
* symbols: those of size 0 (`symbols.c:202`), the address given to `symbyaddr`
  (`shell.c:3584`), a second file of a module is not used (`symbols.c:144`,
  `Again`).
* hooks: deleted under a call, which then comes back without its function having
  run, or with another's (`apihook.c:266`, `stranded`); 64 bit results
  (`kmode.S:191`); `apihooks` with sleep 0 (`shell.c:1311`).
* pcterm: a read that ends right behind a first mark loses it (`pcterm.c:439`), a
  middle piece of a prompt is printed as well as kept (460-469), of two prompts in
  one read the second is printed with its marks (424-446), and what is kept of one
  when the connection ends is put before what the next brings (`torn`); a connection
  that stands at once after an attempt that failed leaves the socket watched for
  writing (546-551).
* configuration: after a failed rename or a power failure between `config.c:440` and
  the rename, only the temporary file is left, which the next `confset` or
  `confdel` truncates (395) and removes (445-449, `orphaned`); `usbhost=0` after
  `usbshell` (`config.c:50`); `wifishell` before `wifi=0` (`config.c:348`).
* start-up: two programs when exec comes before `initialise` is through
  (`main.c:436`, `early`); 12 of 14 arguments survive the reboot (`main.c:94`);
  the reset mode is lost over exec (`shell.c:1669`).

What the runs show of the code's known soft spots: data goes astray on the PC
only in two windows, between `async_thread`'s `close` and its update of the
slot, and when it closes a socket between `do_async`'s check of the slot and its
write (2181-2183, `sending.raced`), which is what `DataLands` says; and ids and
`g_bulkfd` are safe within a session but not across one, since nothing in an id
names its session and `close_hostfs` leaves `g_bulkfd` alone.

## Proofs

Each `Proofs` module has an inductive invariant, a lemma per action (or group of
actions that touch the same state) and, last, the temporal theorem. The theorems
hold for every value of the constants that satisfies the named assumptions.

| Theorem | Says | Inductive invariant |
|---|---|---|
| `TypeCorrect`, `RingsStayConsistent`, `NoWakeupIsLost` | `TypeOK`, `RingsConsistent`, `NoLostWakeup` | `Inv` |
| `OrderlyTeardownIsSafe`, `ReadersDrainTheirOwn` | `NoFault`, `ReaderOwnsChannel` | `Inv` and `Quiesced` |
| `RingsImplementPipes` | `ImplementsPipe` (refinement of `AsyncPipe`) | `Inv` |
| `StdinIsSafe` | `StdinSafe` | `TtyInv` |
| `DescriptorsSafe`, `DataReachesItsOwner` | `NoLeak`, `DataLands` | `IInv` |
| `BulkStaysBulk` | `BulkFileIsBulk` | `IInv` and `BulkInv` |
| `DirectoriesExact` | `EnumerationExact` | `DirInv` |
| `ConnectionIsFollowed` | `ConnectionFollows` | `CInv` |
| `ExchangesAreOwn` | `ExchangeIsMine` | `SInv` |
| `TransfersAreExact` | `TransfersExact` | `DInv` |
| `AttributesAreKept` | `UnaskedKept` | `StatTyped` |
| `ShellRunsLines` | `LinesRun` | `ShellInv` |
| `EditorEntersWhatIsSeen` | `EntersWhatIsSeen` | `EditorInv` |
| `LinesOverNetHold` | `LinesOverNet` | `NetInv` |
| `ContextsAreOwned` | `ContextsOwned`, `GoneOnlyWhenFull` | `CInv` |
| `MemoryIsFaithful` | `MemoryFaithful` | `MInv` |
| `NoResumeIsLeftOver`, `StepsStop` | the parts `NoStrayWakeup` and `StepStops` of `DebuggerObeys` | `UInv`, `SInv` |
| `GdbLeavesMemory`, `GdbDebugsOneThread` | `AsGdbLeft` and its parts | `StubInv`, `Turns` |
| `PacketsComeOnce` | `PacketsOnce` | `PacketInv` |
| `TableLeadsHome`, `HooksAreTransparent` | `HooksTransparent` and its parts | `HInv`, `OwnInv` |
| `PrintsInOrder` | `PrintedInOrder` | `PrintInv` |
| `SessionsDoResume` | `SessionsResume` | `SessionInv` |
| `SymbolsDoLeadBack` | `SymbolsLeadBack` | `SymInv` |
| `TerminalDoesFollow` | `TerminalFollows` | `TermInv` |
| `JoystickIsFollowed` | `JoystickFollowed` | `JoyInv` |

`RingProofs` has the facts about rings: modular arithmetic; put, take and flush
preserve the ring's type and the agreement of positions and count; and what they
do to the ring's contents, read from the read position on (`ContentsPut`,
`ContentsTake`, `ContentsEmpty`), for every size. No distance between two cells
that are in use is a multiple of the size (`ModDistance`), so a put never
overwrites an unread byte.

`UsbAsyncProofs`. The invariant adds to the properties that an endpoint is in at
most one channel (otherwise a flush for one channel would leave another's ring
and bit out of step), that a reader inside the call has a real channel number,
that a nonempty registered ring is announced (its bit is set, or a woken reader
is on its way; this is what makes the absence of lost wake-ups inductive) and,
for orderly teardown, that a reader's channel stays registered. The refinement
maps an endpoint to its unread bytes, `Contents` of its ring; every action is a
put, a take or a flush of one pipe or a stutter, by the three lemmas above.

`ConsoleProofs`. `TtyInv`, for stdin, adds that only the semaphore's holder is inside
`inputHandler`, that a thread about to sleep has left its id or has a wake-up to
consume, and that the wake-ups counted are at most those sent by others plus one
for the reader that was served.
`ShellInv` is for the parse thread, for any number of clients, above and below it,
and of messages in the box. A script file is open for every script that
has begun and not ended, and after a failing line the thread is on its way out
of all of them (`ScriptInv`). `BoxInOrder` says that up to the first line that was
overtaken the lines entered are the lines taken and those of the messages in the box,
in that order, each with its sender still there and the message as it was sent.
`EditorInv`: what is on the screen are the characters before `g_cli_pos`, every
line of the history has an end (`EndsAt`), and the ring holds the last lines.
`NetInv`: behind a line end nothing is collected, so that reading it again gives
no command (`LineBegun`); no two threads hold one text (`Owned`); and until two
threads' waits end together, one at most is past its wait, while `g_data` holds
nothing to be sent (`Alone`), and a text is in one place: with the thread that
prints it, in `g_data` in its own size until that is sent, or among what was sent
(`Texts`).

`HostFsServerProofs`. The invariant `IInv` adds that a slot of `g_clientsocks`
names a socket of its own channel unless `async_thread` has closed it and not
reached the slot, in which case the channel has no socket at all (without this a
second close could free a file's descriptor), that descriptors 0 to 2 stay open
(so `close_hostfs`, which starts above `STDERR_FILENO`, misses no file), and that
handles are distinct opens (so closing one cannot free another's file). `SendInv`
adds for channel output that, as long as no socket of its channel was closed under
`do_async`, the slot it checked is not empty when it is loaded, and the descriptor
loaded is still a socket of the channel.
`g_bulkfd` survives `close_hostfs`, so `BulkInv` adds that while a program of the
session has a bulk file, `g_bulkfd` is a file that is open, whose number no other
open can get. `DirInv` relates a handle to its slot: what was seen is a prefix of
the directory, and the slot is at the next entry with as many left as the handle
has not seen.

`HostFsLinkProofs` has two arguments over a common layer `Base` (types, which
packets a thread can be at, the magic is `usb_thread`'s).
`CInv` is for the connection: a handshake that got past the magic did so in this
session, or `usb_thread` has news waiting for it (`Greeted`); from that
`g_connected`, the `CONNECT` event and the request of endpoint 3 follow.
`XInv` is for the exchanges, and holds until a restart overtakes one (`SInv`):
one thread at a time is between the semaphore's grant and its signal, even while
`stop_func` lets the last one run out (`Exclusive`);
a pending request carries the packet of the thread that posted it (`BusOwned`);
when the PC waits for data, it waits for that thread's (`HostAwaits`); and the PC
is with a thread or ahead of it, never behind (`InStep`), so that an answer that
was given up can be met only at the start of a later exchange, whose own first
packet the PC has not read then.

`HostDriverProofs`. A read or write is `blocks` full blocks and a residual; the
invariant `DInv` says of a call under way that what it has counted is what it
has moved, a run of the file's bytes in order at the start of the buffer
(`Moved`), that the count, the blocks left and the residual add up to the length
until a block is short (`Under`), and that the file stands where the run ends
while the handle is of this session (`Behind`); of a call that is over, that the
file stands behind what a refused block has moved as well (`Beyond`). About ids
(`Handles`): handles are distinct opens, a number stands for one open, a handle
of this session stands for its file, of an open of an earlier session the PC has
nothing left (`Stands`), and what the PC has open is some thread's or an orphan
of an exchange that failed. All this until an id of an ended session reaches a
file of the present one (`mistaken`), from where on nothing is claimed. For
attributes types are enough: `UnaskedKept` is about single system calls, each of
which is shown to keep the fields that its call does not name.

`DebuggerProofs` has four invariants, each on the one before. `CInv`: a context
in use belongs to one thread that is inside a trap. `MInv`: memory is the
program with a break at each active breakpoint, and what a breakpoint keeps is
the program's instruction, so no order of sets, steps and traps can give a word a
break as its instruction. `UInv`: what a context says of its thread is so, and a
thread has a wake-up only while it sleeps in the trap the resume was given for. `SInv`: while a
thread steps, a step breakpoint is at every place its one instruction can go to
(`Covers`). `MInv`, `SInv` and the wake-ups of `UInv` are about an orderly user
(`Orderly`), who waits for a step to end before the next, sets no breakpoint on
a word a step has taken, and switches to threads that sleep in their trap only;
`CInv` needs none of this.

For the gdb stub, `StubInv` says what the two step slots keep: memory is the
program, gdb's breaks and the breaks of the slots, and taking the slots out, 0
first, gives back what gdb left (`GdbMade`, `StepSlots`), also when both are on
one word, where slot 1 has kept slot 0's break and is not active. The debug
registers are those the stub has noted (`HardwareNoted`). This holds for any
number of threads. What the registers and the continue are about does not: the
stub has one context, which a second thread that traps overwrites. `Turns` says
in turn where the thread and the server are, under the assumption that one
thread traps (`OneTraps`).

For the packets, `PacketInv` says that the stub is at most one packet behind gdb
(`Counts`); that on the way to gdb there is no acknowledgement of the packet it
waits for before the stub has executed it, and one afterwards (`Outward`); and
that on the way to the stub, while a reply is out, gdb's acknowledgement of it
comes first and only frames of the next packet after it, while otherwise the stub
has read a part of a frame of the packet that is due, and only such frames follow
(`Inward`, `Hunts`). A frame with one character garbled never has the right
checksum, whatever the modulus (`GarbledSum`, by a descent along the sum), so
what the stub executes is what gdb sent. Packets are shorter than the buffer
(`Fit`, the finding on `gdb-stub.c:183`), and the line garbles at most one
character of each frame, in its data: two could make up for each other. A reply
rejected until its frames overrun `outputbuffer` stops the stub (`lost`), and
from there on nothing is claimed.

`ServiceProofs`. `HInv`: the system call table and the slots agree but for the
one the shell is about to enter, a hook's function is the one its library and
NID stand for, and a call past its function holds that function's result.
`OwnInv` adds that the slot of a thread on its way in still has the function it
called, unless the thread is `stranded`.

`PrintInv`, for kprintf, says that the ring's cells from the read to the write
position are the last characters put (`LastKept`), and that what the thread
looked at is still there, cut as it was, while the last character printed is the
one before those to come (`InPrint`).
`SessionInv` says that during a reboot the saved context is what the session
that was reset left, and spent otherwise (`SavedIsLeft`), that the boot arguments
and the program of a session are those exec was last given (`ArgsAreAsked`,
`ExecIsAsked`), and that unless exec came early nothing was started before the
session has a program (`OnceAtMost`). `ArgsFit` assumes what the finding on
`main.c:94` says: at most 12 arguments with a `MAX_ARGS` of 16.
`SymInv` says that no two modules are at one place and that those with symbols at
addresses of their own are where these lie. The theorem is then about lookups:
ranges of symbols lie apart, so around an address there is one at most. It is
about files in order (`FilesInOrder`), whose symbols have names of their own and
lie apart, and whose symbols of size 0 are not below the next one, for which the
lookup takes them to reach over another (`symbols.c:202`).
`TermInv` says that the terminal has one descriptor, which is the lowest free one,
so that what is closed and still watched is what is opened next (`TermPlace`); that
attempts and failures are counted alike (`TermTries`); and that, until one is torn,
the marks read are two for each prompt installed and one for a prompt of which
something is kept (`Shown`). It is for streams whose prompts lie between marks
(`StreamInOrder`), cut and ended anywhere.
`JoyInv` is about the words on their way, those in the ring and then those in the
socket. They are of events sent after the one applied last, in the order sent, and
each first word of one begins a new event (`JoyOrder`); those in the socket come in
whole events, and so do those in the ring until it overflows, after which its size
leaves it one first word too many, once (`JoyShape`): reading takes either a whole
event, or two first words that apply nothing, or a word that makes it flush. As
long as nothing was dropped, the words lead from what the PSP has to what remotejoy
means: the last event about a button or an axis says what it is, and where there is
none it is so already (`JoyLeads`). The theorem is for every map. From the ninth button
on the default map has two buttons of the joystick mean one of the PSP
(`pc/remotejoy.c:390`, `i % 8`), and so has the map file that is shipped: of those,
releasing the first releases what the second still holds, so `FollowsJoystick` says
of such a button where it is when all that mean it are held and when none is.

Assumptions are the named `ASSUME`s of the modules: positive sizes, nonempty
payloads, reserved channels used by one client each, tables and sizes as the
code declares them, names that stand for what the export table has at their NID,
conditional instructions that are branches. A module that is instantiated states
them as a definition, which an `ASSUME` of the module that instantiates it
contains, so TLC evaluates it for every instance. What goes beyond them is a
hypothesis of the theorem: `Orderly`, `OneTraps`, `Fit`, `ArgsFit`, `FilesInOrder`
and `StreamInOrder`. None of them is ensured by the code, which can leave each as
said above; the theorems are about users, programs and files that stay within them,
and the runs' constants satisfy them.

A theorem about a component that is instantiated is about the instance's
specification (`Parser!Spec`) over variables that are declared, so that the
property a run checks and the one that is proved are one definition.

Only model-checked:

* Liveness, out of the prover's reach: `HeadIsRead`, `SessionConnects`,
  `ExchangeEnds`, and the run `liveness`.
* `StepRuns` of `Debugger`: it does not hold of every program, since a branch to
  itself traps at once when it is stepped.
* `PathRace` (a recursive operator) and `AddressCalc` (bitwise operators), which
  the prover cannot take.
* What compares an algorithm over sequences with a reference (`WordsTaken` of
  `CommandLine`, `PathsMeanWhatTheySay` of `HostPath`, `MemoryExact`,
  `SettingsKept`): this is induction over data.

## Not modelled

* Formatting, logging and the contents of packets and files beyond what a
  property needs; assembly other than the hook stubs and the exception entry.
* The disassembler: tables and formatting, no state.
* The shell's commands over kernel objects and modules (lists, information,
  thread and module control): each is one system call whose effect is the
  kernel's.
* The USB modes (`init_usbmass`, `init_usbhost` and their stops): all that could
  be said hangs on what a `sceUsbStart` or `sceUsbActivate` that fails, or is
  called twice, leaves behind, which the repository does not tell.
* The loading of PSPLINK's own modules at start-up, the firmware patches, SIO
  registers, the profiler.
* debugmenu, echo, webget, reboothook: menus and I/O. The vendored Windows
  drivers and the build scripts.
* In modelled parts: the room for symbol files; `fdprintf` on a full medium;
  the timing of the PC's poll; contexts kept by exceptions in interrupts
  (`psplink_ex.c:63`).
* Hazards without a property, because nothing could be said that the code
  promises: `write_data` waits without a timeout (`usbhostfs/main.c:407`, a TODO
  there; `link_live` assumes the post completes); `start_hostfs` closes the
  device before it clears `g_hDev` (`usbhostfs_pc/main.c:2316`), and
  `handle_chdir` changes a drive without `g_drivemtx` (1816): what follows is
  up to libusb and to the compiler.

## Plan

Modelling has reached the parts above. Proofs have reached every safety property
but those of the list "Only model-checked", each of which says there what keeps it
from being proved.
