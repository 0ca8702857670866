---------------------------- MODULE FileService ----------------------------
(***************************************************************************)
(* The file service between a PSP program and the PC, each part over        *)
(* variables of its own: the server's descriptors (HostFsServer), the       *)
(* driver's transfers (HostDriver) and attributes (HostStat).               *)
(***************************************************************************)
EXTENDS HostFsServer

CONSTANTS Thread, Fid, Size, MaxBlock, Lens, MaxHandles, MaxFaults,   \* HostDriver
          Hours, Minute, Perm                                         \* HostStat

VARIABLES connected, number, table, thr, opens, faults, orphans, mistaken,   \* HostDriver
          file, stat, call                                                   \* HostStat

driverVars == <<connected, number, table, thr, opens, faults, orphans, mistaken>>
statVars   == <<file, stat, call>>

Driver == INSTANCE HostDriver WITH MaxOpen <- MaxHandles, session <- number, pc <- table
Stat   == INSTANCE HostStat

ASSUME FileServiceAssumption ==
  /\ Driver!DriverAssumption
  /\ Stat!StatAssumption

-----------------------------------------------------------------------------
(***************************************************************************)
(* Each property is the conjunction of what its component promises; NoLeak, *)
(* BulkFileIsBulk, DataLands and EnumerationExact are HostFsServer's.       *)
(***************************************************************************)

\* usb_read_data, usb_write_data: a call that returns n has moved exactly the
\* first n bytes of the buffer, in order and from where the file stood, over
\* short blocks, lost sessions and other threads' calls, and left the file
\* behind them, but for what the PC moved of a block before it refused it; a
\* negative result means nothing else was moved unless an exchange failed; a
\* call returns less than asked only after a short or refused block.  A handle
\* of this session stands for the file its program opened, and every file open
\* on the PC is some program's or was orphaned by a failed exchange.  All this
\* until a program mistakes an id of an ended session for one of this.
TransfersExact == ~mistaken => Driver!TypeOK /\ Driver!TransfersExact

\* psp_settime, psp_chstat: what a program did not ask to change stays, also
\* when a call fails half way, and the permissions are set before the times.
UnaskedKept == /\ [](Stat!TypeOK)
               /\ [][Stat!UnaskedKept /\ Stat!ModeFirst]_statVars
=============================================================================
