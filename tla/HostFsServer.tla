---------------------------- MODULE HostFsServer ----------------------------
(***************************************************************************)
(* The descriptors of usbhostfs_pc (usbhostfs_pc/main.c).  The server       *)
(* thread, start_hostfs, indexes open_files directly by the descriptor the  *)
(* host's open() returned, and sends that number to the PSP as the file id. *)
(* The same descriptor table also holds the sockets that async_thread       *)
(* accepts and closes, and the USB device, so a number is reused by another *)
(* kind of object as soon as it is free.                                    *)
(*                                                                          *)
(* open_files, open_dirs and g_bulkfd belong to the server thread and every *)
(* handler is one step; g_clientsocks is written by async_thread and read   *)
(* by do_async without a lock, so async_thread's close() and its update of  *)
(* the slot are two steps, and do_async's check of the slot, its load of    *)
(* the descriptor and the write are three.                                  *)
(***************************************************************************)
EXTENDS Integers, Sequences, FiniteSets

CONSTANTS MaxFiles,     \* MAX_FILES
          MaxDirs,      \* MAX_DIRS
          FdLimit,      \* descriptors of the process: 0 .. FdLimit - 1
          Chan,         \* async channels with a listening socket
          MaxOpen,      \* bound: opens of a file or directory, over all sessions
          MaxEntries,   \* bound: entries of a directory
          MaxSession,   \* bound: connections of a PSP
          Stale         \* TRUE: PSP programs go on using ids of earlier sessions

StdErr == 2             \* STDERR_FILENO
None   == -1

Fd     == 0 .. (FdLimit - 1)
FileId == 0 .. (MaxFiles - 1)
Did    == 0 .. (MaxDirs - 1)

ASSUME ServerAssumption ==
  /\ FdLimit \in Nat /\ MaxFiles \in Nat /\ StdErr < MaxFiles /\ MaxFiles <= FdLimit
  /\ MaxDirs \in Nat /\ MaxOpen \in Nat /\ MaxEntries \in Nat /\ MaxSession \in Nat
  /\ Stale \in BOOLEAN

\* What a descriptor stands for.  A file or directory is named by the number of
\* the open that made it, a socket by its channel.
Free    == [kind |-> "free", of |-> 0]
Std     == [kind |-> "std", of |-> 0]
Device  == [kind |-> "device", of |-> 0]
File(n) == [kind |-> "file", of |-> n]
Sock(c) == [kind |-> "sock", of |-> c]

VARIABLES fds,        \* the process's descriptor table
          opened,     \* open_files[].opened
          g_bulkfd,
          dirs,       \* open_dirs
          g_hDev,     \* descriptor of the connected device, or None
          g_clientsocks,
          async,      \* what async_thread is in the middle of: [at, chan]
          sending,    \* what the server thread is at in do_async
          session,    \* number of the current or last session
          nopen,      \* opens so far
          files,      \* file handles PSP programs hold
          dhandles,   \* directory handles PSP programs hold
          last        \* the last use of a descriptor for data: what for, and what it was

server == <<opened, g_bulkfd, dirs, g_hDev, session>>
psp    == <<nopen, files, dhandles>>
vars   == <<fds, g_clientsocks, async, sending, last, server, psp>>

NoDir   == [opened |-> FALSE, count |-> 0, pos |-> 0, dir |-> 0]
AtSelect == [at |-> "select", chan |-> None]
\* The channel do_async writes to, the descriptor it has loaded, and whether
\* async_thread closed a socket of that channel under way (raced).
NotSending == [at |-> "idle", chan |-> None, fd |-> None, raced |-> FALSE]
NoUse   == [by |-> "none", want |-> Free, got |-> Free, racing |-> FALSE]

\* main: descriptors 0 to 2 are open, init_hostfs has run, nobody is connected.
Init ==
  /\ fds = [d \in Fd |-> IF d <= StdErr THEN Std ELSE Free]
  /\ opened = [f \in FileId |-> FALSE]
  /\ g_bulkfd = None
  /\ dirs = [d \in Did |-> NoDir]
  /\ g_hDev = None
  /\ g_clientsocks = [c \in Chan |-> None]
  /\ async = AtSelect
  /\ sending = NotSending
  /\ session = 0
  /\ nopen = 0
  /\ files = {} /\ dhandles = {}
  /\ last = NoUse

\* A new descriptor is the lowest free one, if there is any.
LowestFree(d) == fds[d] = Free /\ \A e \in 0 .. (d - 1) : fds[e] # Free

Serving == g_hDev # None

\* A program uses an id only while the session that gave it lasts, unless Stale.
Usable(h) == h.session = session \/ Stale

-----------------------------------------------------------------------------
(***************************************************************************)
(* The server thread: sessions.                                             *)
(***************************************************************************)

\* open_device succeeded; opening it takes a descriptor.
wait_for_device ==
  /\ ~Serving /\ session < MaxSession
  /\ \E d \in Fd : /\ LowestFree(d)
                   /\ fds' = [fds EXCEPT ![d] = Device]
                   /\ g_hDev' = d
  /\ session' = session + 1
  /\ UNCHANGED <<opened, g_bulkfd, dirs, g_clientsocks, async, last, psp>>

\* Mutant of Reaped: the loop starts one too late.
ReapedLate == {f \in FileId : f > StdErr + 1 /\ opened[f]}

\* The descriptors close_hostfs closes.
Reaped == {f \in FileId : f > StdErr /\ opened[f]}

\* The read loop ends: close_device, close_hostfs and, on the next round of
\* start_hostfs, init_hostfs.  g_bulkfd is left alone.
close_hostfs ==
  /\ Serving
  /\ fds' = [d \in Fd |-> IF d = g_hDev \/ d \in Reaped THEN Free ELSE fds[d]]
  /\ g_hDev' = None
  /\ opened' = [f \in FileId |-> FALSE]
  /\ dirs' = [d \in Did |-> NoDir]
  /\ UNCHANGED <<g_bulkfd, session, g_clientsocks, async, last, psp>>

-----------------------------------------------------------------------------
(***************************************************************************)
(* The server thread: files.  A handler that fails (bad path, no access     *)
(* mode, a directory, an error of open()) answers with an error and changes *)
(* nothing; those answers are not steps.  An answer can be lost when the    *)
(* session ends first: the PSP then never learns the id.                    *)
(***************************************************************************)

\* open_file keeps only descriptors open_files has room for; it closes others
\* again and answers EMFILE.
InTable(d) == d < MaxFiles

open_file(d, bulk) ==
  IF InTable(d)
  THEN /\ fds' = [fds EXCEPT ![d] = File(nopen')]
       /\ opened' = [opened EXCEPT ![d] = TRUE]
       /\ g_bulkfd' = IF bulk THEN d ELSE g_bulkfd
  ELSE UNCHANGED <<fds, opened, g_bulkfd>>

\* The answer gives the program a handle: the descriptor's number.
handle_open ==
  /\ Serving /\ nopen < MaxOpen
  /\ nopen' = nopen + 1
  /\ \E d \in Fd, bulk, answered \in BOOLEAN :
       /\ LowestFree(d)
       /\ open_file(d, bulk)
       /\ files' = files \cup
            (IF InTable(d) /\ answered
             THEN {[id |-> d, file |-> nopen', bulk |-> bulk, session |-> session]}
             ELSE {})
  /\ UNCHANGED <<dirs, g_hDev, session, g_clientsocks, async, last, dhandles>>

\* Mutant of AfterClose: a closed bulk file stays the bulk file.
AfterCloseKept(f) == g_bulkfd

\* The bulk descriptor once file id f is closed.
AfterClose(f) == IF f = g_bulkfd THEN None ELSE g_bulkfd

\* handle_close, as io_close calls it.  Whatever the answer, the handle is gone.
\* With no PC connected, io_close fails without sending anything.
handle_close(h) ==
  /\ Usable(h)
  /\ files' = files \ {h}
  /\ IF Serving /\ h.id > StdErr /\ opened[h.id]
     THEN /\ fds' = [fds EXCEPT ![h.id] = Free]
          /\ opened' = [opened EXCEPT ![h.id] = FALSE]
          /\ g_bulkfd' = AfterClose(h.id)
     ELSE UNCHANGED <<fds, opened, g_bulkfd>>
  /\ UNCHANGED <<dirs, g_hDev, session, g_clientsocks, async, last, nopen, dhandles>>

\* A data system call on descriptor d, made for object o.
Use(by, o, d, racing) ==
  last' = [by |-> by, want |-> o, got |-> fds[d], racing |-> racing]

\* The common part of the handlers that take a file id: out of range or not
\* opened is an error answer.
UseFile(by, h, lowest) ==
  /\ Serving /\ Usable(h)
  /\ h.id >= lowest /\ opened[h.id]
  /\ Use(by, File(h.file), h.id, FALSE)
  /\ UNCHANGED <<fds, g_clientsocks, async, server, psp>>

handle_write(h) == UseFile("write", h, 0)
handle_read(h)  == UseFile("read", h, 0)
handle_lseek(h) == UseFile("lseek", h, StdErr + 1)

\* A bulk block, sent by a program that has a bulk file open.  It goes to the
\* bulk descriptor if that is an open file, and is dropped otherwise.
do_bulk ==
  /\ Serving
  /\ g_bulkfd # None /\ opened[g_bulkfd]
  /\ \E h \in files : h.bulk /\ Usable(h) /\ Use("bulk", File(h.file), g_bulkfd, FALSE)
  /\ UNCHANGED <<fds, g_clientsocks, async, server, psp>>

-----------------------------------------------------------------------------
(***************************************************************************)
(* The server thread: directories.                                          *)
(***************************************************************************)

\* dir_open takes the first free slot and reads all the n entries at once; an
\* empty scan is an error answer.
dir_open(d, n) ==
  /\ ~dirs[d].opened /\ \A e \in 0 .. (d - 1) : dirs[e].opened
  /\ dirs' = [dirs EXCEPT ![d] = [opened |-> TRUE, count |-> n, pos |-> 0,
                                  dir |-> nopen']]

handle_dopen ==
  /\ Serving /\ nopen < MaxOpen
  /\ nopen' = nopen + 1
  /\ \E d \in Did, n \in 1 .. MaxEntries, answered \in BOOLEAN :
       /\ dir_open(d, n)
       /\ dhandles' = dhandles \cup
            (IF answered
             THEN {[id |-> d, dir |-> nopen', total |-> n, session |-> session,
                    seen |-> <<>>, left |-> n + 1]}
             ELSE {})
  /\ UNCHANGED <<fds, opened, g_bulkfd, g_hDev, session, g_clientsocks, async, last, files>>

dir_close(d) ==
  dirs' = IF dirs[d].opened THEN [dirs EXCEPT ![d] = NoDir] ELSE dirs

handle_dclose(h) ==
  /\ Usable(h)
  /\ dhandles' = dhandles \ {h}
  /\ IF Serving THEN dir_close(h.id) ELSE UNCHANGED dirs
  /\ UNCHANGED <<fds, opened, g_bulkfd, g_hDev, session, g_clientsocks, async, last,
                 nopen, files>>

\* Mutant of MoreEntries: one entry too few.
OneLess(d) == d.pos + 1 < d.count

MoreEntries(d) == d.pos < d.count

\* The answer carries the entry at pos, if there is one, and the number of
\* entries left before this call.  A program whose answer is lost is stuck in
\* the exchange and its handle is of no further use.
handle_dread(h) ==
  /\ Serving /\ Usable(h)
  /\ dirs[h.id].opened
  /\ \E answered \in BOOLEAN :
     LET d   == dirs[h.id]
         new == IF MoreEntries(d)
                THEN [h EXCEPT !.seen = Append(@, <<d.dir, d.pos + 1>>),
                               !.left = d.count - (d.pos + 1) + 1]
                ELSE [h EXCEPT !.left = 0]
     IN  /\ dirs' = IF MoreEntries(d) THEN [dirs EXCEPT ![h.id].pos = @ + 1] ELSE dirs
         /\ dhandles' = (dhandles \ {h}) \cup (IF answered THEN {new} ELSE {})
  /\ UNCHANGED <<fds, opened, g_bulkfd, g_hDev, session, g_clientsocks, async, last,
                 nopen, files>>

-----------------------------------------------------------------------------
(***************************************************************************)
(* The asynchronous channels' sockets.                                      *)
(***************************************************************************)

\* async_thread has closed the socket that is still in g_clientsocks[c].
Closing(c) == async.at # "select" /\ async.chan = c

\* Output of the PSP for channel c: do_async finds a client in its slot ...
do_async(c) ==
  /\ Serving /\ sending = NotSending /\ g_clientsocks[c] # None
  /\ sending' = [at |-> "load", chan |-> c, fd |-> None, raced |-> Closing(c)]
  /\ UNCHANGED <<fds, g_clientsocks, async, last, server, psp>>

\* ... reads the slot again for the descriptor ...
do_async_load ==
  /\ sending.at = "load"
  /\ sending' = [sending EXCEPT !.at = "write", !.fd = g_clientsocks[sending.chan]]
  /\ UNCHANGED <<fds, g_clientsocks, async, last, server, psp>>

\* ... and writes to what that number stands for by now.
do_async_write ==
  /\ sending.at = "write"
  /\ IF sending.fd # None
     THEN Use("async", Sock(sending.chan), sending.fd, sending.raced)
     ELSE UNCHANGED last
  /\ sending' = NotSending
  /\ UNCHANGED <<fds, g_clientsocks, async, server, psp>>

\* async_thread closes a socket of channel c: do_async may be at it.
Closes(c) ==
  sending' = IF sending.at # "idle" /\ sending.chan = c
             THEN [sending EXCEPT !.raced = TRUE] ELSE sending

\* close() of the slot's descriptor, if the slot has one.
CloseSlot(c) ==
  IF g_clientsocks[c] # None THEN [fds EXCEPT ![g_clientsocks[c]] = Free] ELSE fds

\* Somebody connects to channel c's port: async_thread first closes the old
\* client's socket, without touching the slot.
async_connect(c) ==
  /\ async = AtSelect
  /\ fds' = CloseSlot(c)
  /\ async' = [at |-> "accept", chan |-> c]
  /\ Closes(c)
  /\ UNCHANGED <<g_clientsocks, last, server, psp>>

\* accept(), whose result goes into the slot; it fails when the table is full.
async_accept ==
  /\ async.at = "accept"
  /\ \/ \E d \in Fd :
          /\ LowestFree(d)
          /\ fds' = [fds EXCEPT ![d] = Sock(async.chan)]
          /\ g_clientsocks' = [g_clientsocks EXCEPT ![async.chan] = d]
     \/ /\ \A d \in Fd : fds[d] # Free
        /\ g_clientsocks' = [g_clientsocks EXCEPT ![async.chan] = None]
        /\ UNCHANGED fds
  /\ async' = AtSelect
  /\ UNCHANGED <<sending, last, server, psp>>

\* The client of channel c hung up: its socket is closed ...
async_hangup(c) ==
  /\ async = AtSelect /\ g_clientsocks[c] # None
  /\ fds' = CloseSlot(c)
  /\ async' = [at |-> "hangup", chan |-> c]
  /\ Closes(c)
  /\ UNCHANGED <<g_clientsocks, last, server, psp>>

\* Mutant of Vacated: the slot keeps the number of the closed socket.
NotVacated(c) == g_clientsocks

\* The slots once channel c's client is gone.
Vacated(c) == [g_clientsocks EXCEPT ![c] = None]

\* ... and only then is the slot cleared.
async_forget ==
  /\ async.at = "hangup"
  /\ g_clientsocks' = Vacated(async.chan)
  /\ async' = AtSelect
  /\ UNCHANGED <<fds, sending, last, server, psp>>

\* The server thread does one thing at a time.
Handler ==
  \/ wait_for_device \/ close_hostfs
  \/ handle_open \/ handle_dopen \/ do_bulk
  \/ \E h \in files : \/ handle_close(h) \/ handle_write(h)
                      \/ handle_read(h) \/ handle_lseek(h)
  \/ \E h \in dhandles : handle_dclose(h) \/ handle_dread(h)

Next ==
  \/ sending = NotSending /\ Handler /\ UNCHANGED sending
  \/ \E c \in Chan : do_async(c) \/ async_connect(c) \/ async_hangup(c)
  \/ do_async_load \/ do_async_write
  \/ async_accept \/ async_forget

Spec == Init /\ [][Next]_vars

-----------------------------------------------------------------------------
Object == {Free, Std, Device} \cup {File(n) : n \in 1 .. MaxOpen}
          \cup {Sock(c) : c \in Chan}

TypeOK ==
  /\ fds \in [Fd -> Object]
  /\ opened \in [FileId -> BOOLEAN]
  /\ g_bulkfd \in FileId \cup {None}
  /\ dirs \in [Did -> [opened : BOOLEAN, count : 0 .. MaxEntries,
                       pos : 0 .. MaxEntries, dir : 0 .. MaxOpen]]
  /\ g_hDev \in Fd \cup {None}
  /\ g_clientsocks \in [Chan -> Fd \cup {None}]
  /\ async \in [at : {"select", "accept", "hangup"}, chan : Chan \cup {None}]
  /\ sending \in [at : {"idle", "load", "write"}, chan : Chan \cup {None},
                  fd : Fd \cup {None}, raced : BOOLEAN]
  /\ session \in 0 .. MaxSession /\ nopen \in 0 .. MaxOpen
  /\ \A h \in files : h.id \in FileId /\ h.file \in 1 .. MaxOpen
  /\ \A h \in dhandles : h.id \in Did /\ h.left \in 0 .. (MaxEntries + 1)

\* Every descriptor of the process is accounted for by one owner: a file by its
\* open_files slot, a socket by its g_clientsocks slot, the device by g_hDev.
\* Nothing leaks, over any number of sessions, lost answers and reconnections
\* (open_file, handle_close, close_hostfs, async_thread).
NoLeak ==
  \A d \in Fd :
    /\ fds[d].kind = "file" <=> (d \in FileId /\ opened[d])
    /\ fds[d].kind = "device" <=> g_hDev = d
    /\ fds[d].kind = "sock" =>
         fds[d].of \in Chan /\ g_clientsocks[fds[d].of] = d

\* The id a program got from io_open in this session stays the descriptor of
\* the file it opened until it closes it: no other file, socket or device takes
\* over the number meanwhile, although async_thread opens and closes
\* descriptors of the same table.
HandlesValid ==
  Serving /\ ~Stale => \A h \in files :
    h.session = session => opened[h.id] /\ fds[h.id] = File(h.file)

\* Data written, read or positioned for a file handle reaches that file, and
\* output of the PSP for a channel reaches a client of that channel, with files
\* and clients of other channels coming and going over the same numbers, except
\* when async_thread closes a socket of this very channel and do_async's check,
\* load and write fall around that: then it goes to whatever the number stands
\* for by now.
DataLands ==
  /\ last.by \in {"write", "read", "lseek"} /\ ~Stale => last.got = last.want
  /\ last.by = "async" => last.got = last.want \/ last.racing

\* Bulk data reaches a file, and one that some program has opened for bulk in
\* this session: closing a bulk file never leaves its number behind for the
\* next file that gets it (handle_close, do_bulk).
BulkFileIsBulk ==
  (Serving /\ ~Stale /\ \E h \in files : h.bulk /\ h.session = session)
    => \A h \in files :
         h.session = session /\ h.id = g_bulkfd => h.bulk

\* A directory handle of this session yields the entries of its directory once
\* each and in order; the count each answer carries is what is left, and it is
\* 0 only after the last entry (dir_open, handle_dread).
EnumerationExact ==
  ~Stale => \A h \in dhandles :
    /\ Len(h.seen) <= h.total
    /\ \A i \in 1 .. Len(h.seen) : h.seen[i] = <<h.dir, i>>
    /\ h.left = 0 => Len(h.seen) = h.total
    /\ h.left > 0 => h.left = h.total - Len(h.seen) + 1
=============================================================================
