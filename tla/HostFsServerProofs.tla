------------------------- MODULE HostFsServerProofs -------------------------
(***************************************************************************)
(* The descriptors of usbhostfs_pc are safe for every table size, number of *)
(* channels, sessions and opens: nothing leaks, a handle stays its file's,  *)
(* data lands where it should, bulk transfers use a bulk file, and a        *)
(* directory is enumerated entry by entry.                                  *)
(***************************************************************************)
EXTENDS HostFsServer, TLAPS

Thing == [kind : {"free", "std", "device", "file", "sock"}, of : Chan \cup Nat]

\* The types the argument needs.
Typed ==
  /\ fds \in [Fd -> Thing]
  /\ opened \in [FileId -> BOOLEAN]
  /\ g_hDev \in Fd \cup {None}
  /\ g_clientsocks \in [Chan -> Fd \cup {None}]
  /\ async \in [at : {"select", "accept", "hangup"}, chan : Chan \cup {None}]
  /\ session \in Nat /\ nopen \in Nat

\* async_thread is in the middle of something only for a real channel.
AsyncPlaced == async # AtSelect => async.at # "select" /\ async.chan \in Chan

\* Standard input, output and error are never closed.
StdOpen == \A d \in Fd : d <= StdErr => fds[d] = Std

\* A slot of g_clientsocks names a socket of its channel, unless async_thread
\* has closed it and not got to the slot yet; then the channel has no socket.
SlotsOwned ==
  \A c \in Chan :
    IF Closing(c) THEN \A d \in Fd : fds[d] # Sock(c)
    ELSE g_clientsocks[c] # None => fds[g_clientsocks[c]] = Sock(c)

\* Handles are distinct opens of the past.
HandlesFresh ==
  /\ \A h \in files : /\ h.id \in FileId /\ h.file \in Nat /\ h.session \in Nat
                      /\ h.file <= nopen /\ h.session <= session
  /\ \A g, h \in files : g.file = h.file => g = h

IInv == /\ Typed /\ AsyncPlaced /\ StdOpen /\ SlotsOwned /\ HandlesFresh
        /\ NoLeak /\ HandlesValid

-----------------------------------------------------------------------------
\* The kinds of object differ, and a socket is its channel's.
LEMMA Kinds ==
  /\ Free \in Thing /\ Std \in Thing /\ Device \in Thing
  /\ \A n \in Nat : File(n) \in Thing /\ File(n).kind = "file"
  /\ \A c \in Chan : Sock(c) \in Thing /\ Sock(c).kind = "sock" /\ Sock(c).of = c
  /\ Free.kind = "free" /\ Std.kind = "std" /\ Device.kind = "device"
  /\ \A m, n \in Nat : File(m) = File(n) => m = n
  /\ \A c, e \in Chan : Sock(c) = Sock(e) => c = e
  <1>1. Free \in Thing /\ Std \in Thing /\ Device \in Thing
    BY DEF Thing, Free, Std, Device
  <1>2. \A n \in Nat : File(n) \in Thing /\ File(n).kind = "file"
    BY DEF Thing, File
  <1>3. \A c \in Chan : Sock(c) \in Thing /\ Sock(c).kind = "sock" /\ Sock(c).of = c
    BY DEF Thing, Sock
  <1>4. Free.kind = "free" /\ Std.kind = "std" /\ Device.kind = "device"
    BY DEF Free, Std, Device
  <1>5. \A n \in Nat : File(n).of = n
    BY DEF File
  <1>6. \A m, n \in Nat : File(m) = File(n) => m = n
    BY <1>5
  <1>7. \A c, e \in Chan : Sock(c) = Sock(e) => c = e
    BY <1>3
  <1> QED BY <1>1, <1>2, <1>3, <1>4, <1>6, <1>7

\* Descriptors are numbers, and every file id is one.
LEMMA Numbers == /\ Fd \subseteq Nat /\ FileId \subseteq Fd
                 /\ None \notin Fd /\ None \notin Nat
                 /\ \A d \in Fd : d < MaxFiles => d \in FileId
  BY ServerAssumption DEF Fd, FileId, None

\* The invariant holds when usbhostfs_pc has started.
LEMMA InitInv == Init => IInv
  <1> SUFFICES ASSUME Init PROVE IInv
    OBVIOUS
  <1> USE Kinds, Numbers
  <1>1. Typed
    BY DEF Init, Typed, AtSelect
  <1>2. AsyncPlaced /\ StdOpen /\ HandlesFresh /\ HandlesValid
    BY DEF Init, AsyncPlaced, StdOpen, HandlesFresh, HandlesValid, Serving
  <1>3. SlotsOwned
    BY DEF Init, SlotsOwned, Closing, AtSelect
  <1>4. NoLeak
    <2> SUFFICES ASSUME NEW d \in Fd
                 PROVE  /\ fds[d].kind \notin {"file", "device", "sock"}
                        /\ d \in FileId => ~opened[d]
                        /\ g_hDev # d
      BY DEF NoLeak
    <2> QED BY DEF Init
  <1> QED BY <1>1, <1>2, <1>3, <1>4 DEF IInv

\* A step that leaves descriptors, slots and handles alone preserves everything.
LEMMA Untouched ==
  ASSUME IInv,
         UNCHANGED <<fds, opened, g_hDev, g_clientsocks, async, session, files>>,
         nopen' \in Nat, nopen' >= nopen
  PROVE  IInv'
  <1>1. Typed' BY DEF IInv, Typed
  <1>2. /\ AsyncPlaced' /\ StdOpen' /\ NoLeak'
    BY DEF IInv, AsyncPlaced, StdOpen, NoLeak
  <1>3. SlotsOwned'
    BY DEF IInv, SlotsOwned, Closing
  <1>4. HandlesFresh'
    BY DEF IInv, HandlesFresh, Typed
  <1>5. HandlesValid'
    BY DEF IInv, HandlesValid, Serving
  <1> QED BY <1>1, <1>2, <1>3, <1>4, <1>5 DEF IInv

\* A free descriptor d becomes a device or a file: no slot in use named it.
LEMMA TakenByServer ==
  ASSUME Typed, SlotsOwned, NEW d \in Fd, fds[d] = Free, NEW o \in Thing,
         o.kind # "sock", fds' = [fds EXCEPT ![d] = o],
         UNCHANGED <<g_clientsocks, async>>
  PROVE  SlotsOwned'
  <1> USE Kinds
  <1> SUFFICES ASSUME NEW c \in Chan
               PROVE  IF Closing(c) THEN \A e \in Fd : fds'[e] # Sock(c)
                      ELSE g_clientsocks[c] # None => fds'[g_clientsocks[c]] = Sock(c)
    BY DEF SlotsOwned, Closing
  <1>1. CASE Closing(c)
    BY <1>1 DEF SlotsOwned, Typed
  <1>2. CASE ~Closing(c)
    <2>1. g_clientsocks[c] # None => g_clientsocks[c] # d
      BY <1>2 DEF SlotsOwned
    <2> QED BY <1>2, <2>1 DEF SlotsOwned, Typed
  <1> QED BY <1>1, <1>2

\* A new device takes the lowest free number, which no file has.
LEMMA StepWait == IInv /\ wait_for_device => IInv'
  <1> SUFFICES ASSUME IInv, wait_for_device PROVE IInv'
    OBVIOUS
  <1> USE Kinds, Numbers
  <1>1. PICK d \in Fd : /\ fds[d] = Free
                        /\ fds' = [fds EXCEPT ![d] = Device]
                        /\ g_hDev' = d
    BY DEF wait_for_device, LowestFree
  <1>2. /\ g_hDev = None /\ session' = session + 1
        /\ UNCHANGED <<opened, g_clientsocks, async, nopen, files>>
    BY DEF wait_for_device, Serving, psp
  <1>3. Typed'
    BY <1>1, <1>2 DEF IInv, Typed
  <1>4. AsyncPlaced' /\ StdOpen'
    BY <1>1, <1>2 DEF IInv, Typed, AsyncPlaced, StdOpen
  <1>5. SlotsOwned'
    BY <1>1, <1>2, TakenByServer DEF IInv
  <1>6. HandlesFresh'
    BY <1>2 DEF IInv, Typed, HandlesFresh
  <1>7. HandlesValid'
    BY <1>2 DEF IInv, Typed, HandlesFresh, HandlesValid
  <1>8. NoLeak'
    BY <1>1, <1>2 DEF IInv, Typed, NoLeak
  <1> QED BY <1>3, <1>4, <1>5, <1>6, <1>7, <1>8 DEF IInv

\* close_hostfs closes every file above STDERR_FILENO, and the device.
LEMMA StepCloseHostfs == IInv /\ close_hostfs => IInv'
  <1> SUFFICES ASSUME IInv, close_hostfs PROVE IInv'
    OBVIOUS
  <1> USE Kinds, Numbers
  <1>1. /\ fds' = [d \in Fd |-> IF d = g_hDev \/ d \in Reaped THEN Free ELSE fds[d]]
        /\ g_hDev \in Fd /\ g_hDev' = None
        /\ opened' = [f \in FileId |-> FALSE]
        /\ UNCHANGED <<session, g_clientsocks, async, nopen, files>>
    BY DEF close_hostfs, Serving, psp, IInv, Typed
  <1>2. \A d \in Fd : fds[d].kind \notin {"file", "device"} => fds'[d] = fds[d]
    BY <1>1 DEF IInv, NoLeak, Reaped
  <1>3. \A d \in Fd : fds[d].kind \in {"file", "device"} => fds'[d] = Free
    <2> SUFFICES ASSUME NEW d \in Fd, fds[d].kind = "file" PROVE d \in Reaped
      BY <1>1 DEF IInv, NoLeak
    <2>1. d \in FileId /\ opened[d]
      BY DEF IInv, NoLeak
    <2>2. ~(d <= StdErr)
      BY DEF IInv, StdOpen
    <2> QED BY <2>1, <2>2 DEF Reaped, StdErr
  <1>4. Typed'
    BY <1>1 DEF IInv, Typed
  <1>5. AsyncPlaced' /\ StdOpen'
    BY <1>1, <1>2 DEF IInv, AsyncPlaced, StdOpen
  <1>6. SlotsOwned'
    <2> SUFFICES ASSUME NEW c \in Chan
                 PROVE  IF Closing(c) THEN \A e \in Fd : fds'[e] # Sock(c)
                        ELSE g_clientsocks[c] # None => fds'[g_clientsocks[c]] = Sock(c)
      BY <1>1 DEF SlotsOwned, Closing
    <2>1. CASE Closing(c)
      BY <2>1, <1>2, <1>3 DEF IInv, SlotsOwned
    <2>2. CASE ~Closing(c)
      BY <2>2, <1>2 DEF IInv, SlotsOwned, Typed
    <2> QED BY <2>1, <2>2
  <1>7. HandlesFresh'
    BY <1>1 DEF IInv, HandlesFresh
  <1>8. HandlesValid'
    BY <1>1 DEF HandlesValid, Serving
  <1>9. NoLeak'
    BY <1>1, <1>2, <1>3 DEF IInv, NoLeak
  <1> QED BY <1>4, <1>5, <1>6, <1>7, <1>8, <1>9 DEF IInv

\* open() gives a number that no handle of the session has.
LEMMA StepOpen == IInv /\ handle_open => IInv'
  <1> SUFFICES ASSUME IInv, handle_open PROVE IInv'
    OBVIOUS
  <1> USE Kinds, Numbers
  <1>1. /\ nopen \in Nat /\ nopen' = nopen + 1
        /\ UNCHANGED <<g_hDev, session, g_clientsocks, async>>
    BY DEF handle_open, IInv, Typed
  <1>2. PICK d \in Fd, bulk \in BOOLEAN, answered \in BOOLEAN :
          /\ fds[d] = Free
          /\ open_file(d, bulk)
          /\ files' = files \cup
               (IF InTable(d) /\ answered
                THEN {[id |-> d, file |-> nopen', bulk |-> bulk, session |-> session]}
                ELSE {})
    BY DEF handle_open, LowestFree
  <1>3. CASE ~InTable(d)
    BY <1>1, <1>2, <1>3, Untouched DEF open_file
  <1>4. CASE InTable(d)
    <2> DEFINE new == [id |-> d, file |-> nopen', bulk |-> bulk, session |-> session]
    <2>1. /\ d \in FileId
          /\ fds' = [fds EXCEPT ![d] = File(nopen')]
          /\ opened' = [opened EXCEPT ![d] = TRUE]
          /\ files' \subseteq files \cup {new}
      BY <1>2, <1>4 DEF open_file, InTable
    <2>2. Typed'
      BY <1>1, <2>1 DEF IInv, Typed
    <2>3. AsyncPlaced' /\ StdOpen'
      BY <1>1, <1>2, <2>1 DEF IInv, Typed, AsyncPlaced, StdOpen
    <2>4. SlotsOwned'
      <3>1. File(nopen') \in Thing /\ File(nopen').kind # "sock"
        BY <1>1
      <3> HIDE DEF File
      <3> QED BY <1>1, <1>2, <2>1, <3>1, TakenByServer DEF IInv
    <2>5. HandlesFresh'
      BY <1>1, <2>1 DEF IInv, Typed, HandlesFresh
    <2>6. HandlesValid'
      <3> SUFFICES ASSUME Serving', ~Stale, NEW h \in files', h.session = session'
                   PROVE  opened'[h.id] /\ fds'[h.id] = File(h.file)
        BY DEF HandlesValid
      <3>1. CASE h = new
        BY <3>1, <1>1, <2>1 DEF IInv, Typed
      <3>2. CASE h # new
        <4>1. h \in files /\ h.id \in FileId /\ opened[h.id] /\ fds[h.id] = File(h.file)
              /\ h.file \in Nat
          BY <3>2, <1>1, <2>1 DEF IInv, HandlesValid, HandlesFresh, Serving
        <4>2. h.id # d
          BY <4>1, <1>2
        <4> QED BY <4>1, <4>2, <2>1 DEF IInv, Typed
      <3> QED BY <3>1, <3>2
    <2>7. NoLeak'
      BY <1>1, <1>2, <2>1 DEF IInv, Typed, NoLeak
    <2> QED BY <2>2, <2>3, <2>4, <2>5, <2>6, <2>7 DEF IInv
  <1> QED BY <1>3, <1>4

\* The server frees a descriptor that is no socket: slots do not notice.
LEMMA FreedByServer ==
  ASSUME Typed, SlotsOwned, NEW d \in Fd, fds[d].kind # "sock",
         fds' = [fds EXCEPT ![d] = Free],
         UNCHANGED <<g_clientsocks, async>>
  PROVE  SlotsOwned'
  <1> USE Kinds
  <1> SUFFICES ASSUME NEW c \in Chan
               PROVE  IF Closing(c) THEN \A e \in Fd : fds'[e] # Sock(c)
                      ELSE g_clientsocks[c] # None => fds'[g_clientsocks[c]] = Sock(c)
    BY DEF SlotsOwned, Closing
  <1>1. CASE Closing(c)
    BY <1>1 DEF SlotsOwned, Typed
  <1>2. CASE ~Closing(c)
    <2>1. g_clientsocks[c] # None => g_clientsocks[c] # d
      BY <1>2 DEF SlotsOwned
    <2> QED BY <1>2, <2>1 DEF SlotsOwned, Typed
  <1> QED BY <1>1, <1>2

\* Closing a handle frees its own file's descriptor: the other handles of the
\* session name other files, hence other descriptors.
LEMMA StepClose == ASSUME IInv, NEW h \in files, handle_close(h) PROVE IInv'
  <1> USE Kinds, Numbers
  <1>1. /\ files' = files \ {h}
        /\ UNCHANGED <<g_hDev, session, g_clientsocks, async, nopen>>
    BY DEF handle_close
  <1>2. HandlesFresh'
    BY <1>1 DEF IInv, HandlesFresh
  <1>3. CASE ~(Serving /\ h.id > StdErr /\ opened[h.id])
    <2>1. UNCHANGED <<fds, opened>>
      BY <1>3 DEF handle_close
    <2>2. Typed' /\ AsyncPlaced' /\ StdOpen' /\ NoLeak'
      BY <1>1, <2>1 DEF IInv, Typed, AsyncPlaced, StdOpen, NoLeak
    <2>3. SlotsOwned'
      BY <1>1, <2>1 DEF IInv, SlotsOwned, Closing
    <2>4. HandlesValid'
      BY <1>1, <2>1 DEF IInv, HandlesValid, Serving
    <2> QED BY <1>2, <2>2, <2>3, <2>4 DEF IInv
  <1>4. CASE Serving /\ h.id > StdErr /\ opened[h.id]
    <2>1. /\ h.id \in FileId /\ h.id \in Fd /\ fds[h.id].kind = "file"
          /\ fds' = [fds EXCEPT ![h.id] = Free]
          /\ opened' = [opened EXCEPT ![h.id] = FALSE]
      BY <1>4 DEF handle_close, IInv, HandlesFresh, NoLeak
    <2>2. Typed'
      BY <1>1, <2>1 DEF IInv, Typed
    <2>3. AsyncPlaced' /\ StdOpen'
      BY <1>1, <2>1 DEF IInv, Typed, AsyncPlaced, StdOpen
    <2>4. SlotsOwned'
      BY <1>1, <2>1, FreedByServer DEF IInv
    <2>5. NoLeak'
      BY <1>1, <2>1 DEF IInv, Typed, NoLeak
    <2>6. HandlesValid'
      <3> SUFFICES ASSUME Serving', ~Stale, NEW g \in files', g.session = session'
                   PROVE  opened'[g.id] /\ fds'[g.id] = File(g.file)
        BY DEF HandlesValid
      <3>1. /\ h.session = session
            /\ g \in files /\ g # h /\ g.session = session
        BY <1>1 DEF handle_close, Usable
      <3>2. /\ opened[g.id] /\ fds[g.id] = File(g.file) /\ fds[h.id] = File(h.file)
            /\ g.id \in FileId /\ g.file \in Nat /\ h.file \in Nat
        BY <3>1, <1>4 DEF IInv, HandlesValid, HandlesFresh
      <3>3. g.id # h.id
        BY <3>1, <3>2 DEF IInv, HandlesFresh
      <3> QED BY <2>1, <3>2, <3>3 DEF IInv, Typed
    <2> QED BY <1>2, <2>2, <2>3, <2>4, <2>5, <2>6 DEF IInv
  <1> QED BY <1>3, <1>4

\* Reads, writes, seeks, bulk and channel output only use descriptors, and
\* directories have none.
LEMMA StepUse ==
  ASSUME IInv,
         \/ do_bulk \/ handle_dopen
         \/ \E h \in files : handle_write(h) \/ handle_read(h) \/ handle_lseek(h)
         \/ \E h \in dhandles : handle_dclose(h) \/ handle_dread(h)
         \/ (\E c \in Chan : do_async(c)) \/ do_async_load \/ do_async_write
  PROVE  IInv'
  <1>1. /\ UNCHANGED <<fds, opened, g_hDev, g_clientsocks, async, session, files>>
        /\ nopen' = nopen \/ nopen' = nopen + 1
    BY DEF do_bulk, handle_dopen, handle_write, handle_read, handle_lseek, UseFile,
           handle_dclose, handle_dread, do_async, do_async_load, do_async_write, server, psp
  <1>2. nopen' \in Nat /\ nopen' >= nopen
    BY <1>1 DEF IInv, Typed
  <1> QED BY <1>1, <1>2, Untouched

\* async_thread closes the socket of channel c's slot, if it has one.  The slot
\* keeps the number, but the channel has no socket any more.
LEMMA StepAsyncClose ==
  ASSUME IInv, NEW c \in Chan, async_connect(c) \/ async_hangup(c)
  PROVE  IInv'
  <1> USE Kinds, Numbers
  <1>1. /\ async = AtSelect
        /\ fds' = CloseSlot(c)
        /\ async' \in {[at |-> "accept", chan |-> c], [at |-> "hangup", chan |-> c]}
        /\ UNCHANGED <<opened, g_hDev, session, nopen, files, g_clientsocks>>
    BY DEF async_connect, async_hangup, server, psp
  <1>2. /\ \A e \in Chan : ~Closing(e)
        /\ \A e \in Chan : Closing(e)' <=> e = c
    BY <1>1 DEF Closing, AtSelect
  <1>3. g_clientsocks[c] # None =>
          g_clientsocks[c] \in Fd /\ fds[g_clientsocks[c]] = Sock(c)
    BY <1>2 DEF IInv, Typed, SlotsOwned
  <1>4. fds' \in [Fd -> Thing]
    BY <1>1, <1>3 DEF CloseSlot, IInv, Typed
  <1>5. \A d \in Fd : fds[d] = Sock(c) => g_clientsocks[c] = d
    BY DEF IInv, NoLeak
  <1>6. \A d \in Fd : IF fds[d] = Sock(c) THEN fds'[d] = Free ELSE fds'[d] = fds[d]
    BY <1>1, <1>3, <1>5 DEF CloseSlot, IInv, Typed
  <1>7. Typed'
    <2>1. async' \in [at : {"select", "accept", "hangup"}, chan : Chan \cup {None}]
      BY <1>1
    <2> QED BY <1>1, <1>4, <2>1 DEF IInv, Typed
  <1>8. AsyncPlaced'
    BY <1>1 DEF AsyncPlaced
  <1>9. StdOpen'
    BY <1>6 DEF IInv, StdOpen
  <1>10. SlotsOwned'
    <2> SUFFICES ASSUME NEW e \in Chan
                 PROVE  IF e = c THEN \A d \in Fd : fds'[d] # Sock(e)
                        ELSE g_clientsocks[e] # None => fds'[g_clientsocks[e]] = Sock(e)
      BY <1>1, <1>2 DEF SlotsOwned
    <2>1. CASE e = c
      BY <2>1, <1>6
    <2>2. CASE e # c
      <3>1. g_clientsocks[e] # None =>
              g_clientsocks[e] \in Fd /\ fds[g_clientsocks[e]] = Sock(e)
        BY <1>2 DEF IInv, Typed, SlotsOwned
      <3> QED BY <2>2, <3>1, <1>6
    <2> QED BY <2>1, <2>2
  <1>11. HandlesFresh'
    BY <1>1 DEF IInv, HandlesFresh
  <1>12. HandlesValid'
    <2> SUFFICES ASSUME Serving', ~Stale, NEW h \in files', h.session = session'
                 PROVE  opened'[h.id] /\ fds'[h.id] = File(h.file)
      BY DEF HandlesValid
    <2>1. opened[h.id] /\ fds[h.id] = File(h.file) /\ h.id \in Fd /\ h.file \in Nat
      BY <1>1 DEF IInv, HandlesValid, HandlesFresh, Serving
    <2>2. fds[h.id] # Sock(c)
      BY <2>1
    <2> QED BY <1>1, <1>6, <2>1, <2>2
  <1>13. NoLeak'
    BY <1>1, <1>6 DEF IInv, NoLeak
  <1> QED BY <1>7, <1>8, <1>9, <1>10, <1>11, <1>12, <1>13 DEF IInv

\* A thing of kind "sock" is its channel's socket.
LEMMA SockIsItsChannel ==
  \A o \in Thing : o.kind = "sock" /\ o.of \in Chan => o = Sock(o.of)
  BY DEF Thing, Sock

\* async_thread clears the slot of the channel whose socket it has closed.
LEMMA StepVacate ==
  ASSUME IInv, async.at # "select", async' = AtSelect,
         g_clientsocks' = [g_clientsocks EXCEPT ![async.chan] = None],
         UNCHANGED <<fds, opened, g_hDev, session, nopen, files>>
  PROVE  IInv'
  <1> USE Kinds, Numbers
  <1> DEFINE c == async.chan
  <1>1. /\ c \in Chan /\ Closing(c)
        /\ \A e \in Chan : Closing(e) <=> e = c
        /\ \A e \in Chan : ~Closing(e)'
    BY DEF IInv, AsyncPlaced, Closing, AtSelect
  <1>2. \A d \in Fd : fds[d] # Sock(c)
    BY <1>1 DEF IInv, SlotsOwned
  <1>3. Typed'
    <2>1. async' \in [at : {"select", "accept", "hangup"}, chan : Chan \cup {None}]
      BY DEF AtSelect
    <2> QED BY <1>1, <2>1 DEF IInv, Typed
  <1>4. AsyncPlaced' /\ StdOpen' /\ HandlesFresh'
    BY DEF IInv, AsyncPlaced, StdOpen, HandlesFresh
  <1>5. HandlesValid'
    BY DEF IInv, HandlesValid, Serving
  <1>6. SlotsOwned'
    BY <1>1 DEF IInv, SlotsOwned, Typed
  <1>7. NoLeak'
    <2>1. \A d \in Fd : fds[d].kind = "sock" => fds[d].of \in Chan /\ fds[d].of # c
      BY <1>2, SockIsItsChannel DEF IInv, Typed, NoLeak
    <2> QED BY <1>1, <2>1 DEF IInv, Typed, NoLeak
  <1> QED BY <1>3, <1>4, <1>5, <1>6, <1>7 DEF IInv

\* The socket accept() returns takes a free descriptor, and the channel had none.
LEMMA StepAccept == IInv /\ async_accept => IInv'
  <1> SUFFICES ASSUME IInv, async_accept PROVE IInv'
    OBVIOUS
  <1> USE Kinds, Numbers
  <1> DEFINE c == async.chan
  <1>1. /\ c \in Chan /\ Closing(c) /\ async' = AtSelect
        /\ \A e \in Chan : Closing(e) <=> e = c
        /\ \A e \in Chan : ~Closing(e)'
        /\ UNCHANGED <<opened, g_hDev, session, nopen, files>>
    BY DEF async_accept, IInv, AsyncPlaced, Closing, AtSelect, server, psp
  <1>2. \A d \in Fd : fds[d] # Sock(c)
    BY <1>1 DEF IInv, SlotsOwned
  <1>3. \A e \in Chan : e # c /\ g_clientsocks[e] # None =>
          g_clientsocks[e] \in Fd /\ fds[g_clientsocks[e]] = Sock(e)
    BY <1>1 DEF IInv, SlotsOwned, Typed
  <1>4. AsyncPlaced' /\ HandlesFresh'
    BY <1>1 DEF IInv, AsyncPlaced, HandlesFresh
  <1>5. async' \in [at : {"select", "accept", "hangup"}, chan : Chan \cup {None}]
    BY <1>1 DEF AtSelect
  <1>6. ASSUME NEW d \in Fd, fds[d] = Free,
               fds' = [fds EXCEPT ![d] = Sock(c)],
               g_clientsocks' = [g_clientsocks EXCEPT ![c] = d]
        PROVE  IInv'
    <2>1. Typed'
      BY <1>1, <1>5, <1>6 DEF IInv, Typed
    <2>2. StdOpen'
      BY <1>6 DEF IInv, Typed, StdOpen
    <2>3. SlotsOwned'
      <3> SUFFICES ASSUME NEW e \in Chan, g_clientsocks'[e] # None
                   PROVE  fds'[g_clientsocks'[e]] = Sock(e)
        BY <1>1 DEF SlotsOwned
      <3>1. CASE e = c
        BY <3>1, <1>6 DEF IInv, Typed
      <3>2. CASE e # c
        BY <3>2, <1>3, <1>6 DEF IInv, Typed
      <3> QED BY <3>1, <3>2
    <2>4. HandlesValid'
      BY <1>1, <1>6 DEF IInv, Typed, HandlesValid, HandlesFresh, Serving
    <2>5. NoLeak'
      <3> SUFFICES ASSUME NEW e \in Fd
                   PROVE  /\ fds'[e].kind = "file" <=> (e \in FileId /\ opened[e])
                          /\ fds'[e].kind = "device" <=> g_hDev = e
                          /\ fds'[e].kind = "sock" =>
                               fds'[e].of \in Chan /\ g_clientsocks'[fds'[e].of] = e
        BY <1>1 DEF NoLeak
      <3>1. CASE e = d
        BY <3>1, <1>1, <1>6 DEF IInv, Typed, NoLeak
      <3>2. CASE e # d
        <4>1. fds'[e] = fds[e]
          BY <3>2, <1>6 DEF IInv, Typed
        <4>2. fds[e].kind = "sock" => fds[e].of \in Chan /\ fds[e].of # c
          BY <1>1, <1>2, SockIsItsChannel DEF IInv, Typed, NoLeak
        <4> QED BY <4>1, <4>2, <1>6 DEF IInv, Typed, NoLeak
      <3> QED BY <3>1, <3>2
    <2> QED BY <1>4, <2>1, <2>2, <2>3, <2>4, <2>5 DEF IInv
  <1>7. ASSUME g_clientsocks' = [g_clientsocks EXCEPT ![c] = None], UNCHANGED fds
        PROVE  IInv'
    BY <1>1, <1>7, StepVacate DEF async_accept
  <1> QED BY <1>6, <1>7 DEF async_accept, LowestFree

\* async_thread clears the slot of a socket it has closed.
LEMMA StepForget == IInv /\ async_forget => IInv'
  BY StepVacate DEF async_forget, Vacated, server, psp

\* Every step of either thread preserves the invariant.
LEMMA StepInv == IInv /\ [Next]_vars => IInv'
  <1> SUFFICES ASSUME IInv, [Next]_vars PROVE IInv'
    OBVIOUS
  <1>1. CASE UNCHANGED vars
    <2>1. nopen' \in Nat /\ nopen' >= nopen
      BY <1>1 DEF vars, psp, IInv, Typed
    <2> QED BY <1>1, <2>1, Untouched DEF vars, server, psp
  <1>2. CASE wait_for_device \/ close_hostfs \/ handle_open
    BY <1>2, StepWait, StepCloseHostfs, StepOpen
  <1>3. CASE \E h \in files : handle_close(h)
    BY <1>3, StepClose
  <1>4. CASE \/ do_bulk \/ handle_dopen
             \/ \E h \in files : handle_write(h) \/ handle_read(h) \/ handle_lseek(h)
             \/ \E h \in dhandles : handle_dclose(h) \/ handle_dread(h)
             \/ (\E c \in Chan : do_async(c)) \/ do_async_load \/ do_async_write
    BY <1>4, StepUse
  <1>5. CASE \E c \in Chan : async_connect(c) \/ async_hangup(c)
    BY <1>5, StepAsyncClose
  <1>6. CASE async_accept \/ async_forget
    BY <1>6, StepAccept, StepForget
  <1> QED BY <1>1, <1>2, <1>3, <1>4, <1>5, <1>6 DEF Next, Handler

-----------------------------------------------------------------------------
(***************************************************************************)
(* Channel output.  Unless async_thread closed a socket of the channel      *)
(* meanwhile, the slot do_async checked still names a client when it is     *)
(* loaded, and the loaded descriptor still is a socket of the channel when  *)
(* it is written to.                                                        *)
(***************************************************************************)

SendInv ==
  /\ sending \in [at : {"idle", "load", "write"}, chan : Chan \cup {None},
                  fd : Fd \cup {None}, raced : BOOLEAN]
  /\ sending.at # "idle" => sending.chan \in Chan
  /\ sending.at = "load" /\ ~sending.raced =>
       ~Closing(sending.chan) /\ g_clientsocks[sending.chan] # None
  /\ sending.at = "write" /\ ~sending.raced =>
       /\ ~Closing(sending.chan)
       /\ sending.fd # None /\ fds[sending.fd] = Sock(sending.chan)

\* The steps of do_async itself.
LEMMA SendStep ==
  ASSUME IInv, SendInv, (\E c \in Chan : do_async(c)) \/ do_async_load \/ do_async_write
  PROVE  SendInv'
  <1> USE Numbers
  <1>1. CASE \E c \in Chan : do_async(c)
    <2>1. PICK c \in Chan :
            /\ g_clientsocks[c] # None /\ UNCHANGED <<g_clientsocks, async>>
            /\ sending' = [at |-> "load", chan |-> c, fd |-> None, raced |-> Closing(c)]
      BY <1>1 DEF do_async
    <2>2. Closing(c) \in BOOLEAN /\ (Closing(c)' <=> Closing(c))
      BY <2>1 DEF Closing
    <2> HIDE DEF Closing
    <2> QED BY <2>1, <2>2 DEF SendInv
  <1>2. CASE do_async_load
    <2>1. sending.chan \in Chan /\ g_clientsocks[sending.chan] \in Fd \cup {None}
      BY <1>2 DEF do_async_load, SendInv, IInv, Typed
    <2>2. UNCHANGED <<fds, g_clientsocks, async>>
      BY <1>2 DEF do_async_load
    <2>3. \A c : Closing(c)' <=> Closing(c)
      BY <2>2 DEF Closing
    <2>4. /\ sending'.at = "write" /\ sending'.chan = sending.chan
          /\ sending'.fd = g_clientsocks[sending.chan] /\ sending'.raced = sending.raced
      BY <1>2 DEF do_async_load, SendInv, IInv
    <2> QED BY <1>2, <2>1, <2>2, <2>3, <2>4 DEF do_async_load, SendInv, IInv, SlotsOwned
  <1>3. CASE do_async_write
    BY <1>3 DEF do_async_write, SendInv, NotSending
  <1> QED BY <1>1, <1>2, <1>3

\* Closing a socket of another channel frees a descriptor that is not the
\* loaded one.
LEMMA SendClose ==
  ASSUME IInv, SendInv, NEW c \in Chan, async_connect(c) \/ async_hangup(c)
  PROVE  SendInv'
  <1> USE Kinds, Numbers
  <1>1. /\ async = AtSelect /\ async'.chan = c /\ fds' = CloseSlot(c) /\ Closes(c)
        /\ UNCHANGED g_clientsocks
    BY DEF async_connect, async_hangup
  <1>2. ~Closing(c)
    BY <1>1 DEF Closing, AtSelect
  <1>3. CASE sending.at # "idle" /\ sending.chan = c
    <2>1. sending' = [sending EXCEPT !.raced = TRUE]
      BY <1>1, <1>3 DEF Closes
    <2> QED BY <1>3, <2>1 DEF SendInv
  <1>4. CASE ~(sending.at # "idle" /\ sending.chan = c)
    <2>1. sending' = sending
      BY <1>1, <1>4 DEF Closes
    <2>2. sending.at # "idle" => ~Closing(sending.chan)'
      BY <1>1, <1>4, <2>1 DEF Closing
    <2>3. ASSUME sending.at = "write", ~sending.raced
          PROVE  fds'[sending.fd] = Sock(sending.chan)
      <3>1. /\ sending.chan \in Chan /\ sending.chan # c
            /\ sending.fd \in Fd /\ fds[sending.fd] = Sock(sending.chan)
        BY <1>4, <2>3 DEF SendInv
      <3>2. g_clientsocks[c] # None => fds[g_clientsocks[c]] = Sock(c)
        BY <1>2 DEF IInv, SlotsOwned
      <3>3. g_clientsocks[c] # None => g_clientsocks[c] # sending.fd
        BY <3>1, <3>2
      <3> QED BY <1>1, <3>1, <3>3 DEF CloseSlot, IInv, Typed
    <2> QED BY <1>1, <2>1, <2>2, <2>3 DEF SendInv
  <1> QED BY <1>3, <1>4

\* A slot gets a new socket, or none, only after its old one was closed.
LEMMA SendSlot ==
  ASSUME IInv, SendInv, async_accept \/ async_forget
  PROVE  SendInv'
  <1> USE Kinds, Numbers
  <1>1. /\ async.at # "select" /\ async' = AtSelect /\ sending' = sending
        /\ \A c \in Chan : c # async.chan => g_clientsocks'[c] = g_clientsocks[c]
    BY DEF async_accept, async_forget, Vacated, IInv, Typed
  <1>2. \A d \in Fd : fds[d] # Free => fds'[d] = fds[d]
    BY DEF async_accept, async_forget, LowestFree, IInv, Typed
  <1>3. ~Closing(sending.chan)'
    BY <1>1 DEF Closing, AtSelect
  <1>4. sending.at = "load" /\ ~sending.raced =>
          g_clientsocks'[sending.chan] # None
    BY <1>1 DEF SendInv, Closing
  <1>5. sending.at = "write" /\ ~sending.raced => fds'[sending.fd] = Sock(sending.chan)
    <2> SUFFICES ASSUME sending.at = "write", ~sending.raced
                 PROVE  fds'[sending.fd] = Sock(sending.chan)
      OBVIOUS
    <2>1. /\ sending.chan \in Chan /\ sending.fd \in Fd
          /\ fds[sending.fd] = Sock(sending.chan)
      BY DEF SendInv
    <2>2. fds[sending.fd] # Free
      <3>1. Sock(sending.chan).kind = "sock"
        BY <2>1
      <3> QED BY <2>1, <3>1
    <2> QED BY <1>2, <2>1, <2>2
  <1> QED BY <1>1, <1>3, <1>4, <1>5 DEF SendInv

\* Every step of either thread keeps it so.
LEMMA StepSend == IInv /\ SendInv /\ [Next]_vars => SendInv'
  <1> SUFFICES ASSUME IInv, SendInv, [Next]_vars PROVE SendInv'
    OBVIOUS
  <1>1. CASE UNCHANGED vars
    BY <1>1 DEF vars, SendInv, Closing
  <1>2. CASE sending = NotSending /\ UNCHANGED sending
    BY <1>2 DEF SendInv, NotSending
  <1>3. CASE (\E c \in Chan : do_async(c)) \/ do_async_load \/ do_async_write
    BY <1>3, SendStep
  <1>4. CASE \E c \in Chan : async_connect(c) \/ async_hangup(c)
    BY <1>4, SendClose
  <1>5. CASE async_accept \/ async_forget
    BY <1>5, SendSlot
  <1> QED BY <1>1, <1>2, <1>3, <1>4, <1>5 DEF Next

-----------------------------------------------------------------------------
\* What a system call on a file id reaches is the file the handle was opened for.
LEMMA FileUseLands ==
  ASSUME IInv, NEW h \in files, NEW by, NEW lowest, UseFile(by, h, lowest), ~Stale
  PROVE  last'.got = last'.want
  <1>1. /\ Serving /\ h.session = session
        /\ last' = [by |-> by, want |-> File(h.file), got |-> fds[h.id], racing |-> FALSE]
    BY DEF UseFile, Usable, Use
  <1>2. fds[h.id] = File(h.file)
    BY <1>1 DEF IInv, HandlesValid
  <1> QED BY <1>1, <1>2

\* Every system call on data reaches what it was meant for.
LEMMA StepData == IInv /\ SendInv /\ DataLands /\ [Next]_vars => DataLands'
  <1> SUFFICES ASSUME IInv, SendInv, DataLands, [Next]_vars PROVE DataLands'
    OBVIOUS
  <1>1. CASE last' = last
    BY <1>1 DEF DataLands
  <1>2. CASE \E h \in files : handle_write(h) \/ handle_read(h) \/ handle_lseek(h)
    <2>1. PICK h \in files : handle_write(h) \/ handle_read(h) \/ handle_lseek(h)
      BY <1>2
    <2>2. PICK by \in {"write", "read", "lseek"}, lowest \in {0, StdErr + 1} :
            UseFile(by, h, lowest)
      BY <2>1 DEF handle_write, handle_read, handle_lseek
    <2>3. last'.by = by
      BY <2>2 DEF UseFile, Use
    <2>4. ~Stale => last'.got = last'.want
      BY <2>2, FileUseLands
    <2> QED BY <2>2, <2>3, <2>4 DEF DataLands
  <1>3. CASE do_bulk
    <2>1. last'.by = "bulk"
      BY <1>3 DEF do_bulk, Use
    <2> QED BY <2>1 DEF DataLands
  <1>4. CASE do_async_write
    <2>1. CASE sending.fd = None
      BY <2>1, <1>1, <1>4 DEF do_async_write
    <2>2. CASE sending.fd # None
      <3>1. last' = [by |-> "async", want |-> Sock(sending.chan), got |-> fds[sending.fd],
                     racing |-> sending.raced]
        BY <2>2, <1>4 DEF do_async_write, Use
      <3>2. sending.raced \/ fds[sending.fd] = Sock(sending.chan)
        BY <1>4 DEF do_async_write, SendInv
      <3>3. last'.by = "async" /\ (last'.got = last'.want \/ last'.racing)
        BY <3>1, <3>2
      <3> QED BY <3>3 DEF DataLands
    <2> QED BY <2>1, <2>2
  <1>5. ASSUME Next,
               ~do_bulk,
               ~\E h \in files : handle_write(h) \/ handle_read(h) \/ handle_lseek(h),
               ~do_async_write
        PROVE  last' = last
    BY <1>5 DEF Next, Handler, do_async, do_async_load, wait_for_device, close_hostfs, handle_open, handle_dopen,
                handle_close, handle_dclose, handle_dread, async_connect,
                async_hangup, async_accept, async_forget
  <1> QED BY <1>1, <1>2, <1>3, <1>4, <1>5 DEF vars

\* No descriptor leaks, and a handle of the current session stays its file's,
\* for every number of channels, descriptors, sessions and opens, whatever the
\* order of the server thread's handlers and async_thread's steps.
THEOREM DescriptorsSafe == Spec => [](NoLeak /\ HandlesValid)
  <1>1. IInv => NoLeak /\ HandlesValid
    BY DEF IInv
  <1> QED BY <1>1, InitInv, StepInv, PTL DEF Spec

\* A read, write or seek for a handle of the session reaches its file, and a
\* channel's output reaches a client of the channel unless async_thread closes
\* a socket of the channel between do_async's check and its write, or has closed
\* it and not updated g_clientsocks by the check.
THEOREM DataReachesItsOwner == Spec => []DataLands
  <1>1. Init => DataLands /\ SendInv
    BY DEF Init, NoUse, DataLands, SendInv, NotSending
  <1> QED BY <1>1, InitInv, StepInv, StepSend, StepData, PTL DEF Spec

-----------------------------------------------------------------------------
(***************************************************************************)
(* The bulk descriptor.  g_bulkfd survives close_hostfs, so BulkFileIsBulk  *)
(* is not inductive by itself: while a program of the session has a bulk    *)
(* file, g_bulkfd also has to be a file that is open, which no new file can *)
(* get the number of.                                                       *)
(***************************************************************************)

\* Some program has opened a file for bulk in this session.
BulkInUse == Serving /\ ~Stale /\ \E h \in files : h.bulk /\ h.session = session

BulkInv ==
  /\ g_bulkfd \in FileId \cup {None}
  /\ BulkInUse /\ g_bulkfd # None => opened[g_bulkfd]
  /\ BulkFileIsBulk

\* Steps that leave files and g_bulkfd alone.
LEMMA BulkUntouched ==
  ASSUME BulkInv, UNCHANGED <<g_bulkfd, opened, g_hDev, session, files>>
  PROVE  BulkInv'
  BY DEF BulkInv, BulkInUse, BulkFileIsBulk, Serving

\* A file opened for bulk becomes the bulk file, and no other handle of the
\* session has its number; another file gets a number that is not open.
LEMMA BulkOpen == ASSUME IInv, BulkInv, handle_open PROVE BulkInv'
  <1> USE Kinds, Numbers
  <1>1. UNCHANGED <<g_hDev, session>>
    BY DEF handle_open
  <1>2. PICK d \in Fd, bulk \in BOOLEAN, answered \in BOOLEAN :
          /\ fds[d] = Free
          /\ open_file(d, bulk)
          /\ files' = files \cup
               (IF InTable(d) /\ answered
                THEN {[id |-> d, file |-> nopen', bulk |-> bulk, session |-> session]}
                ELSE {})
    BY DEF handle_open, LowestFree
  <1>3. CASE ~InTable(d)
    BY <1>1, <1>2, <1>3, BulkUntouched DEF open_file
  <1>4. CASE InTable(d)
    <2> DEFINE new == [id |-> d, file |-> nopen', bulk |-> bulk, session |-> session]
    <2>1. /\ d \in FileId /\ ~opened[d] /\ d # None
          /\ opened' = [opened EXCEPT ![d] = TRUE]
          /\ g_bulkfd' = IF bulk THEN d ELSE g_bulkfd
          /\ files' \subseteq files \cup {new}
          /\ files \subseteq files'
      BY <1>2, <1>4 DEF open_file, InTable, IInv, NoLeak
    <2>2. /\ new.id = d /\ new.bulk = bulk /\ new.session = session
      OBVIOUS
    <2> HIDE DEF new
    <2>3. opened \in [FileId -> BOOLEAN] /\ g_bulkfd \in FileId \cup {None}
      BY DEF IInv, Typed, BulkInv
    <2>4. ASSUME Serving, ~Stale, NEW h \in files, h.session = session
          PROVE  h.id \in FileId /\ opened[h.id] /\ h.id # d
      BY <2>1, <2>4 DEF IInv, HandlesFresh, HandlesValid
    <2>5. CASE ~BulkInUse'
      BY <2>1, <2>3, <2>5 DEF BulkInv, BulkInUse, BulkFileIsBulk
    <2>6. CASE BulkInUse' /\ bulk
      <3>1. g_bulkfd' = d /\ opened'[d]
        BY <2>1, <2>3, <2>6
      <3>2. ASSUME NEW h \in files', h.session = session', h.id = d PROVE h.bulk
        <4>1. CASE h = new
          BY <4>1, <2>2, <2>6
        <4>2. CASE h \in files
          BY <4>2, <3>2, <2>4, <2>6, <1>1 DEF BulkInUse, Serving
        <4> QED BY <4>1, <4>2, <2>1
      <3> QED BY <2>1, <3>1, <3>2 DEF BulkInv, BulkInUse, BulkFileIsBulk
    <2>7. CASE BulkInUse' /\ ~bulk
      <3>1. BulkInUse
        <4>1. PICK h \in files' : h.bulk /\ h.session = session'
          BY <2>7 DEF BulkInUse
        <4>2. h \in files
          BY <4>1, <2>1, <2>2, <2>7
        <4> QED BY <4>1, <4>2, <2>7, <1>1 DEF BulkInUse, Serving
      <3>2. g_bulkfd' = g_bulkfd /\ (g_bulkfd # None => opened[g_bulkfd])
        BY <2>1, <2>7, <3>1 DEF BulkInv
      <3>3. g_bulkfd # d /\ (g_bulkfd # None => opened'[g_bulkfd])
        BY <2>1, <2>3, <3>2
      <3>4. ASSUME NEW h \in files', h.session = session', h.id = g_bulkfd PROVE h.bulk
        <4>1. h \in files
          BY <2>1, <2>2, <3>3, <3>4
        <4> QED BY <4>1, <3>1, <3>4, <1>1 DEF BulkInv, BulkInUse, BulkFileIsBulk
      <3> QED BY <2>3, <3>2, <3>3, <3>4 DEF BulkInv, BulkInUse, BulkFileIsBulk
    <2> QED BY <2>5, <2>6, <2>7
  <1> QED BY <1>3, <1>4

\* Closing a file clears g_bulkfd when it was the bulk file, so what remains is
\* still open.
LEMMA BulkClose == ASSUME IInv, BulkInv, NEW h \in files, handle_close(h) PROVE BulkInv'
  <1> USE Numbers
  <1>1. files' = files \ {h} /\ UNCHANGED <<g_hDev, session>> /\ h.id \in FileId
    BY DEF handle_close, IInv, HandlesFresh
  <1>2. opened \in [FileId -> BOOLEAN] /\ g_bulkfd \in FileId \cup {None}
    BY DEF IInv, Typed, BulkInv
  <1>3. BulkInUse' => BulkInUse
    BY <1>1 DEF BulkInUse, Serving
  <1>4. CASE UNCHANGED <<opened, g_bulkfd>>
    BY <1>1, <1>2, <1>3, <1>4 DEF BulkInv, BulkInUse, BulkFileIsBulk, Serving
  <1>5. CASE /\ opened' = [opened EXCEPT ![h.id] = FALSE]
             /\ g_bulkfd' = AfterClose(h.id)
    <2>1. g_bulkfd' \in FileId \cup {None} /\ (g_bulkfd' # None => g_bulkfd' = g_bulkfd
                                               /\ g_bulkfd # h.id)
      BY <1>2, <1>5 DEF AfterClose
    <2>2. BulkInUse' /\ g_bulkfd' # None => opened'[g_bulkfd']
      BY <1>2, <1>3, <1>5, <2>1 DEF BulkInv
    <2>3. BulkFileIsBulk'
      <3> SUFFICES ASSUME BulkInUse', NEW g \in files', g.session = session', g.id = g_bulkfd'
                   PROVE  g.bulk
        BY DEF BulkFileIsBulk, BulkInUse
      <3>1. g.id \in FileId /\ g \in files
        BY <1>1 DEF IInv, HandlesFresh
      <3> QED BY <1>1, <1>3, <2>1, <3>1 DEF BulkInv, BulkFileIsBulk, BulkInUse
    <2> QED BY <2>1, <2>2, <2>3 DEF BulkInv
  <1> QED BY <1>4, <1>5 DEF handle_close

\* Every step preserves the invariant of the bulk descriptor.
LEMMA StepBulk == IInv /\ BulkInv /\ [Next]_vars => BulkInv'
  <1> SUFFICES ASSUME IInv, BulkInv, [Next]_vars PROVE BulkInv'
    OBVIOUS
  <1>1. CASE wait_for_device
    <2>1. UNCHANGED <<g_bulkfd, files>> /\ session' = session + 1
      BY <1>1 DEF wait_for_device, psp
    <2>2. ~BulkInUse'
      BY <2>1 DEF BulkInUse, IInv, HandlesFresh, Typed
    <2> QED BY <2>1, <2>2 DEF BulkInv, BulkInUse, BulkFileIsBulk
  <1>2. CASE close_hostfs
    <2>1. g_bulkfd' = g_bulkfd /\ ~BulkInUse'
      BY <1>2 DEF close_hostfs, BulkInUse, Serving
    <2> QED BY <2>1 DEF BulkInv, BulkInUse, BulkFileIsBulk
  <1>3. CASE handle_open
    BY <1>3, BulkOpen
  <1>4. CASE \E h \in files : handle_close(h)
    BY <1>4, BulkClose
  <1>5. CASE UNCHANGED <<g_bulkfd, opened, g_hDev, session, files>>
    BY <1>5, BulkUntouched
  <1>6. ASSUME Next, ~wait_for_device, ~close_hostfs, ~handle_open,
               ~\E h \in files : handle_close(h)
        PROVE  UNCHANGED <<g_bulkfd, opened, g_hDev, session, files>>
    BY <1>6 DEF Next, Handler, do_async_load, do_async_write, do_bulk, handle_dopen, handle_write, handle_read, handle_lseek,
                UseFile, handle_dclose, handle_dread, do_async, async_connect,
                async_hangup, async_accept, async_forget, server, psp
  <1> QED BY <1>1, <1>2, <1>3, <1>4, <1>5, <1>6 DEF vars, server, psp

\* While a program of the session has a bulk file, the bulk descriptor is never
\* the number of a file opened without bulk: handle_close clears it before the
\* number can be reused, and what a former session left in g_bulkfd is replaced
\* by the open that makes the first bulk file.
THEOREM BulkStaysBulk == Spec => []BulkFileIsBulk
  <1>1. Init => BulkInv
    BY DEF Init, BulkInv, BulkInUse, BulkFileIsBulk
  <1>2. BulkInv => BulkFileIsBulk
    BY DEF BulkInv
  <1> QED BY <1>1, <1>2, InitInv, StepInv, StepBulk, PTL DEF Spec

-----------------------------------------------------------------------------
(***************************************************************************)
(* Directories.  What a program has seen of a directory is exact because    *)
(* its handle and the slot of open_dirs agree: same directory, same number  *)
(* of entries, and the slot is as far as the handle.  Slots are reused, so  *)
(* the agreement also needs that two handles of a session never share one.  *)
(***************************************************************************)

DirSlot   == [opened : BOOLEAN, count : Nat, pos : Nat, dir : Nat]
DirHandle == [id : Did, dir : Nat, total : Nat, session : Nat,
              seen : Seq(Nat \X Nat), left : Nat]

\* Directory handles are distinct opens of the past.
DirsFresh ==
  /\ \A h \in dhandles : h \in DirHandle /\ h.dir <= nopen /\ h.session <= session
  /\ \A g, h \in dhandles : g.dir = h.dir => g = h

\* The slot a handle of this session names is its directory's.
SlotOf(h, s) == s.opened /\ s.dir = h.dir /\ s.count = h.total /\ s.pos = Len(h.seen)

DirsAgree == Serving => \A h \in dhandles : h.session = session => SlotOf(h, dirs[h.id])

\* What EnumerationExact says of one handle.
Exact(h) ==
  /\ Len(h.seen) <= h.total
  /\ \A i \in 1 .. Len(h.seen) : h.seen[i] = <<h.dir, i>>
  /\ h.left = 0 => Len(h.seen) = h.total
  /\ h.left > 0 => h.left = h.total - Len(h.seen) + 1

DirInv ==
  /\ session \in Nat /\ nopen \in Nat
  /\ dirs \in [Did -> DirSlot]
  /\ DirsFresh /\ DirsAgree
  /\ \A h \in dhandles : Exact(h)

\* Steps that leave directories alone.
LEMMA DirUntouched ==
  ASSUME DirInv, UNCHANGED <<dirs, dhandles, g_hDev, session>>,
         nopen' \in Nat, nopen' >= nopen
  PROVE  DirInv'
  <1>1. DirsFresh'
    BY DEF DirInv, DirsFresh, DirHandle
  <1>2. DirsAgree'
    BY DEF DirInv, DirsAgree, Serving
  <1> QED BY <1>1, <1>2 DEF DirInv

\* Two handles of the session have two slots.
LEMMA OneHandlePerSlot ==
  ASSUME DirInv, Serving, NEW g \in dhandles, NEW h \in dhandles, g # h,
         g.session = session, h.session = session
  PROVE  g.id # h.id
  BY DEF DirInv, DirsFresh, DirsAgree, SlotOf

\* dir_open takes a slot that is not open, hence no handle's of the session.
LEMMA DirOpen == ASSUME DirInv, handle_dopen PROVE DirInv'
  <1>1. nopen' = nopen + 1 /\ UNCHANGED <<g_hDev, session>>
    BY DEF handle_dopen
  <1>2. PICK d \in Did, n \in 1 .. MaxEntries, answered \in BOOLEAN :
          /\ ~dirs[d].opened
          /\ dirs' = [dirs EXCEPT ![d] = [opened |-> TRUE, count |-> n, pos |-> 0,
                                          dir |-> nopen']]
          /\ dhandles' = dhandles \cup
               (IF answered
                THEN {[id |-> d, dir |-> nopen', total |-> n, session |-> session,
                       seen |-> <<>>, left |-> n + 1]}
                ELSE {})
    BY DEF handle_dopen, dir_open
  <1> DEFINE new == [id |-> d, dir |-> nopen', total |-> n, session |-> session,
                     seen |-> <<>>, left |-> n + 1]
  <1>3. dhandles' \subseteq dhandles \cup {new} /\ dhandles \subseteq dhandles'
    BY <1>2
  <1>4. /\ n \in Nat /\ nopen \in Nat /\ session \in Nat
    BY ServerAssumption DEF DirInv
  <1>5. /\ new \in DirHandle /\ new.dir = nopen + 1 /\ new.session = session
        /\ new.id = d /\ new.seen = <<>> /\ new.total = n /\ new.left = n + 1
    BY <1>1, <1>4 DEF DirHandle
  <1> HIDE DEF new
  <1>6. dirs' \in [Did -> DirSlot]
    BY <1>1, <1>2, <1>4 DEF DirInv, DirSlot
  <1>7. DirsFresh'
    <2>1. \A h \in dhandles : h.dir \in Nat /\ h.session \in Nat /\ h.dir # nopen + 1
      BY <1>4 DEF DirInv, DirsFresh, DirHandle
    <2> QED BY <1>1, <1>3, <1>4, <1>5, <2>1 DEF DirInv, DirsFresh
  <1>8. DirsAgree'
    <2> SUFFICES ASSUME Serving, NEW h \in dhandles', h.session = session
                 PROVE  SlotOf(h, dirs'[h.id])
      BY <1>1 DEF DirsAgree, Serving
    <2>1. CASE h = new
      BY <2>1, <1>1, <1>2, <1>5 DEF SlotOf, DirInv
    <2>2. CASE h \in dhandles
      <3>1. SlotOf(h, dirs[h.id]) /\ h.id \in Did
        BY <2>2 DEF DirInv, DirsAgree, DirsFresh, DirHandle
      <3>2. h.id # d
        BY <3>1, <1>2 DEF SlotOf
      <3> QED BY <1>2, <3>1, <3>2 DEF DirInv
    <2> QED BY <1>3, <2>1, <2>2
  <1>9. Exact(new)
    BY <1>4, <1>5 DEF Exact
  <1> QED BY <1>1, <1>3, <1>4, <1>6, <1>7, <1>8, <1>9 DEF DirInv

\* Closing a directory frees its own slot.
LEMMA DirClose == ASSUME DirInv, ~Stale, NEW h \in dhandles, handle_dclose(h) PROVE DirInv'
  <1>1. /\ dhandles' = dhandles \ {h} /\ UNCHANGED <<g_hDev, session, nopen>>
        /\ h.session = session /\ h.id \in Did
    BY DEF handle_dclose, Usable, DirInv, DirsFresh, DirHandle
  <1>2. /\ dirs' \in [Did -> DirSlot]
        /\ \A d \in Did : d # h.id => dirs'[d] = dirs[d]
    <2>1. NoDir \in DirSlot
      BY DEF NoDir, DirSlot
    <2> QED BY <1>1, <2>1 DEF handle_dclose, dir_close, DirInv
  <1>3. DirsFresh'
    BY <1>1 DEF DirInv, DirsFresh
  <1>4. DirsAgree'
    <2> SUFFICES ASSUME Serving, NEW g \in dhandles', g.session = session
                 PROVE  SlotOf(g, dirs'[g.id])
      BY <1>1 DEF DirsAgree, Serving
    <2>1. g \in dhandles /\ g.id # h.id /\ g.id \in Did
      BY <1>1, OneHandlePerSlot DEF DirInv, DirsFresh, DirHandle
    <2> QED BY <1>2, <2>1 DEF DirInv, DirsAgree
  <1> QED BY <1>1, <1>2, <1>3, <1>4 DEF DirInv

\* What moving a slot on leaves alone.
LEMMA SlotMoved ==
  ASSUME NEW d \in DirSlot, NEW n \in Nat, NEW e, e = [d EXCEPT !.pos = n]
  PROVE  /\ e \in DirSlot /\ e.pos = n
         /\ e.opened = d.opened /\ e.count = d.count /\ e.dir = d.dir
  BY DEF DirSlot

\* Reading moves the handle and its slot on together.
LEMMA DirRead == ASSUME DirInv, ~Stale, NEW h \in dhandles, handle_dread(h) PROVE DirInv'
  <1> DEFINE d   == dirs[h.id]
             new == IF MoreEntries(d)
                    THEN [h EXCEPT !.seen = Append(@, <<d.dir, d.pos + 1>>),
                                   !.left = d.count - (d.pos + 1) + 1]
                    ELSE [h EXCEPT !.left = 0]
             slot == IF MoreEntries(d) THEN [d EXCEPT !.pos = @ + 1] ELSE d
  <1>1. PICK answered \in BOOLEAN :
          /\ dirs' = IF MoreEntries(d) THEN [dirs EXCEPT ![h.id].pos = @ + 1] ELSE dirs
          /\ dhandles' = (dhandles \ {h}) \cup (IF answered THEN {new} ELSE {})
    BY DEF handle_dread
  <1>2. Serving /\ h.session = session /\ UNCHANGED <<g_hDev, session, nopen>>
    BY DEF handle_dread, Usable
  <1>3. /\ h \in DirHandle /\ h.id \in Did /\ d \in DirSlot
        /\ h.dir <= nopen /\ SlotOf(h, d) /\ Exact(h)
    BY <1>2 DEF DirInv, DirsFresh, DirsAgree, DirHandle
  <1>4. /\ h.seen \in Seq(Nat \X Nat) /\ Len(h.seen) \in Nat /\ h.total \in Nat
        /\ h.dir \in Nat /\ d.pos = Len(h.seen) /\ d.dir = h.dir /\ d.count = h.total
        /\ h.left \in Nat /\ h.session \in Nat
    BY <1>3 DEF DirHandle, SlotOf
  <1>5. dirs' = [dirs EXCEPT ![h.id] = slot]
    BY <1>1, <1>3 DEF DirInv
  <1>6. /\ new \in DirHandle /\ new.dir = h.dir /\ new.session = h.session /\ new.id = h.id
        /\ slot \in DirSlot /\ SlotOf(new, slot) /\ Exact(new)
    <2>1. CASE MoreEntries(d)
      <3> DEFINE seen == Append(h.seen, <<h.dir, Len(h.seen) + 1>>)
      <3>1. /\ new = [h EXCEPT !.seen = seen, !.left = h.total - (Len(h.seen) + 1) + 1]
            /\ slot = [d EXCEPT !.pos = Len(h.seen) + 1]
        BY <2>1, <1>4
      <3>2. Len(h.seen) < h.total
        BY <2>1, <1>4 DEF MoreEntries
      <3>3. /\ seen \in Seq(Nat \X Nat) /\ Len(seen) = Len(h.seen) + 1
            /\ \A i \in 1 .. Len(h.seen) : seen[i] = h.seen[i]
            /\ seen[Len(h.seen) + 1] = <<h.dir, Len(h.seen) + 1>>
        BY <1>4
      <3> HIDE DEF d, new, slot, seen
      <3>4. /\ new \in DirHandle /\ new.seen = seen /\ new.dir = h.dir /\ new.id = h.id
            /\ new.session = h.session /\ new.total = h.total
            /\ new.left = h.total - (Len(h.seen) + 1) + 1
        <4> DEFINE n == h.total - (Len(h.seen) + 1) + 1
        <4>1. n \in Nat
          BY <1>4, <3>2
        <4>2. new = [h EXCEPT !.seen = seen, !.left = n]
          BY <3>1
        <4> HIDE DEF n
        <4>3. h \in DirHandle /\ seen \in Seq(Nat \X Nat)
          BY <1>3, <3>3
        <4>4. /\ new \in DirHandle /\ new.seen = seen /\ new.left = n
              /\ new.id = h.id /\ new.dir = h.dir /\ new.session = h.session
              /\ new.total = h.total
          BY <4>1, <4>2, <4>3 DEF DirHandle
        <4> QED BY <4>4 DEF n
      <3>5. slot \in DirSlot /\ SlotOf(new, slot)
        <4>1. Len(h.seen) + 1 \in Nat
          BY <1>4
        <4>2. /\ slot \in DirSlot /\ slot.pos = Len(h.seen) + 1 /\ slot.opened = d.opened
              /\ slot.count = d.count /\ slot.dir = d.dir
          BY <1>3, <3>1, <4>1, SlotMoved
        <4> QED BY <1>3, <1>4, <3>3, <3>4, <4>2 DEF SlotOf
      <3>6. Exact(new)
        <4> DEFINE n == Len(h.seen)
        <4>1. n \in Nat /\ n < h.total /\ Len(new.seen) = n + 1 /\ new.dir = h.dir
              /\ new.left = h.total - (n + 1) + 1 /\ new.total = h.total /\ h.total \in Nat
          BY <1>4, <3>2, <3>3, <3>4
        <4>2. \A i \in 1 .. n : new.seen[i] = <<new.dir, i>>
          BY <1>3, <3>3, <3>4 DEF Exact
        <4>3. new.seen[n + 1] = <<new.dir, n + 1>>
          BY <3>3, <3>4
        <4> HIDE DEF n
        <4>4. \A i \in 1 .. (n + 1) : i \in 1 .. n \/ i = n + 1
          BY <4>1
        <4>5. \A i \in 1 .. Len(new.seen) : new.seen[i] = <<new.dir, i>>
          BY <4>1, <4>2, <4>3, <4>4
        <4>6. Len(new.seen) <= new.total /\ new.left # 0
              /\ new.left = new.total - Len(new.seen) + 1
          BY <4>1
        <4> QED BY <4>5, <4>6 DEF Exact
      <3> QED BY <3>4, <3>5, <3>6
    <2>2. CASE ~MoreEntries(d)
      <3>1. new = [h EXCEPT !.left = 0] /\ slot = d
        BY <2>2
      <3>2. Len(h.seen) = h.total
        BY <2>2, <1>3, <1>4 DEF MoreEntries, Exact
      <3> HIDE DEF new, slot
      <3>3. /\ new \in DirHandle /\ new.seen = h.seen /\ new.dir = h.dir /\ new.id = h.id
            /\ new.session = h.session /\ new.total = h.total /\ new.left = 0
        BY <1>3, <3>1 DEF DirHandle
      <3> QED BY <1>3, <1>4, <3>1, <3>2, <3>3 DEF Exact, SlotOf
    <2> QED BY <2>1, <2>2
  <1> HIDE DEF d, new, slot
  <1>7. dirs' \in [Did -> DirSlot]
    BY <1>5, <1>6 DEF DirInv
  <1>8. dhandles' \subseteq (dhandles \ {h}) \cup {new}
    BY <1>1
  <1>9. DirsFresh'
    BY <1>2, <1>3, <1>6, <1>8 DEF DirInv, DirsFresh
  <1>10. DirsAgree'
    <2> SUFFICES ASSUME NEW g \in dhandles', g.session = session
                 PROVE  SlotOf(g, dirs'[g.id])
      BY <1>2 DEF DirsAgree
    <2>1. CASE g = new
      BY <2>1, <1>3, <1>5, <1>6 DEF DirInv
    <2>2. CASE g \in dhandles \ {h}
      <3>1. g.id # h.id /\ g.id \in Did
        BY <2>2, <1>2, OneHandlePerSlot DEF DirInv, DirsFresh, DirHandle
      <3> QED BY <2>2, <3>1, <1>2, <1>5 DEF DirInv, DirsAgree
    <2> QED BY <1>8, <2>1, <2>2
  <1> QED BY <1>2, <1>6, <1>7, <1>8, <1>9, <1>10 DEF DirInv

\* Every step preserves the invariant of directories.
LEMMA StepDirs == ~Stale /\ DirInv /\ [Next]_vars => DirInv'
  <1> SUFFICES ASSUME ~Stale, DirInv, [Next]_vars PROVE DirInv'
    OBVIOUS
  <1>1. CASE wait_for_device
    <2>1. UNCHANGED <<dirs, dhandles, nopen>> /\ session' = session + 1
      BY <1>1 DEF wait_for_device, psp
    <2>2. DirsFresh' /\ DirsAgree'
      BY <2>1 DEF DirInv, DirsFresh, DirsAgree, DirHandle
    <2> QED BY <2>1, <2>2 DEF DirInv
  <1>2. CASE close_hostfs
    <2>1. /\ UNCHANGED <<dhandles, nopen, session>> /\ ~Serving'
          /\ dirs' = [d \in Did |-> NoDir]
      BY <1>2 DEF close_hostfs, psp, Serving
    <2>2. NoDir \in DirSlot
      BY DEF NoDir, DirSlot
    <2>3. DirsFresh' /\ DirsAgree'
      BY <2>1 DEF DirInv, DirsFresh, DirsAgree
    <2> QED BY <2>1, <2>2, <2>3 DEF DirInv
  <1>3. CASE handle_dopen
    BY <1>3, DirOpen
  <1>4. CASE \E h \in dhandles : handle_dclose(h) \/ handle_dread(h)
    BY <1>4, DirClose, DirRead
  <1>5. CASE UNCHANGED <<dirs, dhandles, g_hDev, session>> /\ nopen' \in {nopen, nopen + 1}
    <2>1. nopen' \in Nat /\ nopen' >= nopen
      BY <1>5 DEF DirInv
    <2> QED BY <1>5, <2>1, DirUntouched
  <1>6. ASSUME Next, ~wait_for_device, ~close_hostfs, ~handle_dopen,
               ~\E h \in dhandles : handle_dclose(h) \/ handle_dread(h)
        PROVE  UNCHANGED <<dirs, dhandles, g_hDev, session>> /\ nopen' \in {nopen, nopen + 1}
    BY <1>6 DEF Next, Handler, do_async_load, do_async_write, do_bulk, handle_open, handle_close, handle_write, handle_read,
                handle_lseek, UseFile, do_async, async_connect,
                async_hangup, async_accept, async_forget, server, psp
  <1> QED BY <1>1, <1>2, <1>3, <1>4, <1>5, <1>6 DEF vars, server, psp

\* A program sees the entries of the directory it opened once each and in
\* order, and the count of an answer tells it when it has seen them all, for
\* every number of slots, sessions, directories and entries and whatever
\* answers are lost.
THEOREM DirectoriesExact == Spec => []EnumerationExact
  <1>1. Init => (Stale \/ DirInv)
    BY DEF Init, DirInv, NoDir, DirSlot, DirsFresh, DirsAgree
  <1>2. (Stale \/ DirInv) /\ [Next]_vars => (Stale \/ DirInv)'
    BY StepDirs
  <1>3. (Stale \/ DirInv) => EnumerationExact
    BY DEF DirInv, Exact, EnumerationExact
  <1> QED BY <1>1, <1>2, <1>3, PTL DEF Spec
=============================================================================
