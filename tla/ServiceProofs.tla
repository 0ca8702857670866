---------------------------- MODULE ServiceProofs ----------------------------
(***************************************************************************)
(* Proofs about Services: hooks lead home for every number of threads and   *)
(* hooks; the kernel's printf brings characters out in order for every size *)
(* of its ring; sessions resume for every set of programs, arguments and    *)
(* settings; symbols and addresses lead to each other for every set of      *)
(* symbol files that is in order; the terminal installs every prompt of     *)
(* every stream until a read tears one; the joystick is followed for every  *)
(* map of its buttons, every size of the ring and every loss in it.         *)
(***************************************************************************)
EXTENDS Services, WellFoundedInduction, SequenceTheorems, FiniteSetTheorems, TLAPS

-----------------------------------------------------------------------------
(* Hooks on system calls: ApiHook. *)

PcValues == {"idle", "entry", "handled", "asleep", "calling", "return", "asleep2",
             "restore", "done"}

\* The types of the variables.
HookRec == [func : Functions \cup {0}, sleep : BOOLEAN,
            name : {0} \cup {n.means : n \in HookNames}, asked : BOOLEAN]
Typed ==
  /\ table \in [Functions -> {Patch} \cup {Fn(f) : f \in Functions} \cup {Stub(i) : i \in Slots}]
  /\ hooks \in [Slots -> HookRec]
  /\ shell \in [id : Slots \cup {0}, func : Functions \cup {0}]
  /\ pc \in [Threads -> PcValues]
  /\ slot \in [Threads -> Slots \cup {0}]
  /\ func \in [Threads -> Functions \cup {0}]
  /\ ran \in [Threads -> Functions \cup {0}]
  /\ DOMAIN result = Threads

\* The table and the slots agree, but for the one the shell thread is about to
\* enter into the table.
Entering(i) == shell # Nothing /\ shell.id = i
TableInv ==
  /\ \A f \in Functions : table[f] \in {Fn(f), Patch} \cup {Stub(i) : i \in Slots}
  /\ \A f \in Functions, i \in Slots : table[f] = Stub(i) => hooks[i].func = f /\ ~Entering(i)
  /\ \A i \in Slots : hooks[i].func # 0 =>
       table[hooks[i].func] = IF Entering(i) THEN Fn(hooks[i].func) ELSE Stub(i)
  /\ shell # Nothing => shell.id \in Slots /\ hooks[shell.id].func = shell.func /\ shell.func # 0

\* Where a thread is in its call, what it has run and what it will bring back.
Outside == {"idle", "done"}
CallInv ==
  \A t \in Threads :
    /\ pc[t] # "idle" => func[t] # 0
    /\ pc[t] \notin Outside => slot[t] \in Slots
    /\ pc[t] = "entry" => ran[t] = 0
    /\ pc[t] \in {"return", "asleep2", "restore"} => result[t] = Returned(ran[t])
    /\ (pc[t] = "done" /\ ran[t] # 0) => result[t][1] = ran[t]

\* A thread whose hook was not deleted while it was on its way in runs its own
\* function.
OwnInv ==
  \A t \in Threads \ stranded :
    /\ pc[t] = "entry" => hooks[slot[t]].func = func[t]
    /\ pc[t] \notin {"idle", "entry"} => ran[t] = func[t]

HInv == Typed /\ TableInv /\ HookedAsNamed /\ CallInv

-----------------------------------------------------------------------------
\* A set of natural numbers has a least one.
LEMMA LeastIn ==
  ASSUME NEW S \in SUBSET Nat, S # {}
  PROVE  Min(S) \in S /\ \A k \in S : Min(S) <= k
<1>1. PICK m \in S : \A k \in S : <<k, m>> \notin OpToRel(<, Nat)
  BY WFMin, NatLessThanWellFounded
<1>2. \A k \in S : m <= k
  <2> SUFFICES ASSUME NEW k \in S PROVE m <= k
    OBVIOUS
  <2>1. m \in Nat /\ k \in Nat /\ <<k, m>> \in Nat \X Nat
    OBVIOUS
  <2>2. ~(<<k, m>>[1] < <<k, m>>[2])
    BY <1>1, <2>1 DEF OpToRel
  <2>3. QED BY <2>1, <2>2
<1>3. QED BY <1>2 DEF Min

\* find_free_hook returns a slot that is free, or 0.
LEMMA FreeHookIsFree ==
  ASSUME HookAssumption, Typed, find_free_hook # 0
  PROVE  find_free_hook \in Slots /\ hooks[find_free_hook].func = 0
<1> DEFINE s == [i \in Slots |-> hooks[i].func]
           I == {i \in 1 .. Len(s) : s[i] = 0}
<1>1. Len(s) = APIHOOK_MAXIDS /\ 1 .. Len(s) = Slots
  <2>1. s \in Seq(Functions \cup {0}) /\ DOMAIN s = 1 .. APIHOOK_MAXIDS
    BY DEF Slots, HookAssumption, Typed, HookRec
  <2>2. QED BY <2>1 DEF Slots, HookAssumption
<1>2. find_free_hook = IF I # {} THEN Min(I) ELSE 0
  BY DEF find_free_hook, SelectInSeq
<1>3. I \in SUBSET Nat
  OBVIOUS
<1>4. I # {} /\ Min(I) \in I
  <2> HIDE DEF I
  <2>1. QED BY <1>2, <1>3, LeastIn
<1>5. QED BY <1>1, <1>2, <1>4

\* libsFindExportByNid finds what the name stands for, also among variables.
LEMMA ExportIsNamed ==
  ASSUME HookAssumption, NEW name \in HookNames,
         libsFindExportByNid(name.library, name.nid) # 0
  PROVE  libsFindExportByNid(name.library, name.nid) = name.means
<1> DEFINE H == {j \in 1 .. Len(Libraries) : Libraries[j].libname = name.library}
           hit == IF H # {} THEN Min(H) ELSE 0
           l == Libraries[hit]
           s == SubSeq(l.entrytable, 1, l.stubcount)
           I == {j \in 1 .. Len(s) : s[j] = name.nid}
           i == IF I # {} THEN Min(I) ELSE 0
<1>1. libsFindExportByNid(name.library, name.nid) =
        IF hit = 0 THEN 0 ELSE IF i = 0 THEN 0 ELSE l.entrytable[l.stubcount + l.vstubcount + i]
  BY DEF libsFindExportByNid, SelectInSeq
<1>2. hit # 0 /\ i # 0
  BY <1>1
<1>3. hit \in H
  <2>1. H \in SUBSET Nat
    OBVIOUS
  <2> HIDE DEF H
  <2>2. QED BY <1>2, <2>1, LeastIn
<1>4. /\ l \in ToSet(Libraries) /\ l.libname = name.library
      /\ l \in [libname : STRING, stubcount : Nat, vstubcount : Nat, entrytable : Seq(Nat)]
      /\ Len(l.entrytable) = 2 * (l.stubcount + l.vstubcount)
  <2>1. hit \in 1 .. Len(Libraries) /\ Libraries[hit].libname = name.library
    BY <1>3
  <2> HIDE DEF hit
  <2>2. l \in [libname : STRING, stubcount : Nat, vstubcount : Nat, entrytable : Seq(Nat)]
    <3> DEFINE R == [libname : STRING, stubcount : Nat, vstubcount : Nat, entrytable : Seq(Nat)]
    <3>1. Libraries \in Seq(R)
      BY DEF HookAssumption
    <3> HIDE DEF R
    <3>2. l \in R
      BY <2>1, <3>1
    <3>3. QED BY <3>2 DEF R
  <2>3. l \in ToSet(Libraries)
    BY <2>1 DEF HookAssumption, ToSet
  <2>4. QED BY <2>1, <2>2, <2>3 DEF HookAssumption
<1>5. i \in I
  <2>1. I \in SUBSET Nat
    OBVIOUS
  <2> HIDE DEF I
  <2>2. QED BY <1>2, <2>1, LeastIn
<1>6. i \in 1 .. l.stubcount /\ l.entrytable[i] = name.nid
  <2> HIDE DEF l, i
  <2>1. l.stubcount \in Nat /\ l.stubcount <= Len(l.entrytable) /\ l.entrytable \in Seq(Nat)
    BY <1>4
  <2>2. Len(s) = l.stubcount /\ \A j \in 1 .. l.stubcount : s[j] = l.entrytable[j]
    BY <2>1
  <2>3. QED BY <1>5, <2>2
<1>7. name.means = l.entrytable[l.stubcount + l.vstubcount + i]
  <2> HIDE DEF l, i
  <2>1. QED BY <1>4, <1>6 DEF HookAssumption
<1>8. QED BY <1>1, <1>2, <1>7

-----------------------------------------------------------------------------
(* One step, action by action. *)

\* The three kinds of entry of the system call table differ.
LEMMA Entries ==
  /\ \A f, g : Fn(f) = Fn(g) => f = g
  /\ \A i, j : Stub(i) = Stub(j) => i = j
  /\ \A f, i : Fn(f) # Stub(i) /\ Fn(f) # Patch /\ Stub(i) # Patch
  /\ \A i : Stub(i)[1] = "stub" /\ Stub(i)[2] = i
  /\ \A f : Fn(f)[1] # "stub"
BY DEF Fn, Stub, Patch

\* Init.
LEMMA InitHooks == HookAssumption /\ Init => HInv /\ OwnInv
<1> SUFFICES ASSUME HookAssumption, Init PROVE HInv /\ OwnInv
  OBVIOUS
<1>1. Typed
  BY DEF Init, Typed, HookRec, Free, Nothing, PcValues
<1>2. TableInv
  BY Entries DEF Init, TableInv, Free, Entering
<1>3. HookedAsNamed /\ CallInv /\ OwnInv
  BY DEF Init, HookedAsNamed, Free, CallInv, OwnInv, Outside
<1>4. QED BY <1>1, <1>2, <1>3 DEF HInv

\* apiHookGeneric fills a slot that was free, for a function that is not hooked.
LEMMA HookGeneric ==
  ASSUME HookAssumption, HInv, NEW name \in HookNames, NEW sleep \in BOOLEAN,
         apiHookGeneric(name, sleep)
  PROVE  HInv' /\ (OwnInv => OwnInv')
<1> DEFINE id == find_free_hook
           addr == libsFindExportByNid(name.library, name.nid)
           rec == [func |-> addr, sleep |-> sleep /\ name.byname,
                   name |-> name.means, asked |-> sleep]
<1>0. /\ UNCHANGED <<table, pc, slot, func, ran, result, stranded>> /\ shell = Nothing
      /\ Typed /\ TableInv /\ HookedAsNamed /\ CallInv
  BY DEF apiHookGeneric, HInv
<1>1. CASE id # 0 /\ addr # 0 /\ find_syscall_addr(addr)
  <2>1. id \in Slots /\ hooks[id].func = 0
    BY <1>0, <1>1, FreeHookIsFree
  <2>2. addr = name.means
    BY <1>1, ExportIsNamed
  <2>3. addr \in Functions /\ table[addr] = Fn(addr)
    BY <1>1 DEF find_syscall_addr
  <2>4. hooks' = [hooks EXCEPT ![id] = rec] /\ shell' = [id |-> id, func |-> addr]
    BY <1>1 DEF apiHookGeneric
  <2>5. rec \in HookRec /\ rec.func = addr /\ rec.name = addr
    BY <2>2, <2>3 DEF HookRec, HookAssumption
  <2>6. shell' # Nothing /\ shell'.id = id /\ shell'.func = addr
    BY <1>1, <2>4 DEF Nothing
  <2> HIDE DEF id, addr, rec
  <2>7. hooks'[id] = rec /\ \A i \in Slots : i # id => hooks'[i] = hooks[i]
    BY <1>0, <2>1, <2>4 DEF Typed
  <2>8. Typed'
    BY <1>0, <2>1, <2>3, <2>4, <2>5 DEF Typed
  <2>9. TableInv'
    <3>1. \A i \in Slots : (Entering(i)' <=> i = id) /\ ~Entering(i)
      BY <1>0, <2>6 DEF Entering
    <3>2. \A f \in Functions : table[f] # Stub(id)
      BY <1>0, <2>1, HookAssumption DEF TableInv, HookAssumption
    <3>3. \A f \in Functions, i \in Slots :
            table'[f] = Stub(i) => hooks'[i].func = f /\ ~Entering(i)'
      BY <1>0, <2>7, <3>1, <3>2 DEF TableInv
    <3>4. \A i \in Slots : hooks'[i].func # 0 =>
            table'[hooks'[i].func] = IF Entering(i)' THEN Fn(hooks'[i].func) ELSE Stub(i)
      BY <1>0, <2>3, <2>5, <2>7, <3>1 DEF TableInv
    <3>5. QED BY <1>0, <1>1, <2>1, <2>5, <2>6, <2>7, <3>3, <3>4 DEF TableInv
  <2>10. HookedAsNamed'
    BY <1>0, <2>5, <2>7 DEF HookedAsNamed
  <2>11. CallInv'
    BY <1>0 DEF CallInv
  <2>12. ASSUME OwnInv PROVE OwnInv'
    <3>1. \A t \in Threads \ stranded : pc[t] = "entry" => slot[t] \in Slots /\ slot[t] # id
      BY <1>0, <2>1, <2>12 DEF OwnInv, CallInv, Outside
    <3>2. QED BY <1>0, <2>7, <2>12, <3>1 DEF OwnInv
  <2>13. QED BY <2>8, <2>9, <2>10, <2>11, <2>12 DEF HInv
<1>2. CASE ~(id # 0 /\ addr # 0 /\ find_syscall_addr(addr))
  <2>1. UNCHANGED <<hooks, shell>>
    BY <1>2 DEF apiHookGeneric
  <2>2. QED
    BY <1>0, <2>1 DEF HInv, Typed, TableInv, Entering, HookedAsNamed, CallInv, OwnInv
<1>3. QED BY <1>1, <1>2

\* apiHookAddr enters the stub of the slot filled before.
LEMMA HookAddr ==
  ASSUME HookAssumption, HInv, apiHookAddr
  PROVE  HInv' /\ (OwnInv => OwnInv')
<1>0. /\ UNCHANGED <<hooks, pc, slot, func, ran, result, stranded>>
      /\ shell # Nothing /\ shell' = Nothing
      /\ table' = [table EXCEPT ![shell.func] = Stub(shell.id)]
      /\ Typed /\ TableInv /\ HookedAsNamed /\ CallInv
  BY DEF apiHookAddr, HInv
<1>1. shell.id \in Slots /\ shell.func \in Functions /\ hooks[shell.id].func = shell.func
  BY <1>0 DEF Typed, TableInv
<1>2. /\ table'[shell.func] = Stub(shell.id)
      /\ \A f \in Functions : f # shell.func => table'[f] = table[f]
  BY <1>0, <1>1 DEF Typed
<1>3. Typed'
  BY <1>0, <1>1 DEF Typed, Nothing
<1>4. \A i \in Slots : ~Entering(i)' /\ (Entering(i) <=> i = shell.id)
  BY <1>0 DEF Entering
<1>5. TableInv'
  <2>1. \A f \in Functions, i \in Slots : table'[f] = Stub(i) => hooks'[i].func = f
    BY <1>0, <1>1, <1>2, Entries DEF TableInv
  <2>2. ASSUME NEW i \in Slots, hooks[i].func # 0
        PROVE  table'[hooks[i].func] = Stub(i)
    <3>1. CASE i = shell.id
      BY <1>1, <1>2, <3>1
    <3>2. CASE i # shell.id
      <4>1. table[hooks[i].func] = Stub(i) /\ hooks[i].func \in Functions
        BY <1>0, <1>4, <2>2, <3>2 DEF TableInv, Typed, HookRec
      <4>2. table[shell.func] = Fn(shell.func)
        BY <1>0, <1>1, <1>4 DEF TableInv
      <4>3. hooks[i].func # shell.func
        BY <4>1, <4>2, Entries
      <4>4. QED BY <1>2, <4>1, <4>3
    <3>3. QED BY <3>1, <3>2
  <2>3. QED BY <1>0, <1>1, <1>2, <1>4, <2>1, <2>2 DEF TableInv
<1>6. QED BY <1>0, <1>3, <1>5 DEF HInv, HookedAsNamed, CallInv, OwnInv

\* apiHookGenericDelete puts the function back where its stub was.
LEMMA HookDelete ==
  ASSUME HookAssumption, HInv, NEW i \in Slots, apiHookGenericDelete(i)
  PROVE  HInv' /\ (OwnInv => OwnInv')
<1> DEFINE f == hooks[i].func
<1>0. /\ UNCHANGED <<shell, pc, slot, func, ran, result>>
      /\ shell = Nothing /\ f # 0 /\ stranded' = stranded \cup Inside(i)
      /\ table' = [table EXCEPT ![f] = Fn(f)] /\ hooks' = [hooks EXCEPT ![i].func = 0]
      /\ Typed /\ TableInv /\ HookedAsNamed /\ CallInv
  BY DEF apiHookGenericDelete, HInv
<1>1. f \in Functions /\ hooks[i] \in HookRec /\ table[f] = Stub(i)
  BY <1>0 DEF Typed, HookRec, TableInv, Entering
<1>2. /\ hooks'[i] \in HookRec /\ hooks'[i].func = 0
      /\ \A j \in Slots : j # i => hooks'[j] = hooks[j]
  BY <1>0, <1>1 DEF Typed, HookRec
<1>3. table'[f] = Fn(f) /\ \A g \in Functions : g # f => table'[g] = table[g]
  BY <1>0, <1>1 DEF Typed
<1>4. Typed'
  BY <1>0, <1>1, <1>2 DEF Typed
<1> HIDE DEF f
<1>5. \A j \in Slots : ~Entering(j)' /\ ~Entering(j)
  BY <1>0 DEF Entering
<1>6. TableInv'
  <2>1. ASSUME NEW g \in Functions, NEW j \in Slots, table'[g] = Stub(j)
        PROVE  hooks'[j].func = g
    <3>1. g # f
      BY <1>3, <2>1, Entries
    <3>2. hooks[j].func = g
      BY <1>0, <1>3, <2>1, <3>1 DEF TableInv
    <3>3. j # i
      BY <3>1, <3>2 DEF f
    <3>4. QED BY <1>2, <3>2, <3>3
  <2>2. ASSUME NEW j \in Slots, hooks'[j].func # 0
        PROVE  table'[hooks'[j].func] = Stub(j)
    <3>1. j # i /\ hooks'[j] = hooks[j]
      BY <1>2, <2>2
    <3>2. table[hooks[j].func] = Stub(j) /\ hooks[j].func \in Functions
      BY <1>0, <1>5, <2>2, <3>1 DEF TableInv, Typed, HookRec
    <3>3. hooks[j].func # f
      BY <1>1, <3>1, <3>2, Entries
    <3>4. QED BY <1>3, <3>1, <3>2, <3>3
  <2>3. QED BY <1>0, <1>1, <1>3, <1>5, <2>1, <2>2 DEF TableInv
<1>7. HookedAsNamed' /\ CallInv'
  BY <1>0, <1>2 DEF HookedAsNamed, CallInv
<1>8. ASSUME OwnInv PROVE OwnInv'
  <2>1. \A t \in Threads \ stranded' : pc[t] = "entry" => slot[t] \in Slots /\ slot[t] # i
    BY <1>0, <1>8 DEF Inside, CallInv, Outside
  <2>2. QED BY <1>0, <1>2, <1>8, <2>1 DEF OwnInv
<1>9. QED BY <1>4, <1>6, <1>7, <1>8 DEF HInv

\* Steps of a thread leave the table and the slots alone.
LEMMA TableKept ==
  ASSUME HInv, UNCHANGED <<table, hooks, shell>>
  PROVE  TableInv' /\ HookedAsNamed'
BY DEF HInv, TableInv, HookedAsNamed, Entering

\* A system call, through a stub or not.
LEMMA SyscallHooks ==
  ASSUME HookAssumption, HInv, NEW t \in Threads, NEW f \in Functions, Syscall(t, f)
  PROVE  HInv' /\ (OwnInv => OwnInv')
<1>0. /\ Typed /\ TableInv /\ CallInv /\ UNCHANGED <<table, hooks, shell, stranded>>
      /\ table[f] # Patch /\ f # 0
      /\ func' = [func EXCEPT ![t] = f]
  BY DEF Syscall, HInv, HookAssumption
<1>1. CASE table[f][1] = "stub"
  <2>1. PICK i \in Slots : table[f] = Stub(i) /\ hooks[i].func = f
    BY <1>0, <1>1, Entries DEF TableInv
  <2>2. /\ pc' = [pc EXCEPT ![t] = "entry"] /\ slot' = [slot EXCEPT ![t] = i]
        /\ ran' = [ran EXCEPT ![t] = 0] /\ UNCHANGED result
    BY <1>1, <2>1, Entries DEF Syscall
  <2>3. Typed'
    BY <1>0, <2>2 DEF Typed, PcValues
  <2>4. CallInv'
    BY <1>0, <2>2 DEF CallInv, Typed, Outside
  <2>5. OwnInv => OwnInv'
    BY <1>0, <2>1, <2>2 DEF OwnInv, Typed
  <2>6. QED BY <1>0, <2>3, <2>4, <2>5, TableKept DEF HInv
<1>2. CASE table[f][1] # "stub"
  <2>1. /\ pc' = [pc EXCEPT ![t] = "done"] /\ slot' = [slot EXCEPT ![t] = 0]
        /\ ran' = [ran EXCEPT ![t] = f] /\ result' = [result EXCEPT ![t] = Returned(f)]
    BY <1>2 DEF Syscall
  <2>2. Typed'
    BY <1>0, <2>1 DEF Typed, PcValues
  <2>3. Returned(f)[1] = f
    BY DEF Returned
  <2>4. CallInv'
    BY <1>0, <2>1, <2>3 DEF CallInv, Typed, Outside
  <2>5. OwnInv => OwnInv'
    BY <1>0, <2>1 DEF OwnInv, Typed
  <2>6. QED BY <1>0, <2>2, <2>4, <2>5, TableKept DEF HInv
<1>3. QED BY <1>1, <1>2

\* _apiHookHandle reads the slot's function.
LEMMA HandleHooks ==
  ASSUME HookAssumption, HInv, NEW t \in Threads, _apiHookHandle(t)
  PROVE  HInv' /\ (OwnInv => OwnInv')
<1> DEFINE f == hooks[slot[t]].func
<1>0. /\ Typed /\ CallInv /\ UNCHANGED <<table, hooks, shell, slot, func, stranded>>
      /\ pc[t] = "entry"
  BY DEF _apiHookHandle, HInv
<1>1. slot[t] \in Slots /\ f \in Functions \cup {0} /\ ran[t] = 0 /\ func[t] # 0
  BY <1>0 DEF CallInv, Typed, HookRec, Outside
<1>2. CASE f = 0
  <2>1. /\ pc' = [pc EXCEPT ![t] = "done"] /\ result' = [result EXCEPT ![t] = <<0, 0>>]
        /\ UNCHANGED ran
    BY <1>2 DEF _apiHookHandle
  <2> HIDE DEF f
  <2>2. Typed'
    BY <1>0, <2>1 DEF Typed, PcValues
  <2>3. CallInv'
    BY <1>0, <1>1, <2>1 DEF CallInv, Typed, Outside
  <2>4. OwnInv => OwnInv'
    BY <1>0, <1>1, <1>2, <2>1 DEF OwnInv, Typed, f
  <2>5. QED BY <1>0, <2>2, <2>3, <2>4, TableKept DEF HInv
<1>3. CASE f # 0
  <2>1. /\ pc' = [pc EXCEPT ![t] = "handled"] /\ ran' = [ran EXCEPT ![t] = f]
        /\ UNCHANGED result
    BY <1>3 DEF _apiHookHandle
  <2>2. OwnInv /\ t \notin stranded => f = func[t]
    BY <1>0 DEF OwnInv
  <2> HIDE DEF f
  <2>3. Typed'
    BY <1>0, <1>1, <2>1 DEF Typed, PcValues
  <2>4. CallInv'
    BY <1>0, <1>1, <2>1 DEF CallInv, Typed, Outside
  <2>5. OwnInv => OwnInv'
    BY <1>0, <1>1, <2>1, <2>2 DEF OwnInv, Typed
  <2>6. QED BY <1>0, <2>3, <2>4, <2>5, TableKept DEF HInv
<1>4. QED BY <1>2, <1>3

\* Steps on the way through the stub: to sleep, awake, the call and the way back.
LEMMA StubHooks ==
  ASSUME HookAssumption, HInv, NEW t \in Threads,
         Sleep(t) \/ Wake(t) \/ Call(t) \/ _apiHookReturn(t) \/ Restore(t)
  PROVE  HInv' /\ (OwnInv => OwnInv')
<1>0. /\ Typed /\ CallInv /\ UNCHANGED <<table, hooks, shell, slot, func, ran, stranded>>
  BY DEF HInv, Sleep, Wake, Call, _apiHookReturn, Restore
<1>1. Returned(ran[t])[1] = ran[t]
  BY DEF Returned
<1>2. CASE Sleep(t) \/ Wake(t) \/ _apiHookReturn(t)
  <2>1. ASSUME NEW p \in {"asleep", "calling", "asleep2", "restore"},
               pc' = [pc EXCEPT ![t] = p], UNCHANGED result,
               pc[t] \notin {"idle", "entry", "done"},
               p \in {"asleep2", "restore"} => pc[t] \in {"return", "asleep2"}
        PROVE  HInv' /\ (OwnInv => OwnInv')
    <3>1. pc'[t] = p /\ \A u \in Threads : u # t => pc'[u] = pc[u]
      BY <1>0, <2>1 DEF Typed
    <3>2. Typed'
      BY <1>0, <2>1 DEF Typed, PcValues
    <3>3. CallInv'
      BY <1>0, <2>1, <3>1 DEF CallInv, Outside
    <3>4. OwnInv => OwnInv'
      BY <1>0, <2>1, <3>1 DEF OwnInv
    <3>5. QED BY <1>0, <3>2, <3>3, <3>4, TableKept DEF HInv
  <2>2. CASE Sleep(t)
    <3> DEFINE p == IF hooks[slot[t]].sleep THEN "asleep" ELSE "calling"
    <3>1. /\ pc' = [pc EXCEPT ![t] = p] /\ UNCHANGED result /\ pc[t] = "handled"
          /\ p \in {"asleep", "calling"}
      BY <2>2 DEF Sleep
    <3> HIDE DEF p
    <3>2. QED BY <2>1, <3>1
  <2>3. CASE Wake(t)
    <3> DEFINE p == IF pc[t] = "asleep" THEN "calling" ELSE "restore"
    <3>1. /\ pc' = [pc EXCEPT ![t] = p] /\ UNCHANGED result /\ pc[t] \in {"asleep", "asleep2"}
          /\ p \in {"calling", "restore"} /\ (p = "restore" => pc[t] = "asleep2")
      BY <2>3 DEF Wake
    <3> HIDE DEF p
    <3>2. QED BY <2>1, <3>1
  <2>4. CASE _apiHookReturn(t)
    <3> DEFINE p == IF hooks[slot[t]].func # 0 /\ hooks[slot[t]].sleep
                    THEN "asleep2" ELSE "restore"
    <3>1. /\ pc' = [pc EXCEPT ![t] = p] /\ UNCHANGED result /\ pc[t] = "return"
          /\ p \in {"asleep2", "restore"}
      BY <2>4 DEF _apiHookReturn
    <3> HIDE DEF p
    <3>2. QED BY <2>1, <3>1
  <2>5. QED BY <1>2, <2>2, <2>3, <2>4
<1>3. CASE Call(t)
  <2>1. /\ pc[t] = "calling" /\ pc' = [pc EXCEPT ![t] = "return"]
        /\ result' = [result EXCEPT ![t] = Returned(ran[t])]
    BY <1>3 DEF Call
  <2>2. Typed'
    BY <1>0, <2>1 DEF Typed, PcValues
  <2>3. CallInv'
    BY <1>0, <2>1 DEF CallInv, Typed, Outside
  <2>4. OwnInv => OwnInv'
    BY <1>0, <2>1 DEF OwnInv, Typed
  <2>5. QED BY <1>0, <2>2, <2>3, <2>4, TableKept DEF HInv
<1>4. CASE Restore(t)
  <2>1. /\ pc[t] = "restore" /\ pc' = [pc EXCEPT ![t] = "done"]
        /\ result' = [result EXCEPT ![t] = <<result[t][1], result[t][1]>>]
    BY <1>4 DEF Restore
  <2>2. Typed'
    BY <1>0, <2>1 DEF Typed, PcValues
  <2>3. result'[t][1] = ran[t]
    BY <1>0, <1>1, <2>1 DEF CallInv, Typed
  <2>4. CallInv'
    BY <1>0, <2>1, <2>3 DEF CallInv, Typed, Outside
  <2>5. OwnInv => OwnInv'
    BY <1>0, <2>1 DEF OwnInv, Typed
  <2>6. QED BY <1>0, <2>2, <2>4, <2>5, TableKept DEF HInv
<1>5. QED BY <1>2, <1>3, <1>4

\* The caller goes on.
LEMMA DoneHooks ==
  ASSUME HInv, NEW t \in Threads, Done(t)
  PROVE  HInv' /\ (OwnInv => OwnInv')
<1>0. /\ Typed /\ CallInv /\ UNCHANGED <<table, hooks, shell>>
      /\ pc' = [pc EXCEPT ![t] = "idle"] /\ slot' = [slot EXCEPT ![t] = 0]
      /\ func' = [func EXCEPT ![t] = 0] /\ ran' = [ran EXCEPT ![t] = 0]
      /\ result' = [result EXCEPT ![t] = <<0, 0>>] /\ stranded' = stranded \ {t}
  BY DEF Done, HInv
<1>1. Typed'
  BY <1>0 DEF Typed, PcValues
<1>2. CallInv'
  BY <1>0 DEF CallInv, Typed, Outside
<1>3. OwnInv => OwnInv'
  BY <1>0 DEF OwnInv, Typed
<1>4. QED BY <1>0, <1>1, <1>2, <1>3, TableKept DEF HInv

\* The invariant is inductive, deletions under threads on their way in included.
LEMMA NextHooks ==
  ASSUME HookAssumption, HInv, [Next]_vars
  PROVE  HInv' /\ (OwnInv => OwnInv')
<1>1. ASSUME NEW name \in HookNames, NEW sleep \in BOOLEAN, apiHookGeneric(name, sleep)
      PROVE  HInv' /\ (OwnInv => OwnInv')
  BY <1>1, HookGeneric
<1>2. CASE apiHookAddr
  BY <1>2, HookAddr
<1>3. ASSUME NEW i \in Slots, apiHookGenericDelete(i)
      PROVE  HInv' /\ (OwnInv => OwnInv')
  BY <1>3, HookDelete
<1>4. ASSUME NEW t \in Threads, Thread(t) \/ Wake(t)
      PROVE  HInv' /\ (OwnInv => OwnInv')
  BY <1>4, SyscallHooks, HandleHooks, StubHooks, DoneHooks DEF Thread
<1>5. CASE UNCHANGED vars
  BY <1>5 DEF vars, HInv, Typed, TableInv, Entering, HookedAsNamed, CallInv, OwnInv
<1>6. QED BY <1>1, <1>2, <1>3, <1>4, <1>5 DEF Next

-----------------------------------------------------------------------------
\* apiHookGeneric, apiHookAddr, apiHookGenericDelete: however hooks are made and
\* deleted while threads call, every entry of the system call table is its own
\* function, a patch, or the stub of the one slot that leads back to it, and a
\* hook is on the function its library and NID stand for.
THEOREM TableLeadsHome ==
  ASSUME HookAssumption
  PROVE  Spec => [](TypeOK /\ HookLeadsHome /\ HookedAsNamed)
<1>1. Init => HInv
  BY InitHooks
<1>2. HInv /\ [Next]_vars => HInv'
  BY NextHooks
<1>3. HInv => TypeOK /\ HookLeadsHome /\ HookedAsNamed
  <2> SUFFICES ASSUME HInv PROVE TypeOK /\ HookLeadsHome /\ HookedAsNamed
    OBVIOUS
  <2>1. TypeOK
    BY DEF HInv, Typed, TableInv, TypeOK, HookRec, PcValues
  <2>2. HookLeadsHome
    <3>1. \A f \in Functions, i \in Slots : table[f] = Stub(i) => hooks[i].func = f
      BY DEF HInv, TableInv
    <3>2. ASSUME NEW i \in Slots, NEW j \in Slots, i # j, hooks[i].func # 0,
                 hooks[i].func = hooks[j].func
          PROVE  FALSE
      <4>1. Entering(i) <=> Entering(j)
        BY <3>2, Entries DEF HInv, TableInv
      <4>2. ~Entering(i)
        BY <3>2, <4>1 DEF Entering
      <4>3. QED BY <3>2, <4>1, <4>2, Entries DEF HInv, TableInv
    <3>3. QED BY <3>1, <3>2 DEF HookLeadsHome
  <2>3. QED BY <2>1, <2>2 DEF HInv
<1>4. QED BY <1>1, <1>2, <1>3, PTL DEF Spec

\* _apiHookEntry, _apiHookHandle, _apiHookReturn: a call that comes back through
\* a stub has run its own function and brings its result, whatever was hooked or
\* deleted meanwhile, unless its hook was deleted while the thread was on its way
\* in.
THEOREM HooksAreTransparent ==
  ASSUME HookAssumption
  PROVE  Spec => []HooksTransparent
<1>1. Init => HInv /\ OwnInv
  BY InitHooks
<1>2. (HInv /\ OwnInv) /\ [Next]_vars => (HInv /\ OwnInv)'
  BY NextHooks
<1>3. HInv /\ OwnInv => RunsOwnFunction /\ WordPassed
  <2>1. OwnInv => RunsOwnFunction
    BY DEF OwnInv, RunsOwnFunction
  <2>2. ASSUME HInv, NEW t \in Threads, pc[t] = "done", ran[t] = func[t]
        PROVE  result[t][1] = Returned(func[t])[1]
    <3>1. func[t] # 0 /\ result[t][1] = ran[t]
      BY <2>2 DEF HInv, CallInv
    <3>2. QED BY <2>2, <3>1 DEF Returned
  <2>3. QED BY <2>1, <2>2 DEF WordPassed
<1>4. TypeOK /\ HookLeadsHome /\ HookedAsNamed /\ RunsOwnFunction /\ WordPassed
        => HooksTransparent
  BY DEF HooksTransparent
<1>5. QED BY <1>1, <1>2, <1>3, <1>4, TableLeadsHome, PTL DEF Spec

-----------------------------------------------------------------------------
(* The kernel's printf: Kprintf. *)

\* Remainders of what is less than two turns.
LEMMA Remainder ==
  ASSUME NEW h \in Nat \ {0}, NEW a \in 0 .. 2 * h - 1
  PROVE  a % h = IF a < h THEN a ELSE a - h
OBVIOUS

\* Where cell k after r is, in a ring of h.
Around(r, k, h) == IF r + k < h THEN r + k ELSE r + k - h

\* One turn is enough to find a cell.
LEMMA AroundOf ==
  ASSUME NEW h \in Nat \ {0}, NEW r \in 0 .. h - 1, NEW k \in 0 .. h
  PROVE  Around(r, k, h) = (r + k) % h /\ Around(r, k, h) \in 0 .. h - 1
<1> DEFINE a == r + k
<1>1. a \in 0 .. 2 * h - 1
  OBVIOUS
<1>2. Around(r, k, h) = IF a < h THEN a ELSE a - h
  BY DEF Around
<1> HIDE DEF a
<1>3. a % h = IF a < h THEN a ELSE a - h
  BY <1>1, Remainder
<1>4. QED BY <1>1, <1>2, <1>3 DEF a

\* The kernel's printf: the ring by positions, and what the thread is about to
\* print of it.
PrintTypes ==
  /\ g_buf \in [0 .. KPRINTF_BUF_SIZE - 1 -> 0 .. MaxPut]
  /\ g_writepos \in 0 .. KPRINTF_BUF_SIZE - 1 /\ g_readpos \in 0 .. KPRINTF_BUF_SIZE - 1
  /\ g_total \in 0 .. KPRINTF_BUF_SIZE
  /\ low \in 0 .. KPRINTF_BUF_SIZE /\ high \in 0 .. KPRINTF_BUF_SIZE
  /\ putout \in 0 .. KPRINTF_BUF_SIZE
  /\ count \in 0 .. MaxPut /\ lastput \in 0 .. MaxPut /\ ended \in 0 .. MaxPut
PrintPlace == flag \in BOOLEAN /\ printer \in {"wait", "look", "print"}

LastKept ==
  /\ g_writepos = Around(g_readpos, g_total, KPRINTF_BUF_SIZE)
  /\ \A k \in 0 .. KPRINTF_BUF_SIZE - 1 :
       k < g_total =>
         g_buf[Around(g_readpos, k, KPRINTF_BUF_SIZE)] = count - g_total + 1 + k

\* What the thread looked at is still there, as it was cut, and the last
\* character printed is the one before those to come.
InPrint ==
  /\ g_total <= count
  /\ printer # "print" => lastput = count - g_total
  /\ printer = "print" =>
       /\ low + high <= g_total /\ putout <= low + high
       /\ g_readpos + low <= KPRINTF_BUF_SIZE
       /\ high > 0 => g_readpos + low = KPRINTF_BUF_SIZE
       /\ lastput = count - g_total + putout

PrintInv == PrintTypes /\ PrintPlace /\ LastKept /\ InPrint

\* The ring starts empty, with nothing printed.
LEMMA PrintStart == Printing!Init => PrintInv
<1> SUFFICES ASSUME Printing!Init PROVE PrintInv
  OBVIOUS
<1> KPRINTF_BUF_SIZE \in Nat \ {0} /\ MaxPut \in Nat
  BY ServicesAssumption DEF Printing!SizeAssumption
<1>1. PrintTypes
  BY DEF Printing!Init, PrintTypes
<1>2. PrintPlace /\ InPrint
  <2>1. PrintPlace
    BY DEF Printing!Init, PrintPlace
  <2>2. InPrint
    BY DEF Printing!Init, InPrint
  <2> QED BY <2>1, <2>2
<1>3. LastKept
  BY DEF Printing!Init, LastKept, Around
<1> QED BY <1>1, <1>2, <1>3 DEF PrintInv

\* A step keeps the ring, and a character printed is the next.
LEMMA PrintStep ==
  ASSUME PrintInv, [Printing!Next]_printVars
  PROVE  PrintInv' /\ Printing!InSequence
<1> DEFINE N == KPRINTF_BUF_SIZE
<1> N \in Nat \ {0} /\ MaxPut \in Nat
  BY ServicesAssumption DEF Printing!SizeAssumption
<1> USE DEF PrintInv, Printing!InSequence
<1>1. CASE Printing!PutChar
  <2>1. CASE g_total < N
    <3>1. /\ count < MaxPut /\ count' = count + 1
          /\ g_buf' = [g_buf EXCEPT ![g_writepos] = count + 1]
          /\ g_writepos' = (g_writepos + 1) % N
          /\ g_total' = g_total + 1
          /\ UNCHANGED <<g_readpos, printer, low, high, putout, lastput, ended>>
      BY <1>1, <2>1 DEF Printing!PutChar, Printing!thread
    <3>2. flag' \in BOOLEAN
      BY <1>1 DEF Printing!PutChar, PrintPlace
    <3>3. g_writepos' = Around(g_writepos, 1, N)
      <4>1. Around(g_writepos, 1, N) = (g_writepos + 1) % N
        BY AroundOf DEF PrintTypes
      <4> QED BY <3>1, <4>1
    <3>4. PrintTypes'
      BY <3>1, <3>3, <2>1 DEF PrintTypes, Around
    <3>5. InPrint'
      BY <3>1 DEF InPrint, PrintTypes
    <3>6. g_writepos' = Around(g_readpos', g_total', N)
      BY <3>1, <3>3, <2>1 DEF PrintTypes, LastKept, Around
    <3>7. ASSUME NEW k \in 0 .. N - 1, k < g_total'
          PROVE  g_buf'[Around(g_readpos', k, N)] = count' - g_total' + 1 + k
      <4>1. CASE k = g_total
        BY <3>1, <4>1 DEF PrintTypes, LastKept
      <4>2. CASE k # g_total
        <5>1. k < g_total /\ Around(g_readpos, k, N) # g_writepos
              /\ Around(g_readpos, k, N) \in 0 .. N - 1
          BY <3>1, <3>7, <4>2, <2>1 DEF PrintTypes, LastKept, Around
        <5>2. g_buf[Around(g_readpos, k, N)] = count - g_total + 1 + k
          BY <5>1 DEF LastKept
        <5> QED BY <5>1, <5>2, <3>1 DEF PrintTypes
      <4> QED BY <4>1, <4>2
    <3> QED BY <3>1, <3>2, <3>4, <3>5, <3>6, <3>7 DEF LastKept, PrintPlace
  <2>2. CASE ~(g_total < N)
    BY <1>1, <2>2 DEF Printing!PutChar, Printing!thread, PrintTypes, PrintPlace, LastKept,
                      InPrint, Around
  <2> QED BY <2>1, <2>2
<1>2. CASE Printing!EndString
  BY <1>2 DEF Printing!EndString, Printing!ring, Printing!thread, PrintTypes, PrintPlace,
              LastKept, InPrint
<1>3. CASE Printing!Wait
  BY <1>3 DEF Printing!Wait, Printing!ring, PrintTypes, PrintPlace, LastKept, InPrint
<1>4. CASE Printing!Look
  <2>1. /\ low' = IF N - g_readpos < g_total THEN N - g_readpos ELSE g_total
        /\ high' = g_total - low' /\ putout' = 0 /\ printer = "look" /\ printer' = "print"
        /\ UNCHANGED <<g_buf, g_writepos, g_readpos, g_total, flag, count, lastput, ended>>
    BY <1>4 DEF Printing!Look, Printing!ring
  <2>2. PrintTypes' /\ InPrint'
    BY <2>1 DEF PrintTypes, InPrint
  <2> QED BY <2>1, <2>2 DEF LastKept, PrintPlace
<1>5. CASE Printing!PutOut
  <2>1. /\ printer = "print" /\ putout < low + high
        /\ lastput' = g_buf[Printing!Cell] /\ putout' = putout + 1
        /\ UNCHANGED <<g_buf, g_writepos, g_readpos, g_total, flag, printer, low, high, count,
                       ended>>
    BY <1>5 DEF Printing!PutOut, Printing!ring
  <2>2. Printing!Cell = Around(g_readpos, putout, N)
    BY <2>1 DEF Printing!Cell, Around, PrintTypes, InPrint
  <2>3. putout \in 0 .. N - 1 /\ putout < g_total
    BY <2>1 DEF PrintTypes, InPrint
  <2>4. lastput' = count - g_total + 1 + putout
    BY <2>1, <2>2, <2>3 DEF LastKept
  <2>5. lastput' = lastput + 1
    BY <2>1, <2>4 DEF InPrint, PrintTypes
  <2>6. PrintTypes' /\ InPrint'
    BY <2>1, <2>3, <2>4 DEF PrintTypes, InPrint
  <2> QED BY <2>1, <2>5, <2>6 DEF LastKept, PrintPlace
<1>6. CASE Printing!Free
  <2> DEFINE n == low + high
  <2>1. /\ printer = "print" /\ putout = n /\ printer' = "wait"
        /\ g_total' = g_total - n /\ g_readpos' = (g_readpos + n) % N
        /\ UNCHANGED <<g_buf, g_writepos, flag, low, high, putout, count, lastput, ended>>
    <3>1. (g_readpos + low + high) = g_readpos + n
      BY DEF PrintTypes
    <3> QED BY <1>6, <3>1 DEF Printing!Free
  <2>2. n \in 0 .. g_total
    BY <2>1 DEF InPrint, PrintTypes
  <2>3. g_readpos' = Around(g_readpos, n, N)
    <3>1. n \in 0 .. N /\ g_readpos \in 0 .. N - 1
      BY <2>2 DEF PrintTypes
    <3>2. Around(g_readpos, n, N) = (g_readpos + n) % N
      BY <3>1, AroundOf
    <3> QED BY <2>1, <3>2
  <2>4. PrintTypes' /\ InPrint'
    BY <2>1, <2>2, <2>3 DEF PrintTypes, InPrint, Around
  <2>5. g_writepos' = Around(g_readpos', g_total', N)
    <3>1. g_writepos = Around(g_readpos, g_total, N)
      BY DEF LastKept
    <3>2. n \in Int /\ g_readpos \in 0 .. N - 1 /\ g_total \in 0 .. N /\ n <= g_total /\ 0 <= n
      BY <2>2 DEF PrintTypes
    <3> HIDE DEF n, PrintInv
    <3> QED BY <2>1, <2>3, <3>1, <3>2 DEF Around
  <2>6. ASSUME NEW k \in 0 .. N - 1, k < g_total'
        PROVE  g_buf'[Around(g_readpos', k, N)] = count' - g_total' + 1 + k
    <3>1. n + k \in 0 .. N - 1 /\ n + k < g_total
      BY <2>1, <2>2, <2>6 DEF PrintTypes
    <3>2. Around(g_readpos', k, N) = Around(g_readpos, n + k, N)
      BY <2>1, <2>2, <2>3, <3>1 DEF PrintTypes, Around
    <3>3. g_buf[Around(g_readpos, n + k, N)] = count - g_total + 1 + (n + k)
      BY <3>1 DEF LastKept
    <3> QED BY <2>1, <2>2, <3>2, <3>3 DEF PrintTypes
  <2> QED BY <2>1, <2>4, <2>5, <2>6 DEF LastKept, PrintPlace
<1>7. CASE UNCHANGED printVars
  BY <1>7 DEF printVars, PrintTypes, PrintPlace, LastKept, InPrint
<1> QED BY <1>1, <1>2, <1>3, <1>4, <1>5, <1>6, <1>7 DEF Printing!Next

\* The ring by positions is the ring as the source indexes it.
LEMMA PrintHolds ==
  ASSUME PrintInv
  PROVE  Printing!TypeOK /\ Printing!RingHoldsLast
<1> DEFINE N == KPRINTF_BUF_SIZE
<1> N \in Nat \ {0} /\ MaxPut \in Nat
  BY ServicesAssumption DEF Printing!SizeAssumption
<1>1. Printing!TypeOK
  BY DEF PrintInv, PrintTypes, PrintPlace, Printing!TypeOK
<1>2. ASSUME NEW k \in 0 .. N PROVE (g_readpos + k) % N = Around(g_readpos, k, N)
  BY AroundOf DEF PrintInv, PrintTypes
<1>3. g_writepos = (g_readpos + g_total) % N
  BY <1>2 DEF PrintInv, PrintTypes, LastKept
<1>4. ASSUME NEW k \in 0 .. N - 1, k < g_total
      PROVE  g_buf[(g_readpos + k) % N] = count - g_total + 1 + k
  BY <1>2, <1>4 DEF PrintInv, LastKept
<1> QED BY <1>1, <1>3, <1>4 DEF Printing!RingHoldsLast

\* debugPutchar, printfThread: the ring holds the last g_total characters in
\* order, over every wrap and every full ring, and each character the thread
\* prints is the one after the last it printed, however putting a character
\* interleaves with looking, printing and freeing.
THEOREM PrintsInOrder == Printing!Spec => PrintedInOrder
<1>1. Printing!Init => PrintInv
  BY PrintStart
<1>2. PrintInv /\ [Printing!Next]_printVars => PrintInv' /\ Printing!InSequence
  BY PrintStep
<1>3. PrintInv => Printing!TypeOK /\ Printing!RingHoldsLast
  BY PrintHolds
<1> QED BY <1>1, <1>2, <1>3, PTL DEF Printing!Spec, Printing!vars, printVars, PrintedInOrder

-----------------------------------------------------------------------------
(* Sessions: Session. *)

\* Short sequences.
LEMMA ShortSeqs ==
  ASSUME NEW S, NEW a \in S, NEW b \in S
  PROVE  /\ <<a>> \in Seq(S) /\ Len(<<a>>) = 1 /\ <<a>>[1] = a
         /\ <<a, b>> \in Seq(S) /\ Len(<<a, b>>) = 2 /\ <<a, b>>[1] = a /\ <<a, b>>[2] = b
OBVIOUS

\* What the boot programs hand on.
Strings == STRING \cup {"EBOOT.PBP", "thid"}

\* Their names are strings of that set.
LEMMA Named == "EBOOT.PBP" \in Strings /\ "thid" \in Strings
BY DEF Strings

\* Arguments that are short enough come out of a reboot as they went in: the
\* bootstrap takes its share of the strings, and both parsers their end.
LEMMA ArgsCross ==
  ASSUME NEW f \in STRING, NEW args \in Seq(STRING),
         MAX_ARGS \in Nat, Len(args) + 4 <= MAX_ARGS
  PROVE  Sessions!parse_sceargs(Sessions!Bootstrap(<<"EBOOT.PBP", f>> \o args))
           = [file |-> f, args |-> args, on |-> FALSE]
<1> DEFINE head == <<"EBOOT.PBP", f>>
           strs == head \o args
           n == Len(args)
           got == <<"EBOOT.PBP", "thid">> \o SubSeq(strs, 2, n + 2)
<1>0. args \in Seq(Strings) /\ f \in Strings
  BY SeqMonotonic DEF Strings
<1>1. n \in Nat /\ head \in Seq(Strings) /\ Len(head) = 2
      /\ head[1] = "EBOOT.PBP" /\ head[2] = f
  <2>1. head \in Seq(Strings) /\ Len(head) = 2 /\ head[1] = "EBOOT.PBP" /\ head[2] = f
    BY <1>0, ShortSeqs, Named
  <2>2. QED BY <1>0, <2>1, LenProperties
<1>2. strs \in Seq(Strings) /\ Len(strs) = n + 2 /\ strs[1] = "EBOOT.PBP" /\ strs[2] = f
      /\ \A i \in 1 .. n : strs[i + 2] = args[i]
  <2>1. /\ strs \in Seq(Strings) /\ Len(strs) = Len(head) + Len(args)
        /\ \A i \in 1 .. Len(head) + Len(args) :
             strs[i] = IF i <= Len(head) THEN head[i] ELSE args[i - Len(head)]
    BY <1>0, <1>1, ConcatProperties
  <2> HIDE DEF strs
  <2>2. strs[1] = head[1] /\ strs[2] = head[2]
    BY <2>1, <1>1
  <2>3. ASSUME NEW i \in 1 .. n PROVE strs[i + 2] = args[i]
    <3>1. i + 2 \in 1 .. Len(head) + Len(args) /\ ~(i + 2 <= Len(head)) /\ i + 2 - Len(head) = i
      BY <1>1
    <3> HIDE DEF n
    <3>2. QED BY <2>1, <3>1
  <2>4. QED BY <2>1, <2>2, <2>3, <1>1
<1>3. Sessions!Parsed(strs) = strs
  <2>1. SubSeq(strs, 1, Len(strs)) = strs
    BY <1>2, SubSeqFull
  <2>2. Len(strs) <= MAX_ARGS - 1
    BY <1>1, <1>2
  <2> HIDE DEF strs
  <2>3. QED BY <2>1, <2>2, <1>1, <1>2 DEF Sessions!Parsed
<1> HIDE DEF strs
<1>4. Sessions!Bootstrap(strs) = got
  BY <1>2, <1>3 DEF Sessions!Bootstrap
<1>5. got \in Seq(Strings) /\ Len(got) = n + 3 /\ got[3] = f
      /\ \A i \in 1 .. n : got[i + 3] = args[i]
  <2> DEFINE mid == SubSeq(strs, 2, n + 2)
             lead == <<"EBOOT.PBP", "thid">>
  <2>1. \A i \in 2 .. n + 2 : strs[i] \in Strings
    BY <1>1, <1>2, ElementOfSeq
  <2>2. /\ mid \in Seq(Strings) /\ Len(mid) = IF 2 <= n + 2 THEN n + 2 - 2 + 1 ELSE 0
        /\ \A i \in 1 .. n + 2 - 2 + 1 : mid[i] = strs[2 + i - 1]
    BY <1>1, <2>1, SubSeqProperties
  <2>3. Len(mid) = n + 1 /\ \A i \in 1 .. n + 1 : mid[i] = strs[i + 1]
    BY <1>1, <2>2
  <2> HIDE DEF mid
  <2>4. lead \in Seq(Strings) /\ Len(lead) = 2
    BY <1>0, ShortSeqs, Named
  <2>5. /\ lead \o mid \in Seq(Strings) /\ Len(lead \o mid) = Len(lead) + Len(mid)
        /\ \A i \in 1 .. Len(lead) + Len(mid) :
             (lead \o mid)[i] = IF i <= Len(lead) THEN lead[i] ELSE mid[i - Len(lead)]
    BY <2>2, <2>4, ConcatProperties
  <2>6. got = lead \o mid
    BY DEF mid
  <2> HIDE DEF got, lead
  <2>7. \A i \in 3 .. n + 3 : got[i] = mid[i - 2]
    BY <1>1, <2>3, <2>4, <2>5, <2>6
  <2>8. \A i \in 3 .. n + 3 : got[i] = strs[i - 1]
    <3> SUFFICES ASSUME NEW i \in 3 .. n + 3 PROVE got[i] = strs[i - 1]
      OBVIOUS
    <3>1. got[i] = mid[i - 2] /\ i - 2 \in 1 .. n + 1 /\ (i - 2) + 1 = i - 1
      BY <1>1, <2>7
    <3>2. QED BY <2>3, <3>1
  <2>9. got[3] = f
    <3>1. 3 \in 3 .. n + 3 /\ 3 - 1 = 2
      BY <1>1
    <3>2. QED BY <2>8, <3>1, <1>2
  <2>10. ASSUME NEW i \in 1 .. n PROVE got[i + 3] = args[i]
    <3>1. i + 3 \in 3 .. n + 3 /\ (i + 3) - 1 = i + 2
      BY <1>1
    <3>2. got[i + 3] = strs[i + 2]
      BY <2>8, <3>1
    <3>3. QED BY <1>2, <3>2
  <2>11. QED BY <1>1, <2>3, <2>4, <2>5, <2>6, <2>9, <2>10
<1> HIDE DEF got
<1>6. Sessions!Parsed(got) = got
  <2>1. SubSeq(got, 1, Len(got)) = got
    BY <1>5, SubSeqFull
  <2>2. Len(got) <= MAX_ARGS - 1
    BY <1>1, <1>5
  <2>3. QED BY <2>1, <2>2, <1>1, <1>5 DEF Sessions!Parsed
<1>7. SubSeq(got, 4, Len(got)) = args
  <2> DEFINE rest == SubSeq(got, 4, n + 3)
  <2>1. \A i \in 4 .. n + 3 : got[i] \in Strings
    BY <1>1, <1>5, ElementOfSeq
  <2>2. /\ rest \in Seq(Strings) /\ Len(rest) = IF 4 <= n + 3 THEN n + 3 - 4 + 1 ELSE 0
        /\ \A i \in 1 .. n + 3 - 4 + 1 : rest[i] = got[4 + i - 1]
    BY <1>1, <2>1, SubSeqProperties
  <2> HIDE DEF rest
  <2>3. Len(rest) = n
    BY <1>1, <2>2
  <2>4. ASSUME NEW i \in 1 .. Len(rest) PROVE rest[i] = args[i]
    <3>1. i \in 1 .. n + 3 - 4 + 1 /\ 4 + i - 1 = i + 3 /\ i \in 1 .. n
      BY <1>1, <2>3
    <3>2. QED BY <1>5, <2>2, <3>1
  <2>5. rest = args
    BY <1>0, <2>2, <2>3, <2>4, SeqEqual
  <2>6. QED BY <2>5, <1>5 DEF rest
<1>8. Len(got) > 2
  BY <1>1, <1>5
<1>9. Sessions!parse_sceargs(got) = [file |-> f, args |-> args, on |-> FALSE]
  BY <1>5, <1>6, <1>7, <1>8 DEF Sessions!parse_sceargs
<1>10. QED BY <1>4, <1>9 DEF strs

\* A cold start has no program to resume.
LEMMA NothingCrosses ==
  ASSUME MAX_ARGS \in Nat, 4 <= MAX_ARGS
  PROVE  Sessions!parse_sceargs(Sessions!Bootstrap(<<"EBOOT.PBP">>)) = Sessions!NoExec
<1> DEFINE strs == <<"EBOOT.PBP">>
           got == <<"EBOOT.PBP", "thid">>
<1>1. strs \in Seq(Strings) /\ Len(strs) = 1 /\ strs[1] = "EBOOT.PBP"
  BY ShortSeqs, Named
<1>2. SubSeq(strs, 1, Len(strs)) = strs
  BY <1>1, SubSeqFull
<1>3. SubSeq(strs, 2, Len(strs)) = <<>>
  BY <1>1, SubSeqEmpty
<1> HIDE DEF strs
<1>4. Sessions!Parsed(strs) = strs
  BY <1>1, <1>2 DEF Sessions!Parsed
<1>6. got \in Seq(Strings) /\ Len(got) = 2
  BY ShortSeqs, Named
<1>5. Sessions!Bootstrap(strs) = got
  <2>1. got \o <<>> = got
    BY <1>6, ConcatEmptySeq
  <2>2. QED BY <1>1, <1>3, <1>4, <2>1 DEF Sessions!Bootstrap
<1>7. SubSeq(got, 1, Len(got)) = got
  BY <1>6, SubSeqFull
<1> HIDE DEF got
<1>8. Sessions!Parsed(got) = got
  BY <1>6, <1>7 DEF Sessions!Parsed
<1>9. Sessions!parse_sceargs(got) = Sessions!NoExec
  <2>1. Len(Sessions!Parsed(got)) = 2
    BY <1>6, <1>8
  <2>2. ~(Len(Sessions!Parsed(got)) > 2)
    BY <2>1
  <2>3. QED BY <2>2, Zenon DEF Sessions!parse_sceargs
<1>10. QED BY <1>5, <1>9 DEF strs

Program == Files \cup {None}
ExecType == [file : Program, args : Seq(STRING), on : BOOLEAN]
AskedType == [file : Program, args : Seq(STRING)]
LeftType == [how : {"cold", "reset", "exec"}, dir : Dirs, key : Sessions!Keys]
SavedType == [magic : BOOLEAN, dir : Dirs, key : Sessions!Keys]

\* The types the argument needs, of what a session keeps and of what it leaves.
SessionTypes ==
  /\ phase \in {"boot", "shell", "up"} /\ mode \in Sessions!Keys \cup {"default"}
  /\ dir \in Dirs /\ key \in Sessions!Keys
  /\ script \in {"pending", "done"} /\ settings \in Inis
  /\ saved \in SavedType /\ left \in LeftType
ExecTypes ==
  /\ exec \in ExecType /\ asked \in AskedType /\ started \in Nat
  /\ resets \in BOOLEAN /\ early \in BOOLEAN

\* A startup script runs a program there is.
ScriptNamed == script = "pending" => settings.startsh \in Files

\* While the PSP reboots, SAVED_ADDR holds what the session that was reset
\* left, and nothing else does; otherwise it is spent.
SavedIsLeft ==
  /\ phase # "boot" => ~saved.magic
  /\ phase = "boot" /\ left.how = "reset" =>
       saved = [magic |-> TRUE, dir |-> left.dir, key |-> left.key] /\ mode = left.key
  /\ phase = "boot" /\ left.how # "reset" => ~saved.magic

\* While the PSP reboots for exec, the boot arguments hold what it was given;
\* they are none otherwise.
ArgsAreAsked ==
  /\ Len(asked.args) + 4 <= MAX_ARGS
  /\ phase = "boot" /\ left.how = "exec" =>
       asked.file \in Files /\ argp = <<"EBOOT.PBP", asked.file>> \o asked.args
  /\ phase = "boot" /\ left.how # "exec" => argp = <<"EBOOT.PBP">>

\* A program in the session, or about to be, is the one exec was last given.
ExecIsAsked ==
  /\ phase # "boot" /\ exec.file # None => exec.file = asked.file /\ exec.args = asked.args
  /\ phase # "boot" /\ exec.on => exec.file # None

\* Unless exec came early, no program was started until the session has one.
OnceAtMost ==
  ~early => /\ started <= 1
            /\ phase # "boot" /\ ~exec.on => started = 0
            /\ phase = "shell" => ~exec.on

SessionInv == /\ SessionTypes /\ ExecTypes /\ ScriptNamed /\ SavedIsLeft /\ ArgsAreAsked
              /\ ExecIsAsked /\ OnceAtMost

\* A cold start.
LEMMA SessionStart ==
  ASSUME ArgsFit, Sessions!Init
  PROVE  SessionInv
<1> USE DEF Sessions!Init, ArgsFit
<1>1. /\ MAX_ARGS \in Nat /\ InitDir \in Dirs
  BY ServicesAssumption DEF Sessions!SessionAssumption
<1>2. <<>> \in Seq(STRING) /\ Len(<<>>) = 0
  BY EmptySeq
<1>3. SessionTypes
  BY <1>1 DEF SessionTypes, SavedType, LeftType, Sessions!Keys
<1>4. ExecTypes
  BY <1>2 DEF ExecTypes, ExecType, AskedType, Program, Sessions!NoExec
<1>5. ScriptNamed /\ SavedIsLeft
  BY DEF ScriptNamed, SavedIsLeft
<1>6. ArgsAreAsked
  BY <1>1, <1>2 DEF ArgsAreAsked, Sessions!BootFile
<1>7. ExecIsAsked /\ OnceAtMost
  BY DEF ExecIsAsked, OnceAtMost, Sessions!NoExec
<1>8. QED BY <1>3, <1>4, <1>5, <1>6, <1>7 DEF SessionInv

\* What exec is given.
LEMMA ExecGiven ==
  ASSUME ArgsFit, NEW file \in Program, NEW args \in Seq(STRING), Len(args) + 4 <= MAX_ARGS
  PROVE  /\ [file |-> file, args |-> args] \in AskedType
         /\ [file |-> file, args |-> args, on |-> TRUE] \in ExecType
BY DEF AskedType, ExecType

\* exec with no program loaded: the program is loaded into this session.
LEMMA ExecLoadStep ==
  ASSUME ArgsFit, SessionInv, phase # "boot",
         NEW file \in Files, NEW args \in Seq(STRING), Len(args) + 4 <= MAX_ARGS,
         Sessions!ExecLoad(file, args), script' \in {"done"}
  PROVE  SessionInv'
<1> USE DEF SessionInv
<1>1. /\ ~exec.on /\ asked' = [file |-> file, args |-> args]
      /\ exec' = [file |-> file, args |-> args, on |-> TRUE]
      /\ started' = started + 1 /\ early' = (early \/ phase = "shell")
      /\ UNCHANGED <<phase, mode, saved, argp, dir, key, resets, settings, left, boots>>
  BY DEF Sessions!ExecLoad
<1>2. SessionTypes' /\ ScriptNamed' /\ SavedIsLeft'
  BY <1>1 DEF SessionTypes, ScriptNamed, SavedIsLeft
<1>3. ExecTypes'
  <2>1. asked' \in AskedType /\ exec' \in ExecType
    BY <1>1, ExecGiven DEF Program
  <2>2. started' \in Nat /\ resets' \in BOOLEAN
    BY <1>1 DEF ExecTypes
  <2>3. early' \in BOOLEAN
    BY <1>1 DEF ExecTypes
  <2>4. QED BY <2>1, <2>2, <2>3 DEF ExecTypes
<1>4. ArgsAreAsked'
  BY <1>1 DEF ArgsAreAsked
<1>5. ExecIsAsked'
  <2>1. None \notin Files
    BY ServicesAssumption DEF Sessions!SessionAssumption
  <2>2. QED BY <1>1, <2>1 DEF ExecIsAsked
<1>6. OnceAtMost'
  <2>1. ~early' => ~early /\ phase # "shell"
    BY <1>1
  <2>2. ~early => started = 0
    BY <1>1 DEF OnceAtMost
  <2>3. exec'.on = TRUE /\ phase' = phase /\ started' = started + 1
    BY <1>1
  <2>4. QED BY <2>1, <2>2, <2>3 DEF OnceAtMost
<1>7. QED BY <1>2, <1>3, <1>4, <1>5, <1>6

\* exec with a program loaded: the PSP reboots with the program and its arguments
\* in the boot arguments.
LEMMA ExecRebootStep ==
  ASSUME ArgsFit, SessionInv, phase # "boot",
         NEW file \in Files, NEW args \in Seq(STRING), Len(args) + 4 <= MAX_ARGS,
         Sessions!ExecReboot(file, args), script' \in {"done"}
  PROVE  SessionInv'
<1> USE DEF SessionInv
<1>1. /\ exec.on /\ asked' = [file |-> file, args |-> args]
      /\ phase' = "boot" /\ mode' = "default"
      /\ argp' = <<"EBOOT.PBP", file>> \o args
      /\ left' = [how |-> "exec", dir |-> dir, key |-> key]
      /\ UNCHANGED <<saved, key, dir, exec, resets, settings, early, started>>
  BY DEF Sessions!ExecReboot, Sessions!LoadExec, Sessions!BootFile
<1>2. SessionTypes' /\ ScriptNamed' /\ SavedIsLeft'
  BY <1>1 DEF SessionTypes, ScriptNamed, SavedIsLeft, LeftType
<1>3. ExecTypes'
  <2>1. asked' \in AskedType
    BY <1>1, ExecGiven DEF Program
  <2>2. QED BY <1>1, <2>1 DEF ExecTypes
<1>4. ArgsAreAsked'
  BY <1>1 DEF ArgsAreAsked
<1>5. ExecIsAsked' /\ OnceAtMost'
  BY <1>1 DEF ExecIsAsked, OnceAtMost
<1>6. QED BY <1>2, <1>3, <1>4, <1>5

\* A reset leaves the directory and the key at SAVED_ADDR and no program.
LEMMA ResetStep ==
  ASSUME SessionInv, phase # "boot", NEW k \in Sessions!Keys, Sessions!psplinkReset(k)
  PROVE  SessionInv'
<1> USE DEF SessionInv
<1>1. /\ key' = k /\ saved' = [magic |-> TRUE, dir |-> dir, key |-> k]
      /\ phase' = "boot" /\ mode' = k /\ argp' = <<"EBOOT.PBP">>
      /\ left' = [how |-> "reset", dir |-> dir, key |-> k]
      /\ UNCHANGED <<asked, script, dir, exec, resets, settings, early, started>>
  BY DEF Sessions!psplinkReset, Sessions!LoadExec, Sessions!BootFile
<1>2. SessionTypes' /\ ScriptNamed' /\ SavedIsLeft'
  BY <1>1 DEF SessionTypes, ScriptNamed, SavedIsLeft, LeftType, SavedType
<1>3. ExecTypes' /\ ArgsAreAsked'
  BY <1>1 DEF ExecTypes, ArgsAreAsked
<1>4. ExecIsAsked' /\ OnceAtMost'
  BY <1>1 DEF ExecIsAsked, OnceAtMost
<1>5. QED BY <1>2, <1>3, <1>4

\* main_thread: what the last session left is taken up, and SAVED_ADDR is spent.
LEMMA StartStep ==
  ASSUME ArgsFit, SessionInv, Sessions!Start
  PROVE  SessionInv' /\ Sessions!StartsInPlace
<1> USE DEF SessionInv
<1> DEFINE parsed == Sessions!parse_sceargs(Sessions!Bootstrap(argp))
<1>1. /\ phase = "boot" /\ phase' = "shell"
      /\ exec' = parsed
      /\ dir' = IF saved.magic THEN saved.dir ELSE InitDir
      /\ key' = IF saved.magic THEN saved.key ELSE "game"
      /\ saved' = [saved EXCEPT !.magic = FALSE]
      /\ started' = 0
      /\ settings' \in Inis
      /\ script' = IF settings'.startsh = None THEN "done" ELSE "pending"
      /\ UNCHANGED <<mode, argp, asked, left, boots>>
  BY DEF Sessions!Start
<1>2. resets' = FALSE /\ early' = FALSE
  BY DEF Sessions!Start
<1>3. /\ MAX_ARGS \in Nat /\ InitDir \in Dirs
      /\ Inis \subseteq [startsh : Program, resetonexit : BOOLEAN] /\ Files \subseteq STRING
      /\ None \notin Files
  BY ServicesAssumption DEF Sessions!SessionAssumption, Program
<1>4. /\ parsed.on = FALSE /\ parsed \in ExecType
      /\ parsed.file # None => parsed.file = asked.file /\ parsed.args = asked.args
  <2>1. CASE left.how = "exec"
    <3>1. asked.file \in STRING /\ asked.args \in Seq(STRING) /\ Len(asked.args) + 4 <= MAX_ARGS
          /\ argp = <<"EBOOT.PBP", asked.file>> \o asked.args /\ asked.file \in Program
      BY <1>1, <1>3, <2>1 DEF ArgsAreAsked, ExecTypes, AskedType
    <3>2. parsed = [file |-> asked.file, args |-> asked.args, on |-> FALSE]
      BY <1>3, <3>1, ArgsCross
    <3>3. [file |-> asked.file, args |-> asked.args, on |-> FALSE] \in ExecType
      BY <3>1 DEF ExecType
    <3> HIDE DEF parsed
    <3>4. QED BY <3>2, <3>3
  <2>2. CASE left.how # "exec"
    <3>1. parsed = [file |-> None, args |-> <<>>, on |-> FALSE]
      BY <1>1, <1>3, <2>2, NothingCrosses DEF ArgsFit, ArgsAreAsked, Sessions!NoExec
    <3>2. <<>> \in Seq(STRING)
      BY EmptySeq
    <3>3. QED BY <3>1, <3>2 DEF ExecType, Program
  <2>3. QED BY <2>1, <2>2
<1> HIDE DEF parsed
<1>5. SessionTypes'
  BY <1>1, <1>3 DEF SessionTypes, SavedType, Sessions!Keys
<1>6. ExecTypes'
  <2>1. exec' \in ExecType /\ asked' \in AskedType /\ started' \in Nat
    BY <1>1, <1>4 DEF ExecTypes
  <2>2. QED BY <1>2, <2>1 DEF ExecTypes
<1>7. ScriptNamed'
  BY <1>1, <1>3 DEF ScriptNamed, Program
<1>8. SavedIsLeft' /\ Sessions!StartsInPlace
  BY <1>1 DEF SavedIsLeft, SessionTypes, SavedType, LeftType, Sessions!StartsInPlace
<1>9. ArgsAreAsked'
  BY <1>1 DEF ArgsAreAsked
<1>10. ExecIsAsked' /\ OnceAtMost'
  BY <1>1, <1>4 DEF ExecIsAsked, OnceAtMost
<1>11. QED BY <1>5, <1>6, <1>7, <1>8, <1>9, <1>10

\* The end of initialise: the program the boot arguments named is loaded.
LEMMA FinishStep ==
  ASSUME SessionInv, Sessions!Finish
  PROVE  SessionInv'
<1> USE DEF SessionInv
<1>1. /\ phase = "shell" /\ phase' = "up"
      /\ UNCHANGED <<mode, saved, argp, dir, key, settings, script, early, asked, left>>
  BY DEF Sessions!Finish
<1>2. resets' \in BOOLEAN
  <2>1. settings.resetonexit \in BOOLEAN
    BY ServicesAssumption DEF SessionTypes, Sessions!SessionAssumption
  <2>2. QED BY <2>1 DEF Sessions!Finish
<1>3. SessionTypes' /\ ScriptNamed' /\ SavedIsLeft' /\ ArgsAreAsked'
  BY <1>1 DEF SessionTypes, ScriptNamed, SavedIsLeft, ArgsAreAsked
<1>4. CASE UNCHANGED <<exec, started>>
  BY <1>1, <1>2, <1>3, <1>4 DEF ExecTypes, ExecIsAsked, OnceAtMost
<1>5. CASE /\ exec.file # None /\ exec' = [exec EXCEPT !.on = TRUE] /\ started' = started + 1
  <2>1. exec' \in ExecType /\ exec'.file = exec.file /\ exec'.args = exec.args /\ exec'.on = TRUE
    BY <1>5 DEF ExecTypes, ExecType
  <2>2. ExecTypes'
    BY <1>1, <1>2, <1>5, <2>1 DEF ExecTypes
  <2>3. ExecIsAsked'
    BY <1>1, <1>5, <2>1 DEF ExecIsAsked
  <2>4. OnceAtMost'
    BY <1>1, <1>5, <2>1 DEF OnceAtMost, ExecTypes
  <2>5. QED BY <1>3, <2>2, <2>3, <2>4
<1>6. QED BY <1>4, <1>5 DEF Sessions!Finish

\* A step keeps what sessions hand on, and a session starts where it should.
LEMMA SessionStep ==
  ASSUME ArgsFit, SessionInv, [Sessions!Next]_sessionVars
  PROVE  SessionInv' /\ [Sessions!StartsInPlace]_sessionVars
<1>0. /\ Files \subseteq STRING /\ ArgLists \subseteq Seq(STRING)
  BY ServicesAssumption DEF Sessions!SessionAssumption
<1>1. CASE Sessions!Start
  BY <1>1, StartStep
<1>2. CASE Sessions!Finish
  <2>1. phase # "boot"
    BY <1>2 DEF Sessions!Finish
  <2>2. QED BY <1>2, <2>1, FinishStep DEF Sessions!StartsInPlace
<1>3. CASE Sessions!Script
  <2>1. phase # "boot" /\ settings.startsh \in Files /\ script' = "done"
    BY <1>3 DEF Sessions!Script, Sessions!Ready, SessionInv, ScriptNamed
  <2>2. <<>> \in Seq(STRING) /\ Len(<<>>) + 4 <= MAX_ARGS
    BY EmptySeq DEF ArgsFit
  <2>3. SessionInv'
    BY <1>3, <2>1, <2>2, ExecLoadStep, ExecRebootStep DEF Sessions!Script
  <2>4. QED BY <2>1, <2>3 DEF Sessions!StartsInPlace
<1>4. CASE Sessions!exec_cmd
  <2>1. phase # "boot" /\ script = "done" /\ script' = "done"
    BY <1>4 DEF Sessions!exec_cmd, Sessions!Ready
  <2>2. CASE \E file \in Files, args \in ArgLists :
               Sessions!ExecReboot(file, args) \/ Sessions!ExecLoad(file, args)
    <3>1. PICK file \in Files, args \in ArgLists :
            Sessions!ExecReboot(file, args) \/ Sessions!ExecLoad(file, args)
      BY <2>2
    <3>2. args \in Seq(STRING) /\ Len(args) + 4 <= MAX_ARGS
      BY <1>0 DEF ArgsFit
    <3>3. QED BY <2>1, <3>1, <3>2, ExecLoadStep, ExecRebootStep DEF Sessions!StartsInPlace
  <2>3. CASE exec.on /\ Sessions!ExecReboot(exec.file, exec.args)
    <3>1. exec.file \in Files /\ exec.args \in Seq(STRING)
      BY <2>1, <2>3 DEF SessionInv, ExecTypes, ExecType, ExecIsAsked, Program
    <3>2. Len(exec.args) + 4 <= MAX_ARGS
      BY <2>1, <2>3 DEF SessionInv, ExecIsAsked, ArgsAreAsked
    <3>3. QED BY <2>1, <2>3, <3>1, <3>2, ExecRebootStep DEF Sessions!StartsInPlace
  <2>4. QED BY <1>4, <2>2, <2>3 DEF Sessions!exec_cmd
<1>5. CASE Sessions!exit_reset
  <2>1. phase # "boot" /\ key \in Sessions!Keys /\ Sessions!psplinkReset(key)
    BY <1>5 DEF Sessions!exit_reset, SessionInv, SessionTypes
  <2>2. QED BY <2>1, ResetStep DEF Sessions!StartsInPlace
<1>6. ASSUME NEW d \in Dirs, Sessions!chdir_cmd(d)
      PROVE  SessionInv' /\ [Sessions!StartsInPlace]_sessionVars
  <2>1. /\ phase # "boot" /\ dir' = d
        /\ UNCHANGED <<phase, mode, saved, argp, key, exec, resets, settings, script, early,
                       started, asked, left>>
    BY <1>6 DEF Sessions!chdir_cmd, Sessions!Ready
  <2>2. SessionTypes' /\ ExecTypes'
    BY <2>1 DEF SessionInv, SessionTypes, ExecTypes
  <2>3. ScriptNamed' /\ SavedIsLeft' /\ ArgsAreAsked' /\ ExecIsAsked' /\ OnceAtMost'
    BY <2>1 DEF SessionInv, ScriptNamed, SavedIsLeft, ArgsAreAsked, ExecIsAsked, OnceAtMost
  <2>4. QED BY <2>1, <2>2, <2>3 DEF SessionInv, Sessions!StartsInPlace
<1>7. ASSUME NEW k \in Sessions!Keys, Sessions!reset_cmd(k)
      PROVE  SessionInv' /\ [Sessions!StartsInPlace]_sessionVars
  <2>1. phase # "boot" /\ Sessions!psplinkReset(k)
    BY <1>7 DEF Sessions!reset_cmd, Sessions!Ready
  <2>2. QED BY <2>1, ResetStep DEF Sessions!StartsInPlace
<1>8. CASE UNCHANGED sessionVars
  <2>1. SessionTypes' /\ ExecTypes'
    BY <1>8 DEF SessionInv, SessionTypes, ExecTypes, sessionVars
  <2>2. ScriptNamed' /\ SavedIsLeft' /\ ArgsAreAsked' /\ ExecIsAsked' /\ OnceAtMost'
    BY <1>8 DEF SessionInv, ScriptNamed, SavedIsLeft, ArgsAreAsked, ExecIsAsked, OnceAtMost,
                sessionVars
  <2>3. QED BY <1>8, <2>1, <2>2 DEF SessionInv
<1>9. QED BY <1>1, <1>2, <1>3, <1>4, <1>5, <1>6, <1>7, <1>8 DEF Sessions!Next

\* main_thread, psplinkReset, exec_cmd, exit_reset: a session that follows a reset
\* starts in the directory and the mode of the one it ended, a session that
\* follows exec starts the program exec was given with its arguments, and unless
\* exec comes before initialise is through no session starts two programs, for
\* argument lists that fit both argument arrays (ArgsFit).
THEOREM SessionsDoResume ==
  ASSUME ArgsFit
  PROVE  Sessions!Spec => SessionsResume
<1>1. Sessions!Init => SessionInv
  BY SessionStart
<1>2. SessionInv /\ [Sessions!Next]_sessionVars
        => SessionInv' /\ [Sessions!StartsInPlace]_sessionVars
  BY SessionStep
<1>3. SessionInv => Sessions!TypeOK /\ Sessions!ExecReuses /\ Sessions!OneExecPerSession
  <2>1. SessionInv => Sessions!TypeOK
    <3> SUFFICES ASSUME SessionInv PROVE Sessions!TypeOK
      OBVIOUS
    <3>1. exec.file \in Files \cup {None} /\ exec.on \in BOOLEAN
      BY DEF SessionInv, ExecTypes, ExecType, Program
    <3>2. saved \in [magic : BOOLEAN, dir : Dirs, key : Sessions!Keys]
      BY DEF SessionInv, SessionTypes, SavedType
    <3>3. QED BY <3>1, <3>2 DEF SessionInv, SessionTypes, ExecTypes, Sessions!TypeOK
  <2>2. SessionInv => Sessions!ExecReuses
    BY DEF SessionInv, ExecIsAsked, Sessions!ExecReuses
  <2>3. SessionInv => Sessions!OneExecPerSession
    BY DEF SessionInv, OnceAtMost, Sessions!OneExecPerSession
  <2>4. QED BY <2>1, <2>2, <2>3
<1>4. QED BY <1>1, <1>2, <1>3, PTL DEF Sessions!Spec, Sessions!vars, sessionVars, SessionsResume

-----------------------------------------------------------------------------
(* Symbols: Symbols. *)

Tables == Seq([name : STRING, addr : Nat, size : Nat])
GoodFiles == {f \in SymFiles : f.good}

\* Every module is somewhere or nowhere, no two at one place, and where its
\* symbols that have an address of their own fit; the list has good files only.
SymTypes ==
  /\ base \in [SymNames!Mods -> Bases \cup {0}] /\ symloads \in Nat
  /\ files \in Seq(GoodFiles) /\ Len(files) <= symloads
OnePlaceEach ==
  \A m, n \in SymNames!Mods : m # n /\ base[m] # 0 => base[m] # base[n]
SymbolsFit ==
  \A m \in SymNames!Mods, f \in SymFiles :
    base[m] # 0 /\ f.mod = m => SymNames!Fits(f.syms, base[m])
SymInv == SymTypes /\ OnePlaceEach /\ SymbolsFit

\* What the constants are.
LEMMA SymbolConstants ==
  /\ Bases \subseteq Nat /\ 0 \notin Bases /\ ModuleSize \in Nat /\ AbsFrom \in Nat
  /\ \A b \in Bases : b >= AbsFrom
  /\ \A b, c \in Bases : b # c => b + ModuleSize <= c \/ c + ModuleSize <= b
  /\ \A f \in SymFiles : f.good \in BOOLEAN /\ f.syms \in Tables
BY ServicesAssumption DEF SymNames!SymbolsAssumption, Tables

\* A symbol of a table is one.
LEMMA SymbolOfTable ==
  ASSUME NEW syms \in Tables, NEW i \in 1 .. Len(syms)
  PROVE  /\ syms[i] \in [name : STRING, addr : Nat, size : Nat]
         /\ syms[i].addr \in Nat /\ syms[i].size \in Nat
<1> DEFINE Entry == [name : STRING, addr : Nat, size : Nat]
<1>1. syms \in Seq(Entry)
  BY DEF Tables
<1>2. \A e \in Entry : e.addr \in Nat /\ e.size \in Nat
  OBVIOUS
<1> HIDE DEF Entry
<1>3. syms[i] \in Entry
  BY <1>1, ElementOfSeq
<1>4. syms[i].addr \in Nat /\ syms[i].size \in Nat
  BY <1>2, <1>3
<1>5. QED BY <1>3, <1>4 DEF Entry

\* No module is loaded at first.
LEMMA SymbolsStart == SymNames!Init => SymInv
BY EmptySeq DEF SymNames!Init, SymInv, SymTypes, OnePlaceEach, SymbolsFit

\* Modules come and go, files are added.
LEMMA SymbolsStep ==
  ASSUME SymInv, [SymNames!Next]_symbolVars
  PROVE  SymInv'
<1>1. ASSUME NEW m \in SymNames!Mods, NEW b \in Bases, SymNames!LoadModule(m, b)
      PROVE  SymInv'
  <2>1. /\ base' = [base EXCEPT ![m] = b] /\ UNCHANGED <<files, symloads>>
        /\ \A n \in SymNames!Mods : base[n] # b
        /\ \A f \in SymFiles : f.mod = m => SymNames!Fits(f.syms, b)
    BY <1>1 DEF SymNames!LoadModule
  <2>2. SymTypes'
    BY <2>1 DEF SymInv, SymTypes
  <2>3. OnePlaceEach'
    BY <2>1 DEF SymInv, SymTypes, OnePlaceEach
  <2>4. SymbolsFit'
    BY <2>1 DEF SymInv, SymTypes, SymbolsFit
  <2>5. QED BY <2>2, <2>3, <2>4 DEF SymInv
<1>2. ASSUME NEW m \in SymNames!Mods, SymNames!UnloadModule(m)
      PROVE  SymInv'
  <2>1. base' = [base EXCEPT ![m] = 0] /\ UNCHANGED <<files, symloads>>
    BY <1>2 DEF SymNames!UnloadModule
  <2>2. SymTypes'
    BY <2>1 DEF SymInv, SymTypes
  <2>3. OnePlaceEach' /\ SymbolsFit'
    BY <2>1 DEF SymInv, SymTypes, OnePlaceEach, SymbolsFit
  <2>4. QED BY <2>2, <2>3 DEF SymInv
<1>3. ASSUME NEW f \in SymFiles, SymNames!symbolLoadSymbols(f)
      PROVE  SymInv'
  <2>1. /\ symloads' = symloads + 1 /\ UNCHANGED base
        /\ files' = IF f.good THEN Append(files, f) ELSE files
    BY <1>3 DEF SymNames!symbolLoadSymbols
  <2>2. files' \in Seq(GoodFiles) /\ Len(files') <= symloads'
    <3>1. CASE f.good
      <4>1. f \in GoodFiles /\ files \in Seq(GoodFiles) /\ files' = Append(files, f)
        BY <2>1, <3>1 DEF SymInv, SymTypes, GoodFiles
      <4>2. files' \in Seq(GoodFiles) /\ Len(files') = Len(files) + 1
        BY <4>1, AppendProperties
      <4>3. QED BY <2>1, <4>2, LenProperties DEF SymInv, SymTypes
    <3>2. CASE ~f.good
      BY <2>1, <3>2, LenProperties DEF SymInv, SymTypes
    <3>3. QED BY <3>1, <3>2
  <2>3. QED BY <2>1, <2>2 DEF SymInv, SymTypes, OnePlaceEach, SymbolsFit
<1>4. CASE UNCHANGED symbolVars
  BY <1>4 DEF symbolVars, SymInv, SymTypes, OnePlaceEach, SymbolsFit
<1>5. QED BY <1>1, <1>2, <1>3, <1>4 DEF SymNames!Next

\* The least of one is that one, and the least of some is one of them.
LEMMA LeastOf ==
  /\ \A i \in Nat : SymNames!Min({i}) = i
  /\ \A S \in SUBSET Nat : S # {} => SymNames!Min(S) \in S
<1>1. ASSUME NEW i \in Nat PROVE SymNames!Min({i}) = i
  BY DEF SymNames!Min
<1>2. ASSUME NEW S \in SUBSET Nat, S # {} PROVE SymNames!Min(S) \in S
  <2>1. \E m \in S : \A k \in S : m <= k
    BY <1>2, LeastIn
  <2>2. QED BY <2>1 DEF SymNames!Min
<1>3. QED BY <1>1, <1>2

\* The symbols of a module in order: what FilesInOrder says of one that fits.
Orderly(syms, b) ==
  /\ syms \in Tables
  /\ \A i, j \in DOMAIN syms : syms[i].name = syms[j].name => i = j
  /\ SymNames!Fits(syms, b) /\ SymNames!Apart(syms, b)

\* What is looked up in for a module that is loaded is in order.
LEMMA FoundOrderly ==
  ASSUME SymNames!FilesInOrder, SymInv, NEW m \in SymNames!Mods, base[m] # 0
  PROVE  base[m] \in Bases /\ Orderly(SymNames!find_symbolfile(m), base[m])
<1> DEFINE of == {i \in DOMAIN files : files[i].mod = m}
<1>0. base[m] \in Bases
  BY DEF SymInv, SymTypes
<1>1. CASE of = {}
  <2>1. SymNames!find_symbolfile(m) = <<>>
    BY <1>1 DEF SymNames!find_symbolfile
  <2>2. <<>> \in Tables /\ DOMAIN <<>> = {} /\ Len(<<>>) = 0
    BY EmptySeq DEF Tables
  <2>3. QED BY <1>0, <2>1, <2>2 DEF Orderly, SymNames!Fits, SymNames!Apart
<1>2. CASE of # {}
  <2>1. of \in SUBSET Nat /\ DOMAIN files = 1 .. Len(files)
    BY LenProperties DEF SymInv, SymTypes
  <2>2. SymNames!Min(of) \in of
    BY <1>2, <2>1, LeastOf
  <2>3. PICK i \in DOMAIN files : files[i].mod = m /\ i = SymNames!Min(of)
    BY <2>2
  <2>4. SymNames!find_symbolfile(m) = files[i].syms
    BY <1>2, <2>3 DEF SymNames!find_symbolfile
  <2>5. files[i] \in GoodFiles
    BY <2>1, ElementOfSeq DEF SymInv, SymTypes
  <2>6. files[i] \in SymFiles /\ files[i].good
    BY <2>5 DEF GoodFiles
  <2>7. SymNames!Fits(files[i].syms, base[m])
    BY <2>3, <2>6 DEF SymInv, SymbolsFit
  <2>8. files[i].syms \in Tables
    BY <2>6, SymbolConstants
  <2>9. QED BY <1>0, <2>4, <2>6, <2>7, <2>8 DEF Orderly, SymNames!FilesInOrder
<1>3. QED BY <1>1, <1>2

\* A symbol's range is in its module, and is the range the lookup compares with.
LEMMA Ranges ==
  ASSUME NEW b \in Bases, NEW syms, Orderly(syms, b), NEW i \in DOMAIN syms
  PROVE  /\ SymNames!Bottom(syms[i], b) \in Nat /\ syms[i].size \in Nat /\ i \in Nat
         /\ b <= SymNames!Bottom(syms[i], b)
         /\ SymNames!Bottom(syms[i], b) + syms[i].size <= b + ModuleSize
         /\ syms[i].size > 0
              => SymNames!Top(syms, i, b) = SymNames!Bottom(syms[i], b) + syms[i].size
         /\ syms[i].size = 0 => /\ SymNames!Top(syms, i, b) \in Nat
                                /\ SymNames!Top(syms, i, b) <= SymNames!Bottom(syms[i], b)
<1>1. /\ b \in Nat /\ AbsFrom \in Nat /\ b >= AbsFrom /\ syms \in Tables
      /\ DOMAIN syms = 1 .. Len(syms) /\ Len(syms) \in Nat
  BY SymbolConstants, LenProperties DEF Orderly, Tables
<1>2. syms[i].addr \in Nat /\ syms[i].size \in Nat /\ i \in Nat
  <2>1. syms[i] \in [name : STRING, addr : Nat, size : Nat]
    BY <1>1, ElementOfSeq DEF Tables
  <2>2. QED BY <1>1, <2>1
<1>3. SymNames!Bottom(syms[i], b) \in Nat /\ b <= SymNames!Bottom(syms[i], b)
  BY <1>1, <1>2 DEF Orderly, SymNames!Fits, SymNames!Bottom
<1>4. SymNames!Bottom(syms[i], b) + syms[i].size <= b + ModuleSize
  BY DEF Orderly, SymNames!Apart
<1>5. syms[i].size > 0
        => SymNames!Top(syms, i, b) = SymNames!Bottom(syms[i], b) + syms[i].size
  BY <1>2 DEF SymNames!Top
<1>6. ASSUME syms[i].size = 0
      PROVE  /\ SymNames!Top(syms, i, b) \in Nat
             /\ SymNames!Top(syms, i, b) <= SymNames!Bottom(syms[i], b)
  <2>1. CASE i < Len(syms)
    <3>1. i \in 1 .. Len(syms) - 1 /\ i + 1 \in 1 .. Len(syms)
      BY <1>1, <2>1
    <3>2. syms[i + 1].addr \in Nat
      BY <1>1, <3>1, SymbolOfTable
    <3>3. SymNames!Top(syms, i, b) \in Nat
      BY <1>6, <2>1, <3>2 DEF SymNames!Top
    <3>4. QED BY <1>6, <3>1, <3>3 DEF Orderly, SymNames!Apart
  <2>2. CASE ~(i < Len(syms))
    BY <1>3, <1>6, <2>2 DEF SymNames!Top
  <2>3. QED BY <2>1, <2>2
<1>7. QED BY <1>2, <1>3, <1>4, <1>5, <1>6

\* Around an address in a symbol with a size is that symbol only, and what is
\* around an address has a size that reaches over it.
LEMMA AroundOne ==
  ASSUME NEW b \in Bases, NEW syms, Orderly(syms, b), NEW addr \in Int, NEW i \in DOMAIN syms,
         SymNames!Bottom(syms[i], b) <= addr,
         addr < SymNames!Bottom(syms[i], b) + syms[i].size
  PROVE  SymNames!Around(syms, addr, b) = {i}
<1>0. b \in Nat /\ ModuleSize \in Nat
  BY SymbolConstants
<1>1. syms[i].size > 0
  BY Ranges
<1>2. i \in SymNames!Around(syms, addr, b)
  BY <1>1, Ranges DEF SymNames!Around
<1>3. ASSUME NEW j \in SymNames!Around(syms, addr, b), j # i PROVE FALSE
  <2>1. /\ j \in DOMAIN syms /\ SymNames!Bottom(syms[j], b) <= addr
        /\ addr < SymNames!Top(syms, j, b)
    BY <1>3 DEF SymNames!Around
  <2>2. syms[j].size > 0 /\ addr < SymNames!Bottom(syms[j], b) + syms[j].size
    <3>1. syms[j].size # 0
      <4> SUFFICES ASSUME syms[j].size = 0 PROVE FALSE
        OBVIOUS
      <4>1. /\ SymNames!Top(syms, j, b) \in Nat
            /\ SymNames!Top(syms, j, b) <= SymNames!Bottom(syms[j], b)
        BY <2>1, Ranges
      <4>2. QED BY <2>1, <4>1, Ranges
    <3>2. QED BY <2>1, <3>1, Ranges
  <2>3. \/ SymNames!Bottom(syms[i], b) + syms[i].size <= SymNames!Bottom(syms[j], b)
        \/ SymNames!Bottom(syms[j], b) + syms[j].size <= SymNames!Bottom(syms[i], b)
    BY <1>1, <1>3, <2>1, <2>2 DEF Orderly, SymNames!Apart
  <2>4. QED BY <2>1, <2>2, <2>3, Ranges
<1>4. QED BY <1>2, <1>3
\* What is around an address has a size that reaches over it.
LEMMA AroundReaches ==
  ASSUME NEW b \in Bases, NEW syms, Orderly(syms, b), NEW addr \in Int,
         NEW i \in SymNames!Around(syms, addr, b)
  PROVE  /\ i \in DOMAIN syms /\ SymNames!Bottom(syms[i], b) <= addr
         /\ addr < SymNames!Bottom(syms[i], b) + syms[i].size
<1>1. /\ i \in DOMAIN syms /\ SymNames!Bottom(syms[i], b) <= addr
      /\ addr < SymNames!Top(syms, i, b)
  BY DEF SymNames!Around
<1>2. syms[i].size # 0
  BY <1>1, Ranges
<1>3. QED BY <1>1, <1>2, Ranges

\* The lookup finds the module an address is in and, if the address is in one of
\* its symbols, that symbol with its offset.
LEMMA AddressFound ==
  ASSUME SymNames!FilesInOrder, SymInv, NEW m \in SymNames!Mods, base[m] # 0,
         NEW i \in DOMAIN SymNames!find_symbolfile(m), NEW addr \in Int,
         SymNames!Bottom(SymNames!find_symbolfile(m)[i], base[m]) <= addr,
         addr < SymNames!Bottom(SymNames!find_symbolfile(m)[i], base[m])
                  + SymNames!find_symbolfile(m)[i].size
  PROVE  SymNames!symbolFindNameByAddressEx(addr)
           = {[name |-> SymNames!find_symbolfile(m)[i].name,
               off  |-> addr - SymNames!Bottom(SymNames!find_symbolfile(m)[i], base[m])]}
<1> DEFINE syms == SymNames!find_symbolfile(m)
           b == base[m]
           start == SymNames!Bottom(syms[i], b)
           found == [sym |-> syms[i], base |-> b]
           Here == {n \in SymNames!Mods :
                      /\ base[n] # 0 /\ base[n] <= addr /\ addr < base[n] + ModuleSize
                      /\ SymNames!Around(SymNames!find_symbolfile(n), addr, base[n]) # {}}
<1>1. /\ b \in Bases /\ Orderly(syms, b) /\ b \in Nat /\ b >= AbsFrom
      /\ ModuleSize \in Nat /\ AbsFrom \in Nat
  BY FoundOrderly, SymbolConstants
<1>2. SymNames!Around(syms, addr, b) = {i}
  BY <1>1, AroundOne
<1>3. /\ start \in Nat /\ syms[i].size \in Nat /\ i \in Nat /\ b <= start
      /\ start + syms[i].size <= b + ModuleSize /\ start <= addr
      /\ addr < start + syms[i].size
  BY <1>1, Ranges
<1>4. Here = {m}
  <2>1. m \in Here
    BY <1>1, <1>2, <1>3
  <2>2. ASSUME NEW n \in Here, n # m PROVE FALSE
    <3>1. base[n] \in Bases /\ base[n] # base[m]
      BY <2>2 DEF SymInv, SymTypes, OnePlaceEach
    <3>2. base[n] \in Nat /\ (base[n] + ModuleSize <= b \/ b + ModuleSize <= base[n])
      BY <1>1, <3>1, SymbolConstants
    <3>3. base[n] <= addr /\ addr < base[n] + ModuleSize
      BY <2>2
    <3> HIDE DEF b, start, Here
    <3>4. QED BY <1>1, <1>3, <3>2, <3>3
  <2>3. QED BY <2>1, <2>2
<1>5. SymNames!symbolFindByAddress(addr) = {found}
  <2>1. SymNames!Min(SymNames!Around(syms, addr, b)) = i
    BY <1>2, <1>3, LeastOf
  <2>2. SymNames!symbolFindByAddress(addr)
          = {[sym |-> SymNames!find_symbolfile(n)[SymNames!Min(
                        SymNames!Around(SymNames!find_symbolfile(n), addr, base[n]))],
              base |-> base[n]] : n \in Here}
    BY DEF SymNames!symbolFindByAddress
  <2> HIDE DEF Here
  <2>3. QED BY <1>4, <2>1, <2>2
<1>6. syms[i].addr \in Nat
  <2>1. DOMAIN syms = 1 .. Len(syms) /\ syms \in Tables
    BY <1>1, LenProperties DEF Orderly, Tables
  <2>2. i \in 1 .. Len(syms)
    BY <2>1
  <2> HIDE DEF syms
  <2>3. QED BY <2>1, <2>2, SymbolOfTable
<1>7. b + (IF b <= syms[i].addr THEN syms[i].addr - b ELSE syms[i].addr) = start
  <2>1. syms[i].addr >= AbsFrom => b <= syms[i].addr
    BY <1>1 DEF Orderly, SymNames!Fits
  <2> HIDE DEF syms, b
  <2>2. QED BY <1>1, <1>6, <2>1 DEF SymNames!Bottom
<1> HIDE DEF syms, b, start
<1>8. SymNames!symbolFindNameByAddressEx(addr)
        = {[name |-> syms[i].name, off |-> IF start < addr THEN addr - start ELSE 0]}
  BY <1>5, <1>7 DEF SymNames!symbolFindNameByAddressEx
<1>9. (IF start < addr THEN addr - start ELSE 0) = addr - start
  BY <1>3
<1>10. QED BY <1>8, <1>9 DEF syms, b, start

\* A name is found at its symbol.
LEMMA NameFound ==
  ASSUME SymNames!FilesInOrder, SymInv, NEW m \in SymNames!Mods, base[m] # 0,
         NEW i \in DOMAIN SymNames!find_symbolfile(m)
  PROVE  SymNames!symbolFindByName(m, SymNames!find_symbolfile(m)[i].name)
           = SymNames!Bottom(SymNames!find_symbolfile(m)[i], base[m])
<1> DEFINE syms == SymNames!find_symbolfile(m)
           same == {j \in DOMAIN syms : syms[j].name = syms[i].name}
<1>1. base[m] \in Bases /\ Orderly(syms, base[m])
  BY FoundOrderly
<1>2. same = {i}
  BY <1>1 DEF Orderly
<1>3. i \in Nat
  BY <1>1, Ranges
<1>4. SymNames!Min(same) = i
  BY <1>2, <1>3, LeastOf
<1>5. SymNames!symbolFindByName(m, syms[i].name)
        = IF base[m] = 0 \/ same = {} THEN 0
          ELSE SymNames!Bottom(syms[SymNames!Min(same)], base[m])
  BY DEF SymNames!symbolFindByName
<1> HIDE DEF same, syms
<1>6. QED BY <1>2, <1>4, <1>5 DEF syms

\* Lookups lead back.
LEMMA LookupsLeadBack ==
  ASSUME SymNames!FilesInOrder, SymInv
  PROVE  SymbolsLeadBack
<1>1. SymNames!TypeOK
  <2>1. \A i \in DOMAIN files : files[i].good
    BY LenProperties, ElementOfSeq DEF SymInv, SymTypes, GoodFiles
  <2>2. QED BY <2>1 DEF SymInv, SymTypes, SymNames!TypeOK
<1>2. SymNames!NamesLeadBack
  <2> SUFFICES ASSUME NEW m \in SymNames!Mods,
                      NEW i \in DOMAIN SymNames!find_symbolfile(m), base[m] # 0,
                      SymNames!find_symbolfile(m)[i].size > 0,
                      NEW o \in 0 .. SymNames!find_symbolfile(m)[i].size - 1
               PROVE  SymNames!symbolFindNameByAddressEx(
                        SymNames!symbolFindByName(m, SymNames!find_symbolfile(m)[i].name) + o)
                        = {[name |-> SymNames!find_symbolfile(m)[i].name, off |-> o]}
    BY DEF SymNames!NamesLeadBack
  <2> DEFINE e == SymNames!find_symbolfile(m)[i]
             start == SymNames!Bottom(e, base[m])
  <2>1. base[m] \in Bases /\ Orderly(SymNames!find_symbolfile(m), base[m])
    BY FoundOrderly
  <2>2. start \in Nat /\ e.size \in Nat
    BY <2>1, Ranges
  <2>3. SymNames!symbolFindByName(m, e.name) = start
    BY NameFound
  <2>4. o \in Nat /\ start <= start + o /\ start + o < start + e.size /\ start + o \in Int
        /\ (start + o) - start = o
    BY <2>2
  <2>5. SymNames!symbolFindNameByAddressEx(start + o)
          = {[name |-> e.name, off |-> (start + o) - start]}
    BY <2>4, AddressFound
  <2> HIDE DEF e, start
  <2>6. SymNames!symbolFindNameByAddressEx(start + o) = {[name |-> e.name, off |-> o]}
    BY <2>4, <2>5
  <2>7. QED BY <2>3, <2>6 DEF e
<1>3. SymNames!AddressesLeadBack
  <2> SUFFICES ASSUME NEW a \in SymNames!Addresses, NEW r \in SymNames!symbolFindNameByAddressEx(a)
               PROVE  \E m \in SymNames!Mods : \E i \in DOMAIN SymNames!find_symbolfile(m) :
                        /\ SymNames!find_symbolfile(m)[i].name = r.name
                        /\ r.off < SymNames!find_symbolfile(m)[i].size
                        /\ SymNames!symbolFindByName(m, r.name) + r.off = a
    BY DEF SymNames!AddressesLeadBack
  <2>1. a \in Int
    BY SymbolConstants DEF SymNames!Addresses
  <2>2. SymNames!symbolFindByAddress(a) # {}
    BY DEF SymNames!symbolFindNameByAddressEx
  <2>3. PICK m \in SymNames!Mods :
          base[m] # 0 /\ SymNames!Around(SymNames!find_symbolfile(m), a, base[m]) # {}
    BY <2>2 DEF SymNames!symbolFindByAddress
  <2>4. PICK i \in SymNames!Around(SymNames!find_symbolfile(m), a, base[m]) : TRUE
    BY <2>3
  <2> DEFINE e == SymNames!find_symbolfile(m)[i]
             start == SymNames!Bottom(e, base[m])
  <2>5. base[m] \in Bases /\ Orderly(SymNames!find_symbolfile(m), base[m])
    BY <2>3, FoundOrderly
  <2>6. i \in DOMAIN SymNames!find_symbolfile(m) /\ start <= a /\ a < start + e.size
    BY <2>1, <2>5, AroundReaches
  <2>7. SymNames!symbolFindNameByAddressEx(a) = {[name |-> e.name, off |-> a - start]}
    BY <2>1, <2>3, <2>6, AddressFound
  <2>8. start \in Nat /\ e.size \in Nat
    BY <2>5, <2>6, Ranges
  <2>9. SymNames!symbolFindByName(m, e.name) = start
    BY <2>3, <2>6, NameFound
  <2>10. r.name = e.name /\ r.off = a - start
    BY <2>7
  <2>11. r.off < e.size /\ start + r.off = a
    <3> HIDE DEF e, start
    <3>1. QED BY <2>1, <2>6, <2>8, <2>10
  <2>12. QED BY <2>6, <2>9, <2>10, <2>11
<1>4. QED BY <1>1, <1>2, <1>3 DEF SymbolsLeadBack

\* symbolFindByName, symbolFindByAddress: the address of a name, and every address in
\* its symbol, leads back to it, and an address that is given a name and an offset is
\* that name's plus that offset, wherever modules are loaded and in whatever order,
\* for every set of files whose symbols have names of their own and lie apart.
THEOREM SymbolsDoLeadBack ==
  ASSUME SymNames!FilesInOrder
  PROVE  SymNames!Spec => []SymbolsLeadBack
<1>1. SymNames!Init => SymInv
  BY SymbolsStart
<1>2. SymInv /\ [SymNames!Next]_symbolVars => SymInv'
  BY SymbolsStep
<1>3. SymInv => SymbolsLeadBack
  BY LookupsLeadBack
<1>4. QED BY <1>1, <1>2, <1>3, PTL DEF SymNames!Spec, SymNames!vars, symbolVars

-----------------------------------------------------------------------------
(* The terminal on the PC: PcTerm. *)

\* The one descriptor the terminal has is the lowest free one, so a socket that is
\* closed and still watched is the next one opened.  It is watched for writing by a
\* terminal that is not connecting only after an attempt that failed.
TermPlace ==
  /\ state \in {"IDLE", "CONNECTING", "CONNECTED"}
  /\ running \in BOOLEAN /\ serialmode \in BOOLEAN
  /\ readsave \subseteq {3} /\ writesave \subseteq {3}
  /\ state = "IDLE" /\ running => open = {}
  /\ state = "IDLE" => sock = -1 \/ (sock = 3 /\ open = {3})
  /\ state # "IDLE" => open = {3} /\ sock = 3
  /\ state = "CONNECTED" => 3 \in readsave
  /\ state = "CONNECTING" => 3 \in writesave /\ ~serialmode
  /\ serialmode => writesave = {}

\* The attempts that failed since the last connection in the background.
TermTries ==
  /\ conn_sanity \in 0 .. retries /\ failures \in 0 .. retries + 1
  /\ running => failures = conn_sanity
  /\ state # "CONNECTING" /\ failures = 0 => writesave = {}

\* What was read of a connection: its marks are the two of each prompt installed
\* and the one of a prompt that has begun, of which something is kept, and its
\* output was printed, unless its marks are torn.
Marks == [n \in Nat |-> Cardinality({k \in 1 .. n : Stream[k] = "F"})]
Outs  == [n \in Nat |-> Cardinality({k \in 1 .. n : Stream[k] = "o"})]
Shown(n, ps, kept, out) ==
  /\ ps \in Nat /\ out \in Seq({"o"}) /\ Len(out) = Outs[n]
  /\ \/ Marks[n] = 2 * ps /\ kept = <<>>
     \/ Marks[n] = 2 * ps + 1 /\ kept # <<>>
TermText ==
  /\ sent \in 0 .. Len(Stream) /\ taken \in 0 .. sent
  /\ (state # "IDLE" /\ ~torn) => Shown(taken, prompts, linebuf, printed)

TermInv == TermPlace /\ TermTries /\ TermText

\* The constants.
LEMMA TermConstants ==
  /\ Stream \in Seq({"o", "p", "F"}) /\ retries \in Nat /\ Len(Stream) \in Nat
  /\ DOMAIN Stream = 1 .. Len(Stream)
BY ServicesAssumption, LenProperties DEF Terminal!TermAssumption

\* Nothing of a connection has been shown when it begins.
LEMMA ShownNothing == Shown(0, 0, <<>>, <<>>)
<1>1. {k \in 1 .. 0 : Stream[k] = "F"} = {} /\ {k \in 1 .. 0 : Stream[k] = "o"} = {}
  OBVIOUS
<1>2. Marks[0] = 0 /\ Outs[0] = 0
  BY <1>1, FS_EmptySet DEF Marks, Outs
<1>3. QED BY <1>2, EmptySeq DEF Shown

\* Within is having read an odd number of marks.
LEMMA WithinIsOdd ==
  ASSUME NEW n \in Nat
  PROVE  /\ Marks[n] \in Nat /\ Outs[n] \in Nat
         /\ Terminal!Within(n) <=> Marks[n] % 2 = 1
<1>1. IsFiniteSet(1 .. n)
  BY FS_Interval
<1>2. /\ IsFiniteSet({k \in 1 .. n : Stream[k] = "F"})
      /\ IsFiniteSet({k \in 1 .. n : Stream[k] = "o"})
  BY <1>1, FS_Subset
<1>3. Marks[n] \in Nat /\ Outs[n] \in Nat
  BY <1>2, FS_CardinalityType DEF Marks, Outs
<1>4. Terminal!Within(n) <=> Marks[n] % 2 = 1
  BY DEF Terminal!Within, Terminal!Cardinality, Cardinality, Marks
<1>5. QED BY <1>3, <1>4

\* Behind a stretch without marks, and behind a mark.
LEMMA Unmarked ==
  ASSUME Terminal!StreamInOrder, NEW a \in Nat, NEW b \in Nat, a <= b, b <= Len(Stream),
         \A k \in a + 1 .. b : Stream[k] # "F"
  PROVE  /\ Marks[b] = Marks[a]
         /\ Marks[a] % 2 = 0 => /\ \A k \in a + 1 .. b : Stream[k] = "o"
                                /\ Outs[b] = Outs[a] + (b - a)
         /\ Marks[a] % 2 = 1 => Outs[b] = Outs[a]
<1>1. ASSUME NEW k \in a .. b PROVE k \in Nat /\ Marks[k] = Marks[a]
  <2>1. k \in Nat /\ {j \in 1 .. k : Stream[j] = "F"} = {j \in 1 .. a : Stream[j] = "F"}
    OBVIOUS
  <2>2. QED BY <2>1 DEF Marks
<1>2. ASSUME NEW k \in a + 1 .. b PROVE Stream[k] = IF Marks[a] % 2 = 1 THEN "p" ELSE "o"
  <2>1. k \in 1 .. Len(Stream) /\ k \in a .. b /\ k \in Nat
    BY TermConstants
  <2>2. Stream[k] \in {"o", "p", "F"} /\ Stream[k] # "F"
    BY <2>1, TermConstants, ElementOfSeq
  <2>3. Terminal!Within(k) <=> Marks[a] % 2 = 1
    BY <1>1, <2>1, WithinIsOdd
  <2>4. (Stream[k] = "p" => Terminal!Within(k)) /\ (Stream[k] = "o" => ~Terminal!Within(k))
    BY <2>1 DEF Terminal!StreamInOrder
  <2>5. QED BY <2>2, <2>3, <2>4
<1>3. Marks[b] = Marks[a]
  BY <1>1
<1>4. ASSUME Marks[a] % 2 = 1 PROVE Outs[b] = Outs[a]
  <2>1. {j \in 1 .. b : Stream[j] = "o"} = {j \in 1 .. a : Stream[j] = "o"}
    <3>1. \A k \in a + 1 .. b : Stream[k] # "o"
      BY <1>2, <1>4
    <3>2. QED BY <3>1
  <2>2. QED BY <2>1 DEF Outs
<1>5. ASSUME Marks[a] % 2 = 0
      PROVE  (\A k \in a + 1 .. b : Stream[k] = "o") /\ Outs[b] = Outs[a] + (b - a)
  <2>1. \A k \in a + 1 .. b : Stream[k] = "o"
    BY <1>2, <1>5
  <2> DEFINE old == {j \in 1 .. a : Stream[j] = "o"}
             new == a + 1 .. b
  <2>2. {j \in 1 .. b : Stream[j] = "o"} = old \cup new /\ old \cap new = {}
    BY <2>1
  <2>3. IsFiniteSet(old) /\ Cardinality(old) = Outs[a] /\ Outs[a] \in Nat
    <3>1. IsFiniteSet(1 .. a)
      BY FS_Interval
    <3>2. QED BY <3>1, FS_Subset, WithinIsOdd DEF Outs
  <2>4. IsFiniteSet(new) /\ Cardinality(new) = b - a
    <3>1. a + 1 \in Int /\ b \in Int
      OBVIOUS
    <3>2. IsFiniteSet(a + 1 .. b)
            /\ Cardinality(a + 1 .. b) = IF a + 1 > b THEN 0 ELSE b - (a + 1) + 1
      BY <3>1, FS_Interval
    <3>3. QED BY <3>2
  <2> HIDE DEF old, new
  <2>5. Cardinality(old \cup new) = Outs[a] + (b - a) - Cardinality(old \cap new)
    BY <2>3, <2>4, FS_Union
  <2>6. Cardinality(old \cup new) = Outs[a] + (b - a)
    <3>1. Cardinality(old \cap new) = 0
      BY <2>2, FS_EmptySet
    <3>2. QED BY <2>3, <2>5, <3>1
  <2>7. Outs[b] = Outs[a] + (b - a)
    BY <2>2, <2>6 DEF Outs
  <2>8. QED BY <2>1, <2>7
<1>6. QED BY <1>3, <1>4, <1>5

LEMMA Marked ==
  ASSUME NEW a \in Nat, Stream[a + 1] = "F"
  PROVE  Marks[a + 1] = Marks[a] + 1 /\ Outs[a + 1] = Outs[a]
<1> DEFINE old == {j \in 1 .. a : Stream[j] = "F"}
<1>1. {j \in 1 .. a + 1 : Stream[j] = "F"} = old \cup {a + 1} /\ a + 1 \notin old
  OBVIOUS
<1>2. IsFiniteSet(old)
  <2>1. IsFiniteSet(1 .. a)
    BY FS_Interval
  <2>2. QED BY <2>1, FS_Subset
<1>3. {j \in 1 .. a + 1 : Stream[j] = "o"} = {j \in 1 .. a : Stream[j] = "o"}
  OBVIOUS
<1>4. Outs[a + 1] = Outs[a]
  BY <1>3 DEF Outs
<1>5. Cardinality(old) = Marks[a]
  BY DEF Marks
<1> HIDE DEF old
<1>6. Cardinality(old \cup {a + 1}) = Cardinality(old) + 1
  BY <1>1, <1>2, FS_AddElement
<1>7. Marks[a + 1] = Cardinality({j \in 1 .. a + 1 : Stream[j] = "F"})
  BY DEF Marks
<1>8. QED BY <1>1, <1>4, <1>5, <1>6, <1>7

\* FirstMark is the first.
LEMMA FirstMarkIs ==
  ASSUME NEW s, Len(s) \in Nat
  PROVE  /\ Terminal!FirstMark(s) \in 0 .. Len(s)
         /\ Terminal!FirstMark(s) = 0 => \A k \in 1 .. Len(s) : s[k] # "F"
         /\ Terminal!FirstMark(s) # 0 =>
              /\ s[Terminal!FirstMark(s)] = "F"
              /\ \A k \in 1 .. Terminal!FirstMark(s) - 1 : s[k] # "F"
<1> DEFINE marks == {k \in 1 .. Len(s) : s[k] = "F"}
<1>1. Terminal!FirstMark(s) = IF marks # {} THEN Terminal!Min(marks) ELSE 0
  BY DEF Terminal!FirstMark, Terminal!SelectInSeq
<1>2. CASE marks = {}
  BY <1>1, <1>2
<1>3. ASSUME NEW n \in marks
      PROVE  Terminal!Min(marks) \in marks /\ \A j \in marks : Terminal!Min(marks) <= j
  <2>1. PICK k \in marks : \A j \in marks : k <= j
    <3>1. marks \in SUBSET Nat /\ marks # {}
      OBVIOUS
    <3>2. QED BY <3>1, LeastIn
  <2>2. QED BY <2>1 DEF Terminal!Min
<1>4. CASE marks # {}
  <2>1. Terminal!FirstMark(s) \in marks /\ \A j \in marks : Terminal!FirstMark(s) <= j
    BY <1>1, <1>3, <1>4
  <2>2. \A k \in 1 .. Terminal!FirstMark(s) - 1 : k \notin marks
    BY <2>1
  <2>3. QED BY <2>1, <2>2
<1>5. QED BY <1>2, <1>4

\* How many elements a set has at least.
LEMMA TwoAre ==
  ASSUME NEW x, NEW y, x # y
  PROVE  Cardinality({x} \cup {y}) = 2 /\ IsFiniteSet({x} \cup {y})
<1> DEFINE one == {x}
<1>1. Cardinality(one) = 1 /\ IsFiniteSet(one) /\ y \notin one
  BY FS_Singleton
<1> HIDE DEF one
<1>2. Cardinality(one \cup {y}) = 2 /\ IsFiniteSet(one \cup {y})
  BY <1>1, FS_AddElement
<1>3. QED BY <1>2 DEF one

LEMMA HoldsTwo ==
  ASSUME NEW S, IsFiniteSet(S), NEW x \in S, NEW y \in S, x # y
  PROVE  Cardinality(S) \in Nat /\ Cardinality(S) >= 2
<1>1. Cardinality({x} \cup {y}) = 2
  BY TwoAre
<1>2. Cardinality({x} \cup {y}) <= Cardinality(S)
  BY FS_Subset
<1>3. QED BY <1>1, <1>2, FS_CardinalityType

LEMMA HoldsThree ==
  ASSUME NEW S, IsFiniteSet(S), NEW x \in S, NEW y \in S, NEW z \in S,
         x # y, x # z, y # z
  PROVE  Cardinality(S) \in Nat /\ Cardinality(S) >= 3
<1> DEFINE two == {x} \cup {y}
<1>1. z \notin two /\ two \cup {z} \subseteq S
  OBVIOUS
<1>2. Cardinality(two) = 2 /\ IsFiniteSet(two)
  BY TwoAre
<1> HIDE DEF two
<1>3. Cardinality(two \cup {z}) = 3
  BY <1>1, <1>2, FS_AddElement
<1>4. Cardinality(two \cup {z}) <= Cardinality(S)
  BY <1>1, FS_Subset
<1>5. QED BY <1>3, <1>4, FS_CardinalityType

\* Text that is nothing but output.
LEMMA OutputGrows ==
  ASSUME NEW s \in Seq({"o"}), NEW t \in Seq({"o"})
  PROVE  s \o t \in Seq({"o"}) /\ Len(s \o t) = Len(s) + Len(t)
BY ConcatProperties

LEMMA OutputOnly ==
  ASSUME NEW s, NEW a \in Int, NEW b \in Int, \A k \in a .. b : s[k] = "o"
  PROVE  /\ SubSeq(s, a, b) \in Seq({"o"})
         /\ Len(SubSeq(s, a, b)) = IF a <= b THEN b - a + 1 ELSE 0
<1>1. \A k \in a .. b : s[k] \in {"o"}
  OBVIOUS
<1>2. QED BY <1>1, SubSeqProperties

\* What a read gives: a stretch of the stream, whose prompts are installed.
LEMMA TermReadsWhole ==
  ASSUME Terminal!StreamInOrder, TermInv, Terminal!Read, ~torn'
  PROVE  TermText'
<1>1. /\ taken \in Nat /\ sent \in Nat /\ sent <= Len(Stream)
      /\ Shown(taken, prompts, linebuf, printed)
      /\ state = "CONNECTED" /\ state' = state /\ sent' = sent
  <2>1. ~torn
    BY Zenon DEF Terminal!Read
  <2>2. QED BY <2>1 DEF TermInv, TermText, Terminal!Read
<1>2. prompts \in Nat /\ printed \in Seq({"o"}) /\ Len(printed) = Outs[taken]
  BY <1>1 DEF Shown
<1>3. PICK n \in 1 .. sent - taken :
        /\ ~Terminal!Tears(n)
        /\ LET r == Terminal!PromptIn(SubSeq(Stream, taken + 1, taken + n))
           IN /\ printed' = printed \o r.text
              /\ linebuf' = r.keep
              /\ prompts' = IF r.found THEN prompts + 1 ELSE prompts
        /\ taken' = taken + n
  BY Zenon DEF Terminal!Read
<1> DEFINE a == taken
           b == taken + n
           buf == SubSeq(Stream, taken + 1, taken + n)
           m == Terminal!FirstMark(buf)
           rest == SubSeq(buf, m + 1, Len(buf))
           end == Terminal!FirstMark(rest)
           cut == Terminal!PromptIn(buf)
           marks == {k \in 1 .. n : buf[k] = "F"}
<1>4. n \in Nat /\ n >= 1 /\ b \in Nat /\ b <= Len(Stream) /\ a <= b
  BY <1>1
<1>5. /\ buf \in Seq({"o", "p", "F"}) /\ Len(buf) = n
      /\ \A i \in 1 .. n : buf[i] = Stream[a + i]
  <2>1. \A i \in a + 1 .. b : Stream[i] \in {"o", "p", "F"}
    BY <1>1, <1>4, TermConstants, ElementOfSeq
  <2>2. /\ buf \in Seq({"o", "p", "F"})
        /\ Len(buf) = IF a + 1 <= b THEN b - (a + 1) + 1 ELSE 0
        /\ \A i \in 1 .. b - (a + 1) + 1 : buf[i] = Stream[(a + 1) + i - 1]
    <3>1. a + 1 \in Int /\ b \in Int
      BY <1>1, <1>4
    <3>2. QED BY <2>1, <3>1, SubSeqProperties
  <2> HIDE DEF buf
  <2>3. Len(buf) = n
    BY <1>1, <1>4, <2>2
  <2>4. ASSUME NEW i \in 1 .. n PROVE buf[i] = Stream[a + i]
    <3>1. i \in 1 .. b - (a + 1) + 1 /\ (a + 1) + i - 1 = a + i
      BY <1>1, <1>4
    <3>2. QED BY <2>2, <3>1
  <2>5. QED BY <2>2, <2>3, <2>4
<1>6. IsFiniteSet(marks)
  <2>1. IsFiniteSet(1 .. n)
    BY <1>4, FS_Interval
  <2>2. QED BY <2>1, FS_Subset
<1>6a. Cardinality(marks) \in Nat
  BY <1>6, FS_CardinalityType
<1>7. /\ Terminal!Within(b) => Stream[b] # "F"
      /\ Cardinality(marks) <= 2
      /\ Terminal!Within(a) => Cardinality(marks) = 1
  <2>1. /\ ~(Terminal!Within(b) /\ Stream[b] = "F")
        /\ ~(Terminal!Cardinality(marks) > 2)
        /\ ~(Terminal!Within(a) /\ Terminal!Cardinality(marks) # 1)
    BY <1>3, Zenon DEF Terminal!Tears
  <2>2. Terminal!Cardinality(marks) = Cardinality(marks)
    BY DEF Terminal!Cardinality, Cardinality
  <2> HIDE DEF marks
  <2>3. QED BY <1>6a, <2>1, <2>2
<1>8. /\ printed' = printed \o cut.text /\ linebuf' = cut.keep
      /\ prompts' = IF cut.found THEN prompts + 1 ELSE prompts
      /\ taken' = b
  BY <1>3
<1>9. /\ m \in 0 .. n
      /\ m = 0 => \A k \in 1 .. n : buf[k] # "F"
      /\ m # 0 => buf[m] = "F" /\ \A k \in 1 .. m - 1 : buf[k] # "F"
  <2> HIDE DEF buf
  <2>1. QED BY <1>4, <1>5, FirstMarkIs
<1>10. cut = IF linebuf = <<>>
         THEN IF m = 0 THEN [text |-> buf, keep |-> <<>>, found |-> FALSE, prompt |-> <<>>]
              ELSE IF end # 0
                THEN [text |-> SubSeq(buf, 1, m - 1) \o SubSeq(rest, end + 1, Len(rest)),
                      keep |-> <<>>, found |-> TRUE, prompt |-> SubSeq(rest, 1, end - 1)]
                ELSE [text |-> SubSeq(buf, 1, m - 1), keep |-> rest, found |-> FALSE,
                      prompt |-> <<>>]
         ELSE IF m # 0
           THEN [text |-> rest, keep |-> <<>>, found |-> TRUE,
                 prompt |-> linebuf \o SubSeq(buf, 1, m - 1)]
           ELSE [text |-> buf, keep |-> linebuf \o buf, found |-> FALSE, prompt |-> <<>>]
  BY DEF Terminal!PromptIn
<1>11. /\ m # 0 => /\ Len(rest) = n - m
                   /\ \A i \in 1 .. n - m : rest[i] = buf[m + i] /\ rest[i] = Stream[a + m + i]
       /\ m # 0 => end \in 0 .. n - m
       /\ (m # 0 /\ end = 0) => \A k \in 1 .. n - m : rest[k] # "F"
       /\ (m # 0 /\ end # 0) => rest[end] = "F" /\ \A k \in 1 .. end - 1 : rest[k] # "F"
  <2> SUFFICES ASSUME m # 0
               PROVE  /\ Len(rest) = n - m
                      /\ \A i \in 1 .. n - m : rest[i] = buf[m + i] /\ rest[i] = Stream[a + m + i]
                      /\ end \in 0 .. n - m
                      /\ end = 0 => \A k \in 1 .. n - m : rest[k] # "F"
                      /\ end # 0 => rest[end] = "F" /\ \A k \in 1 .. end - 1 : rest[k] # "F"
    OBVIOUS
  <2> HIDE DEF buf, m
  <2>1. \A i \in m + 1 .. n : buf[i] \in {"o", "p", "F"}
    BY <1>4, <1>5, <1>9, ElementOfSeq
  <2>2. /\ Len(SubSeq(buf, m + 1, n)) = IF m + 1 <= n THEN n - (m + 1) + 1 ELSE 0
        /\ \A i \in 1 .. n - (m + 1) + 1 : SubSeq(buf, m + 1, n)[i] = buf[(m + 1) + i - 1]
    <3>1. m + 1 \in Int /\ n \in Int
      BY <1>4, <1>9
    <3>2. QED BY <2>1, <3>1, SubSeqProperties
  <2>3. rest = SubSeq(buf, m + 1, n)
    BY <1>5
  <2> HIDE DEF rest
  <2>4. Len(rest) = n - m
    BY <1>4, <1>9, <2>2, <2>3
  <2>5. \A i \in 1 .. n - m : rest[i] = buf[m + i] /\ rest[i] = Stream[a + m + i]
    BY <1>1, <1>4, <1>5, <1>9, <2>2, <2>3
  <2>6. n - m \in Nat
    BY <1>4, <1>9
  <2>7. QED BY <2>4, <2>5, <2>6, FirstMarkIs
<1> HIDE DEF m, end, rest, buf, cut
<1>12. /\ Marks[a] \in Nat /\ Marks[b] \in Nat /\ Outs[a] \in Nat /\ Outs[b] \in Nat
       /\ Terminal!Within(a) <=> Marks[a] % 2 = 1
       /\ Terminal!Within(b) <=> Marks[b] % 2 = 1
  BY <1>1, <1>4, WithinIsOdd
\* Up to the first mark.
<1>13. ASSUME m # 0
       PROVE  /\ Marks[a + m] = Marks[a] + 1 /\ Stream[a + m] = "F" /\ a + m \in Nat /\ a + m <= b
              /\ Marks[a] % 2 = 0 => /\ SubSeq(buf, 1, m - 1) \in Seq({"o"})
                                     /\ Len(SubSeq(buf, 1, m - 1)) = m - 1
                                     /\ Outs[a + m] = Outs[a] + (m - 1)
              /\ Marks[a] % 2 = 1 => Outs[a + m] = Outs[a]
  <2> DEFINE c == a + m - 1
  <2>1. c \in Nat /\ a <= c /\ c <= Len(Stream) /\ c + 1 = a + m /\ c - a = m - 1 /\ m \in 1 .. n
    BY <1>1, <1>4, <1>9, <1>13
  <2>2. Stream[c + 1] = "F"
    BY <1>5, <1>9, <1>13, <2>1
  <2>3. \A k \in a + 1 .. c : Stream[k] # "F"
    <3>1. SUFFICES ASSUME NEW k \in a + 1 .. c PROVE Stream[k] # "F"
      OBVIOUS
    <3>2. k - a \in 1 .. m - 1 /\ k - a \in 1 .. n /\ a + (k - a) = k
      BY <1>1, <2>1
    <3>3. QED BY <1>5, <1>9, <1>13, <3>2
  <2> HIDE DEF c
  <2>4. Marks[c + 1] = Marks[c] + 1 /\ Outs[c + 1] = Outs[c]
    BY <2>1, <2>2, Marked
  <2>5. /\ Marks[c] = Marks[a]
        /\ Marks[a] % 2 = 0 => /\ \A k \in a + 1 .. c : Stream[k] = "o"
                               /\ Outs[c] = Outs[a] + (c - a)
        /\ Marks[a] % 2 = 1 => Outs[c] = Outs[a]
    BY <1>1, <2>1, <2>3, Unmarked
  <2>6. ASSUME Marks[a] % 2 = 0
        PROVE  SubSeq(buf, 1, m - 1) \in Seq({"o"}) /\ Len(SubSeq(buf, 1, m - 1)) = m - 1
    <3>1. \A k \in 1 .. m - 1 : buf[k] = "o"
      <4>1. SUFFICES ASSUME NEW k \in 1 .. m - 1 PROVE buf[k] = "o"
        OBVIOUS
      <4>2. a + k \in a + 1 .. c /\ k \in 1 .. n
        BY <1>1, <2>1
      <4>3. QED BY <1>5, <2>5, <2>6, <4>2
    <3>2. /\ SubSeq(buf, 1, m - 1) \in Seq({"o"})
          /\ Len(SubSeq(buf, 1, m - 1)) = IF 1 <= m - 1 THEN (m - 1) - 1 + 1 ELSE 0
      <4>1. 1 \in Int /\ m - 1 \in Int
        BY <2>1
      <4>2. QED BY <3>1, <4>1, OutputOnly
    <3>3. QED BY <2>1, <3>2
  <2>7. Marks[a + m] = Marks[a] + 1 /\ Stream[a + m] = "F" /\ Outs[a + m] = Outs[c]
    BY <2>1, <2>2, <2>4, <2>5
  <2>8. a + m \in Nat /\ a + m <= b
    BY <1>1, <1>4, <2>1
  <2>9. Marks[a] % 2 = 0 => Outs[a + m] = Outs[a] + (m - 1)
    BY <2>1, <2>5, <2>7
  <2>10. Marks[a] % 2 = 1 => Outs[a + m] = Outs[a]
    BY <2>5, <2>7
  <2>11. QED BY <2>6, <2>7, <2>8, <2>9, <2>10
\* Behind the first mark, when there is no other.
<1>14. ASSUME m # 0, \A k \in 1 .. n - m : rest[k] # "F"
       PROVE  /\ Marks[b] = Marks[a] + 1
              /\ Marks[a] % 2 = 0 => Outs[b] = Outs[a + m]
              /\ Marks[a] % 2 = 1 => /\ rest \in Seq({"o"}) /\ Len(rest) = n - m
                                     /\ Outs[b] = Outs[a] + (n - m)
  <2> DEFINE c == a + m
  <2>1. /\ c \in Nat /\ c <= b /\ b - c = n - m /\ m \in 1 .. n
        /\ Marks[c] = Marks[a] + 1
        /\ Marks[a] % 2 = 1 => Outs[c] = Outs[a]
    BY <1>1, <1>4, <1>9, <1>13, <1>14
  <2>2. \A k \in c + 1 .. b : k - c \in 1 .. n - m /\ rest[k - c] = Stream[k]
    <3>1. SUFFICES ASSUME NEW k \in c + 1 .. b
                   PROVE  k - c \in 1 .. n - m /\ rest[k - c] = Stream[k]
      OBVIOUS
    <3>2. k - c \in 1 .. n - m /\ a + m + (k - c) = k
      BY <1>1, <2>1
    <3>3. QED BY <1>11, <1>14, <3>2
  <2>3. \A k \in c + 1 .. b : Stream[k] # "F"
    BY <1>14, <2>2
  <2> HIDE DEF c
  <2>4. /\ Marks[b] = Marks[c]
        /\ Marks[c] % 2 = 0 => /\ \A k \in c + 1 .. b : Stream[k] = "o"
                               /\ Outs[b] = Outs[c] + (b - c)
        /\ Marks[c] % 2 = 1 => Outs[b] = Outs[c]
    BY <1>4, <2>1, <2>3, Unmarked
  <2>5. (Marks[a] % 2 = 0 => Marks[c] % 2 = 1) /\ (Marks[a] % 2 = 1 => Marks[c] % 2 = 0)
    BY <1>12, <2>1
  <2>6. Marks[a] % 2 = 0 => Outs[b] = Outs[a + m]
    BY <2>4, <2>5 DEF c
  <2>7. ASSUME Marks[a] % 2 = 1
        PROVE  /\ rest \in Seq({"o"}) /\ Len(rest) = n - m
               /\ Outs[b] = Outs[a] + (n - m)
    <3>1. \A k \in 1 .. n - m : c + k \in c + 1 .. b
      BY <1>4, <2>1
    <3>2. \A k \in 1 .. n - m : Stream[c + k] = "o"
      BY <2>4, <2>5, <2>7, <3>1
    <3>3. \A k \in 1 .. n - m : rest[k] = "o"
      BY <1>11, <1>14, <3>2 DEF c
    <3>4. Len(rest) = n - m /\ Outs[b] = Outs[a] + (n - m)
      BY <1>11, <1>14, <2>1, <2>4, <2>5, <2>7
    <3>5. rest \in Seq({"o"})
      <4>1. rest = SubSeq(buf, m + 1, n)
        BY <1>5 DEF rest
      <4>2. \A k \in m + 1 .. n : buf[k] = "o"
        <5>1. SUFFICES ASSUME NEW k \in m + 1 .. n PROVE buf[k] = "o"
          OBVIOUS
        <5>2. k - m \in 1 .. n - m /\ m + (k - m) = k
          BY <1>4, <2>1
        <5>3. QED BY <1>11, <1>14, <3>3, <5>2
      <4>3. m + 1 \in Int /\ n \in Int
        BY <1>4, <2>1
      <4>4. QED BY <4>1, <4>2, <4>3, OutputOnly
    <3>6. QED BY <3>4, <3>5
  <2>8. Marks[b] = Marks[a] + 1
    BY <2>1, <2>4
  <2>9. QED BY <2>6, <2>7, <2>8
\* The marks of the piece read.
<1>15. m # 0 => m \in marks
  BY <1>9
<1>16. ASSUME m # 0, end # 0 PROVE m + end \in marks /\ m + end # m /\ end \in 1 .. n - m
  <2>1. end \in 1 .. n - m /\ m \in 1 .. n
    BY <1>9, <1>11, <1>16
  <2>2. m + end \in 1 .. n /\ m + end # m
    BY <1>4, <2>1
  <2>3. buf[m + end] = "F"
    BY <1>11, <1>16, <2>1
  <2>4. QED BY <2>1, <2>2, <2>3
\* With something kept, the rest of a prompt was read.
<1>18. ASSUME linebuf # <<>> PROVE Shown(b, prompts', linebuf', printed')
  <2>1. Marks[a] = 2 * prompts + 1 /\ Marks[a] % 2 = 1
    BY <1>1, <1>2, <1>18 DEF Shown
  <2>2. Cardinality(marks) = 1
    BY <1>7, <1>12, <2>1
  <2>3. m # 0
    <3>1. SUFFICES ASSUME m = 0 PROVE FALSE
      OBVIOUS
    <3>2. marks = {}
      BY <1>9, <3>1
    <3>3. QED BY <2>2, <3>2, FS_EmptySet
  <2>4. \A k \in 1 .. n - m : rest[k] # "F"
    <3>1. SUFFICES end = 0
      BY <1>11, <2>3
    <3>2. SUFFICES ASSUME end # 0 PROVE FALSE
      OBVIOUS
    <3>3. Cardinality(marks) >= 2
      <4> HIDE DEF marks
      <4>1. QED BY <1>6, <1>15, <1>16, <2>3, <3>2, HoldsTwo
    <3>4. QED BY <2>2, <3>3
  <2>5. /\ Marks[b] = Marks[a] + 1 /\ rest \in Seq({"o"}) /\ Len(rest) = n - m
        /\ Outs[b] = Outs[a] + (n - m)
    BY <1>14, <2>1, <2>3, <2>4
  <2>6. cut = [text |-> rest, keep |-> <<>>, found |-> TRUE,
               prompt |-> linebuf \o SubSeq(buf, 1, m - 1)]
    BY <1>10, <1>18, <2>3
  <2>7. printed' = printed \o rest /\ linebuf' = <<>> /\ prompts' = prompts + 1
    BY <1>8, <2>6
  <2>8. printed' \in Seq({"o"}) /\ Len(printed') = Len(printed) + (n - m)
    BY <1>2, <2>5, <2>7, OutputGrows
  <2>9. Len(printed') = Outs[b]
    BY <1>2, <1>4, <1>9, <1>12, <2>5, <2>8
  <2>10. Marks[b] = 2 * prompts' /\ prompts' \in Nat
    BY <1>2, <2>1, <2>5, <2>7
  <2>11. QED BY <2>7, <2>8, <2>9, <2>10 DEF Shown
\* With nothing kept: output alone,
<1>19. ASSUME linebuf = <<>>, m = 0 PROVE Shown(b, prompts', linebuf', printed')
  <2>1. Marks[a] = 2 * prompts /\ Marks[a] % 2 = 0
    BY <1>1, <1>2, <1>19 DEF Shown
  <2>2. \A k \in a + 1 .. b : k - a \in 1 .. n /\ a + (k - a) = k
    BY <1>1, <1>4
  <2>3. \A k \in a + 1 .. b : Stream[k] # "F"
    <3>1. SUFFICES ASSUME NEW k \in a + 1 .. b PROVE Stream[k] # "F"
      OBVIOUS
    <3>2. k - a \in 1 .. n /\ buf[k - a] = Stream[k]
      BY <1>5, <2>2
    <3>3. QED BY <1>9, <1>19, <3>2
  <2>4. /\ Marks[b] = Marks[a] /\ \A k \in a + 1 .. b : Stream[k] = "o"
        /\ Outs[b] = Outs[a] + (b - a)
    BY <1>1, <1>4, <2>1, <2>3, Unmarked
  <2>5. buf \in Seq({"o"}) /\ Len(buf) = n
    <3>1. a + 1 \in Int /\ b \in Int
      BY <1>1, <1>4
    <3>2. buf \in Seq({"o"})
      BY <2>4, <3>1, OutputOnly DEF buf
    <3>3. QED BY <1>5, <3>2
  <2>6. cut = [text |-> buf, keep |-> <<>>, found |-> FALSE, prompt |-> <<>>]
    BY <1>10, <1>19
  <2>7. printed' = printed \o buf /\ linebuf' = <<>> /\ prompts' = prompts
    BY <1>8, <2>6
  <2>8. printed' \in Seq({"o"}) /\ Len(printed') = Len(printed) + n
    BY <1>2, <2>5, <2>7, OutputGrows
  <2>9. Len(printed') = Outs[b]
    BY <1>1, <1>2, <1>4, <1>12, <2>4, <2>8
  <2>10. QED BY <1>2, <2>1, <2>4, <2>7, <2>8, <2>9 DEF Shown
\* output and the beginning of a prompt,
<1>20. ASSUME linebuf = <<>>, m # 0, end = 0 PROVE Shown(b, prompts', linebuf', printed')
  <2>1. Marks[a] = 2 * prompts /\ Marks[a] % 2 = 0
    BY <1>1, <1>2, <1>20 DEF Shown
  <2>2. \A k \in 1 .. n - m : rest[k] # "F"
    BY <1>11, <1>20
  <2>3. Marks[b] = 2 * prompts + 1 /\ Outs[b] = Outs[a] + (m - 1) /\ Stream[a + m] = "F"
    BY <1>13, <1>14, <1>20, <2>1, <2>2
  <2>4. rest # <<>>
    <3>1. Terminal!Within(b)
      BY <1>2, <1>12, <2>3
    <3>2. a + m # b
      BY <1>7, <2>3, <3>1
    <3>3. Len(rest) = n - m /\ n - m # 0
      BY <1>1, <1>4, <1>9, <1>11, <1>20, <3>2
    <3>4. Len(<<>>) = 0
      BY EmptySeq
    <3>5. QED BY <3>3, <3>4
  <2>5. SubSeq(buf, 1, m - 1) \in Seq({"o"}) /\ Len(SubSeq(buf, 1, m - 1)) = m - 1
    BY <1>13, <1>20, <2>1
  <2>6. cut = [text |-> SubSeq(buf, 1, m - 1), keep |-> rest, found |-> FALSE,
               prompt |-> <<>>]
    BY <1>10, <1>20
  <2>7. /\ printed' = printed \o SubSeq(buf, 1, m - 1) /\ linebuf' = rest
        /\ prompts' = prompts
    BY <1>8, <2>6
  <2>8. printed' \in Seq({"o"}) /\ Len(printed') = Len(printed) + (m - 1)
    BY <1>2, <2>5, <2>7, OutputGrows
  <2>9. Len(printed') = Outs[b]
    BY <1>2, <2>3, <2>8
  <2>10. QED BY <1>2, <2>3, <2>4, <2>7, <2>8, <2>9 DEF Shown
\* or output with a whole prompt in it.
<1>21. ASSUME linebuf = <<>>, m # 0, end # 0 PROVE Shown(b, prompts', linebuf', printed')
  <2>1. Marks[a] = 2 * prompts /\ Marks[a] % 2 = 0
    BY <1>1, <1>2, <1>21 DEF Shown
  <2> DEFINE c == a + m
             d == a + m + end
             tail == SubSeq(rest, end + 1, Len(rest))
  <2>2. /\ m \in 1 .. n /\ end \in 1 .. n - m /\ Len(rest) = n - m
        /\ c \in Nat /\ d - 1 \in Nat /\ d \in Nat /\ c <= d - 1 /\ d <= b /\ d - 1 <= Len(Stream)
        /\ (d - 1) + 1 = d
    <3>1. m \in 1 .. n /\ end \in 1 .. n - m /\ Len(rest) = n - m
      BY <1>4, <1>9, <1>11, <1>16, <1>21
    <3>2. QED BY <1>1, <1>4, <3>1
  <2>3. \A i \in 1 .. n - m : rest[i] = Stream[c + i]
    <3>1. SUFFICES ASSUME NEW i \in 1 .. n - m PROVE rest[i] = Stream[c + i]
      OBVIOUS
    <3>2. QED BY <1>11, <1>21
  <2>4. Marks[c] = Marks[a] + 1 /\ Marks[c] % 2 = 1 /\ Outs[c] = Outs[a] + (m - 1)
    BY <1>2, <1>13, <1>21, <2>1
  <2>5. d = c + end
    OBVIOUS
  <2> HIDE DEF c
  <2>6. Stream[d] = "F"
    BY <1>11, <1>21, <2>2, <2>3, <2>5
  <2>7. \A k \in c + 1 .. d - 1 : Stream[k] # "F"
    <3>1. SUFFICES ASSUME NEW k \in c + 1 .. d - 1 PROVE Stream[k] # "F"
      OBVIOUS
    <3>2. k - c \in 1 .. end - 1 /\ k - c \in 1 .. n - m /\ c + (k - c) = k
      BY <2>2, <2>5
    <3>3. QED BY <1>11, <1>21, <2>3, <3>2
  <2> HIDE DEF d
  <2>8. Marks[d - 1] = Marks[c] /\ Outs[d - 1] = Outs[c]
    BY <2>2, <2>4, <2>7, Unmarked
  <2>9. Marks[d] = Marks[a] + 2 /\ Outs[d] = Outs[a] + (m - 1)
    <3>1. Marks[(d - 1) + 1] = Marks[d - 1] + 1 /\ Outs[(d - 1) + 1] = Outs[d - 1]
      BY <2>2, <2>6, Marked
    <3>2. QED BY <1>12, <2>2, <2>4, <2>8, <3>1
  <2>10. \A k \in d + 1 .. b : Stream[k] # "F"
    <3>1. SUFFICES ASSUME NEW k \in d + 1 .. b, Stream[k] = "F" PROVE FALSE
      OBVIOUS
    <3>2. k - a \in 1 .. n /\ a + (k - a) = k /\ k - a # m /\ k - a # m + end
      BY <1>1, <1>4, <2>2 DEF c, d
    <3>3. k - a \in marks
      BY <1>5, <3>1, <3>2
    <3>4. Cardinality(marks) >= 3
      <4> HIDE DEF marks
      <4>1. QED BY <1>6, <1>15, <1>16, <1>21, <3>2, <3>3, HoldsThree
    <3>5. QED BY <1>7, <1>6a, <3>4
  <2>11. Marks[d] % 2 = 0
    BY <1>2, <2>1, <2>9
  <2>12. /\ Marks[b] = Marks[d] /\ \A k \in d + 1 .. b : Stream[k] = "o"
         /\ Outs[b] = Outs[d] + (b - d)
    BY <1>4, <2>2, <2>10, <2>11, Unmarked
  <2>13. tail \in Seq({"o"}) /\ Len(tail) = (n - m) - end
    <3>1. \A k \in end + 1 .. n - m : rest[k] = "o"
      <4>1. SUFFICES ASSUME NEW k \in end + 1 .. n - m PROVE rest[k] = "o"
        OBVIOUS
      <4>2. k \in 1 .. n - m /\ c + k \in d + 1 .. b
        BY <1>1, <1>4, <2>2 DEF c, d
      <4>3. QED BY <2>3, <2>12, <4>2
    <3>2. end + 1 \in Int /\ n - m \in Int
      BY <1>4, <2>2
    <3>3. /\ SubSeq(rest, end + 1, n - m) \in Seq({"o"})
          /\ Len(SubSeq(rest, end + 1, n - m))
               = IF end + 1 <= n - m THEN (n - m) - (end + 1) + 1 ELSE 0
      BY <3>1, <3>2, OutputOnly
    <3>4. tail = SubSeq(rest, end + 1, n - m)
      BY <2>2
    <3> HIDE DEF tail
    <3>5. QED BY <1>4, <2>2, <3>3, <3>4
  <2>14. SubSeq(buf, 1, m - 1) \in Seq({"o"}) /\ Len(SubSeq(buf, 1, m - 1)) = m - 1
    BY <1>13, <1>21, <2>1
  <2>15. cut = [text |-> SubSeq(buf, 1, m - 1) \o tail, keep |-> <<>>, found |-> TRUE,
                prompt |-> SubSeq(rest, 1, end - 1)]
    BY <1>10, <1>21
  <2> HIDE DEF tail
  <2>16. /\ printed' = printed \o (SubSeq(buf, 1, m - 1) \o tail) /\ linebuf' = <<>>
         /\ prompts' = prompts + 1
    BY <1>8, <2>15
  <2>17. /\ SubSeq(buf, 1, m - 1) \o tail \in Seq({"o"})
         /\ Len(SubSeq(buf, 1, m - 1) \o tail) = (m - 1) + ((n - m) - end)
    BY <2>13, <2>14, OutputGrows
  <2>18. /\ printed' \in Seq({"o"})
         /\ Len(printed') = Len(printed) + ((m - 1) + ((n - m) - end))
    BY <1>2, <2>16, <2>17, OutputGrows
  <2>19. b - d = (n - m) - end
    <3>1. a \in Int /\ n \in Int /\ m \in Int /\ end \in Int
      BY <1>1, <1>4, <2>2
    <3>2. QED BY <3>1 DEF d
  <2>20. Len(printed') = Outs[b]
    <3>1. Outs[b] = (Outs[a] + (m - 1)) + ((n - m) - end)
      BY <2>9, <2>12, <2>19
    <3>2. Len(printed) \in Int /\ m \in Int /\ n \in Int /\ end \in Int
      BY <1>2, <1>4, <1>12, <2>2
    <3>3. QED BY <1>2, <2>18, <3>1, <3>2
  <2>21. Marks[b] = 2 * prompts' /\ prompts' \in Nat
    BY <1>2, <2>1, <2>9, <2>12, <2>16
  <2>22. QED BY <2>16, <2>18, <2>20, <2>21 DEF Shown
<1>22. Shown(taken', prompts', linebuf', printed')
  BY <1>8, <1>18, <1>19, <1>20, <1>21
<1>23. sent' \in 0 .. Len(Stream) /\ taken' \in 0 .. sent'
  BY <1>1, <1>3
<1>24. Shown(taken, prompts, linebuf, printed)'
  BY <1>22 DEF Shown, Marks, Outs
<1>25. QED BY <1>1, <1>23, <1>24 DEF TermText

LEMMA TermReads ==
  ASSUME Terminal!StreamInOrder, TermInv, Terminal!Read
  PROVE  TermText'
<1>1. CASE ~torn'
  BY <1>1, TermReadsWhole
<1>2. CASE torn'
  <2>1. PICK n \in 1 .. sent - taken : taken' = taken + n
    BY DEF Terminal!Read
  <2>2. sent' = sent /\ sent \in 0 .. Len(Stream) /\ taken \in 0 .. sent
    BY DEF TermInv, TermText, Terminal!Read
  <2>3. sent' \in 0 .. Len(Stream) /\ taken' \in 0 .. sent'
    BY <2>1, <2>2, TermConstants
  <2>4. QED BY <1>2, <2>3 DEF TermText
<1>3. QED BY <1>1, <1>2

\* A new descriptor.
LEMMA FirstFd == open = {} => Terminal!NewFd = 3
<1>1. SUFFICES ASSUME open = {} PROVE Terminal!NewFd = 3
  OBVIOUS
<1>2. {3, 4, 5} \ open = {3, 4, 5}
  BY <1>1
<1>3. Terminal!Min({3, 4, 5}) = 3
  <2>1. {3, 4, 5} \in SUBSET Nat /\ {3, 4, 5} # {}
    OBVIOUS
  <2>2. Terminal!Min({3, 4, 5}) \in {3, 4, 5} /\ \A k \in {3, 4, 5} : Terminal!Min({3, 4, 5}) <= k
    BY <2>1, LeastIn DEF Terminal!Min, Min
  <2>3. QED BY <2>2
<1>4. QED BY <1>2, <1>3 DEF Terminal!NewFd

\* What a connection begins with, when nothing is kept.
LEMMA TermTextBegins ==
  ASSUME Terminal!NewConnection
  PROVE  TermText'
<1>1. sent' = 0 /\ taken' = 0 /\ printed' = <<>> /\ prompts' = 0 /\ linebuf' = linebuf
  BY DEF Terminal!NewConnection
<1>2. ASSUME ~torn' PROVE Shown(taken, prompts, linebuf, printed)'
  <2>1. linebuf = <<>>
    BY <1>2, Zenon DEF Terminal!NewConnection
  <2>2. Shown(taken', prompts', linebuf', printed')
    BY <1>1, <2>1, ShownNothing
  <2>3. QED BY <2>2 DEF Shown, Marks, Outs
<1>3. QED BY <1>1, <1>2, TermConstants DEF TermText

\* What is kept of a connection that is not in a prompt.
LEMMA NothingKept ==
  ASSUME TermText, state = "CONNECTED", ~torn, ~Terminal!Within(taken)
  PROVE  linebuf = <<>>
<1>1. taken \in Nat /\ Shown(taken, prompts, linebuf, printed)
  BY TermConstants DEF TermText
<1>2. Marks[taken] % 2 # 1 /\ Marks[taken] \in Nat
  BY <1>1, WithinIsOdd
<1>3. Marks[taken] # 2 * prompts + 1
  BY <1>1, <1>2 DEF Shown
<1>4. QED BY <1>1, <1>3 DEF Shown

LEMMA TermTextEnds ==
  ASSUME TermText, Terminal!Disconnect, UNCHANGED <<sent, taken>>
  PROVE  TermText'
BY DEF TermText, Terminal!Disconnect

LEMMA TermTextStays ==
  ASSUME TermText, UNCHANGED <<sent, taken, linebuf, printed, prompts, torn>>,
         state' = state \/ state = "CONNECTING"
  PROVE  TermText'
<1>1. Shown(taken, prompts, linebuf, printed) => Shown(taken, prompts, linebuf, printed)'
  BY DEF Shown, Marks, Outs
<1>2. QED BY <1>1 DEF TermText

\* What each action leaves of the place and the attempts.
LEMMA TermStep ==
  ASSUME TermInv, Terminal!Next, Terminal!StreamInOrder
  PROVE  TermInv' /\ Terminal!RetriesAsAsked
<1>1. retries \in Nat
  BY TermConstants
<1>2. CASE Terminal!OpenSerial
  <2>1. open = {} /\ Terminal!NewFd = 3
    BY <1>2, FirstFd DEF TermInv, TermPlace, Terminal!OpenSerial
  <2>2. TermPlace'
    BY <1>2, <2>1 DEF TermInv, TermPlace, Terminal!OpenSerial
  <2>3. TermTries' /\ Terminal!RetriesAsAsked
    BY <1>1, <1>2 DEF TermInv, TermTries, Terminal!OpenSerial, Terminal!RetriesAsAsked
  <2>4. TermText'
    BY <1>2, TermTextBegins DEF TermInv, Terminal!OpenSerial
  <2>5. QED BY <2>2, <2>3, <2>4 DEF TermInv
<1>3. CASE Terminal!Connect
  <2>1. open = {} /\ Terminal!NewFd = 3
    BY <1>3, FirstFd DEF TermInv, TermPlace, Terminal!Connect
  <2>2. TermPlace'
    <3>1. /\ running /\ state = "IDLE" /\ ~serialmode /\ serialmode' = serialmode
          /\ sock' = 3 /\ open' = {3} /\ readsave \subseteq {3} /\ writesave \subseteq {3}
          /\ running \in BOOLEAN /\ serialmode \in BOOLEAN
      BY <1>3, <2>1 DEF TermInv, TermPlace, Terminal!Connect
    <3>2. CASE writesave' = writesave \cup {3} /\ state' = "CONNECTING"
               /\ UNCHANGED <<running, readsave>>
      BY <3>1, <3>2 DEF TermPlace
    <3>3. CASE running' = FALSE /\ UNCHANGED <<readsave, writesave, state>>
      BY <3>1, <3>3 DEF TermPlace
    <3>4. CASE readsave' = readsave \cup {3} /\ state' = "CONNECTED"
               /\ UNCHANGED <<running, writesave>>
      BY <3>1, <3>4 DEF TermPlace
    <3>5. QED BY <1>3, <2>1, <3>2, <3>3, <3>4 DEF Terminal!Connect
  <2>3. TermTries' /\ Terminal!RetriesAsAsked
    <3>1. /\ conn_sanity \in 0 .. retries /\ failures = conn_sanity /\ conn_sanity' = conn_sanity
          /\ state = "IDLE" /\ running /\ (failures = 0 => writesave = {})
      BY <1>3 DEF TermInv, TermTries, Terminal!Connect
    <3>2. CASE failures' = failures /\ state' = "CONNECTING"
      BY <1>1, <3>1, <3>2 DEF TermTries, Terminal!RetriesAsAsked
    <3>3. CASE failures' = failures + 1 /\ ~running'
      BY <1>1, <3>1, <3>3 DEF TermTries, Terminal!RetriesAsAsked
    <3>4. CASE failures' = failures /\ writesave' = writesave
      BY <1>1, <3>1, <3>4 DEF TermTries, Terminal!RetriesAsAsked
    <3>5. QED BY <1>3, <3>2, <3>3, <3>4 DEF Terminal!Connect
  <2>4. TermText'
    BY <1>3, TermTextBegins DEF TermInv, Terminal!Connect
  <2>5. QED BY <2>2, <2>3, <2>4 DEF TermInv
<1>4. CASE Terminal!PeerSends
  <2>1. TermPlace' /\ TermTries' /\ Terminal!RetriesAsAsked
    BY <1>1, <1>4 DEF TermInv, TermPlace, TermTries, Terminal!PeerSends, Terminal!RetriesAsAsked
  <2>2. TermText'
    <3>1. ~torn' => Shown(taken, prompts, linebuf, printed)'
      BY <1>4 DEF TermInv, TermText, Terminal!PeerSends, Shown, Marks, Outs
    <3>2. sent' \in 0 .. Len(Stream) /\ taken' \in 0 .. sent' /\ state' = "CONNECTED"
      BY <1>4, TermConstants DEF TermInv, TermText, Terminal!PeerSends
    <3>3. QED BY <3>1, <3>2 DEF TermText
  <2>3. QED BY <2>1, <2>2 DEF TermInv
<1>5. CASE Terminal!Read
  <2>1. TermPlace' /\ TermTries' /\ Terminal!RetriesAsAsked
    BY <1>1, <1>5 DEF TermInv, TermPlace, TermTries, Terminal!Read, Terminal!RetriesAsAsked
  <2>2. QED BY <1>5, <2>1, TermReads DEF TermInv
<1>6. CASE Terminal!PeerLost
  <2>1. TermPlace'
    BY <1>6 DEF TermInv, TermPlace, Terminal!PeerLost, Terminal!Disconnect
  <2>2. TermTries' /\ Terminal!RetriesAsAsked
    BY <1>1, <1>6 DEF TermInv, TermTries, Terminal!PeerLost, Terminal!RetriesAsAsked
  <2>3. TermText'
    BY <1>6, TermTextEnds DEF TermInv, Terminal!PeerLost, Terminal!net
  <2>4. QED BY <2>1, <2>2, <2>3 DEF TermInv
<1>7. CASE Terminal!Key
  <2>1. TermPlace'
    BY <1>7 DEF TermInv, TermPlace, Terminal!Key, Terminal!Disconnect
  <2>2. TermTries' /\ Terminal!RetriesAsAsked
    BY <1>1, <1>7 DEF TermInv, TermTries, Terminal!Key, Terminal!RetriesAsAsked
  <2>3. TermText'
    BY <1>7, TermTextEnds DEF TermInv, Terminal!Key, Terminal!net
  <2>4. QED BY <2>1, <2>2, <2>3 DEF TermInv
<1>8. ASSUME NEW ok \in BOOLEAN, Terminal!on_connecting(ok)
      PROVE  TermInv' /\ Terminal!RetriesAsAsked
  <2>1. TermPlace'
    <3>1. /\ running /\ state = "CONNECTING" /\ open = {3} /\ sock = 3 /\ ~serialmode
          /\ readsave \subseteq {3} /\ writesave \subseteq {3} /\ serialmode' = serialmode
          /\ 3 \in writesave /\ running \in BOOLEAN /\ serialmode \in BOOLEAN
      BY <1>8 DEF TermInv, TermPlace, Terminal!on_connecting
    <3>2. CASE state' = "CONNECTED" /\ readsave' = readsave \cup {3}
               /\ writesave' = writesave \ {3} /\ UNCHANGED <<running, sock, open>>
      BY <3>1, <3>2 DEF TermPlace
    <3>3. CASE running' = FALSE /\ UNCHANGED <<sock, open, state, readsave, writesave>>
      BY <1>8, <3>1, <3>3 DEF TermInv, TermPlace
    <3>4. CASE open' = open \ {3} /\ sock' = -1 /\ state' = "IDLE"
               /\ UNCHANGED <<running, readsave, writesave>>
      BY <3>1, <3>4 DEF TermPlace
    <3>5. QED BY <1>8, <3>1, <3>2, <3>3, <3>4 DEF Terminal!on_connecting
  <2>2. TermTries' /\ Terminal!RetriesAsAsked
    <3>1. /\ conn_sanity \in 0 .. retries /\ failures = conn_sanity /\ running
          /\ sock = 3 /\ writesave \subseteq {3}
      BY <1>8 DEF TermInv, TermPlace, TermTries, Terminal!on_connecting
    <3>2. CASE /\ conn_sanity' = 0 /\ failures' = 0 /\ running' = running
               /\ writesave' = writesave \ {3}
      BY <1>1, <3>1, <3>2 DEF TermTries, Terminal!RetriesAsAsked
    <3>3. CASE /\ failures' = failures + 1 /\ conn_sanity >= retries
               /\ running' = FALSE /\ conn_sanity' = conn_sanity
      BY <1>1, <3>1, <3>3 DEF TermTries, Terminal!RetriesAsAsked
    <3>4. CASE /\ failures' = failures + 1 /\ ~(conn_sanity >= retries)
               /\ conn_sanity' = conn_sanity + 1 /\ running' = running
      BY <1>1, <3>1, <3>4 DEF TermTries, Terminal!RetriesAsAsked
    <3>5. QED BY <1>8, <3>1, <3>2, <3>3, <3>4 DEF Terminal!on_connecting
  <2>3. TermText'
    BY <1>8, TermTextStays DEF TermInv, Terminal!on_connecting, Terminal!net
  <2>4. QED BY <2>1, <2>2, <2>3 DEF TermInv
<1>9. ASSUME NEW line \in {"ls", "exit", "close", "!", "@"}, Terminal!cli_handler(line)
      PROVE  TermInv' /\ Terminal!RetriesAsAsked
  <2>1. TermPlace'
    BY <1>9 DEF TermInv, TermPlace, Terminal!cli_handler, Terminal!Disconnect
  <2>2. TermTries' /\ Terminal!RetriesAsAsked
    BY <1>1, <1>9 DEF TermInv, TermTries, Terminal!cli_handler, Terminal!RetriesAsAsked
  <2>3. TermText'
    <3>1. CASE state' = state
      BY <1>9, <3>1, TermTextStays DEF TermInv, Terminal!cli_handler
    <3>2. CASE state = "CONNECTED" /\ Terminal!Disconnect
      BY <1>9, <3>2, TermTextEnds DEF TermInv, Terminal!cli_handler
    <3>3. QED BY <1>9, <3>1, <3>2 DEF Terminal!cli_handler
  <2>4. QED BY <2>1, <2>2, <2>3 DEF TermInv
<1>10. QED BY <1>2, <1>3, <1>4, <1>5, <1>6, <1>7, <1>8, <1>9 DEF Terminal!Next

\* What the invariant says of the properties.
LEMMA TermSafe ==
  ASSUME TermInv
  PROVE  /\ Terminal!TypeOK /\ Terminal!Selectable
         /\ Terminal!WaitsQuietly /\ Terminal!PromptsSeen
<1>1. Terminal!TypeOK
  BY DEF TermInv, TermPlace, TermTries, TermText, Terminal!TypeOK
<1>2. Terminal!Selectable
  BY DEF TermInv, TermPlace, Terminal!Selectable
<1>3. Terminal!WaitsQuietly
  BY DEF TermInv, TermPlace, TermTries, Terminal!WaitsQuietly
<1>4. Terminal!PromptsSeen
  <2>1. SUFFICES ASSUME running, state = "CONNECTED", taken = sent, ~Terminal!Within(taken),
                        ~torn
        PROVE  /\ prompts = Terminal!Cardinality({k \in 1 .. taken : Stream[k] = "F"}) \div 2
               /\ printed \in Seq({"o"})
               /\ Len(printed) = Terminal!Cardinality({k \in 1 .. taken : Stream[k] = "o"})
    BY DEF Terminal!PromptsSeen
  <2>2. taken \in Nat /\ Shown(taken, prompts, linebuf, printed) /\ linebuf = <<>>
    BY <2>1, TermConstants, NothingKept DEF TermInv, TermText
  <2>3. /\ Marks[taken] = Terminal!Cardinality({k \in 1 .. taken : Stream[k] = "F"})
        /\ Outs[taken] = Terminal!Cardinality({k \in 1 .. taken : Stream[k] = "o"})
    BY <2>2 DEF Marks, Outs, Terminal!Cardinality, Cardinality
  <2>4. /\ prompts \in Nat /\ Marks[taken] = 2 * prompts
        /\ printed \in Seq({"o"}) /\ Len(printed) = Outs[taken]
    BY <2>2 DEF Shown
  <2>5. prompts = Marks[taken] \div 2
    BY <2>4
  <2>6. QED BY <2>3, <2>4, <2>5
<1>5. QED BY <1>1, <1>2, <1>3, <1>4

\* TerminalFollows: whenever the stream has its prompts between marks, every prompt
\* is installed and all other text printed until a read tears the marks or a
\* connection begins with what an earlier one left of a prompt, select is called
\* on open descriptors and the attempts are as many as asked, for every stream,
\* number of retries, way of cutting reads and of losing connections.
THEOREM TerminalDoesFollow ==
  ASSUME Terminal!StreamInOrder
  PROVE  Terminal!Spec => TerminalFollows
<1>1. Terminal!Init => TermInv
  <2>1. SUFFICES ASSUME Terminal!Init PROVE TermInv
    OBVIOUS
  <2>2. TermPlace /\ TermTries
    BY <2>1, TermConstants DEF Terminal!Init, TermPlace, TermTries
  <2>3. TermText
    BY <2>1, TermConstants DEF Terminal!Init, TermText
  <2>4. QED BY <2>2, <2>3 DEF TermInv
<1>2. UNCHANGED Terminal!vars => UNCHANGED termVars
  BY DEF Terminal!vars, Terminal!net, termVars
<1>3. TermInv /\ [Terminal!Next]_Terminal!vars => TermInv'
  <2>1. ASSUME TermInv, UNCHANGED termVars PROVE TermInv'
    <3>1. TermPlace' /\ TermTries'
      BY <2>1 DEF termVars, TermInv, TermPlace, TermTries
    <3>2. TermText'
      BY <2>1, TermTextStays DEF termVars, TermInv
    <3>3. QED BY <3>1, <3>2 DEF TermInv
  <2>2. QED BY <1>2, <2>1, TermStep
<1>4. TermInv /\ [Terminal!Next]_Terminal!vars => [Terminal!RetriesAsAsked]_termVars
  BY <1>2, TermStep
<1>5. TermInv => /\ Terminal!TypeOK /\ Terminal!Selectable
                 /\ Terminal!WaitsQuietly /\ Terminal!PromptsSeen
  BY TermSafe
<1>6. QED BY <1>1, <1>3, <1>4, <1>5, PTL DEF Terminal!Spec, TerminalFollows

-----------------------------------------------------------------------------
(* The PC's joystick: RemoteJoy. *)

\* Events and words.
JoyEvents == [type : {"down", "up"}, value : Joystick!PspButtons]
               \cup [type : {"analog"}, value : (0 .. 1) \X Int]
Means(type, x) == [type |-> type, value |-> x] \in JoyEvents
JoyWord == [k : {"magic"}, n : Nat]
             \cup [k : {"type"}, n : Nat, x : {"down", "up", "analog"}]
             \cup [k : {"value"}, n : Nat, x : Joystick!PspButtons \cup ((0 .. 1) \X Int)]

\* Words that come in events: the first m of s, or all of it.
KindAt(i) == IF i % 3 = 1 THEN "magic" ELSE IF i % 3 = 2 THEN "type" ELSE "value"
Upto(s, m) ==
  \A i \in 1 .. m :
    /\ s[i].k = KindAt(i)
    /\ i % 3 # 1 => s[i].n = s[i - 1].n
    /\ i % 3 = 0 => Means(s[i - 1].x, s[i].x)
Whole(s) == Len(s) % 3 = 0 /\ Upto(s, Len(s))

\* A ring that overflowed has one magic too many behind the first p - 1 words.
Cut(s, p) == /\ p = 0 \/ p % 3 = 1
             /\ Upto(s, p)
             /\ \A i \in p + 1 .. Len(s) : s[i].k = KindAt(i - 1)
Broken(s) == BufSize % 3 = 1 /\ Len(s) % 3 = 1 /\ \E p \in 0 .. Len(s) : Cut(s, p)

\* Words in the order they were sent in, of events above lo, hi the last.
InLine(s, lo, hi) ==
  /\ \A i \in 1 .. Len(s) : lo < s[i].n /\ s[i].n <= hi
  /\ \A i, j \in 1 .. Len(s) :
       i < j => s[i].n <= s[j].n /\ (s[j].k = "magic" => s[i].n < s[j].n)

\* What an event is about, and what the last of them about what says, or what is so
\* now if there is none: goal.
KeyOf(type, x) == IF type = "analog" THEN <<"axis", x[1]>> ELSE <<"button", x>>
Says(type, x)  == IF type = "analog" THEN x[2] ELSE type
About(s, i, what) == i % 3 = 0 /\ KeyOf(s[i - 1].x, s[i].x) = what
Silent(s, what, from) == \A i \in from .. Len(s) : ~About(s, i, what)
Leads(s, what, now, goal) ==
  \/ \E i \in 1 .. Len(s) : /\ About(s, i, what) /\ Says(s[i - 1].x, s[i].x) = goal
                            /\ Silent(s, what, i + 1)
  \/ Silent(s, what, 1) /\ now = goal

\* The same of events.
Ends(es, what, now, goal) ==
  \/ \E e \in 1 .. Len(es) : /\ KeyOf(es[e].type, es[e].value) = what
                             /\ Says(es[e].type, es[e].value) = goal
                             /\ \A l \in e + 1 .. Len(es) : KeyOf(es[l].type, es[l].value) # what
  \/ (\A l \in 1 .. Len(es) : KeyOf(es[l].type, es[l].value) # what) /\ now = goal

Down(b) == IF b THEN "down" ELSE "up"

\* The constants.
LEMMA JoyConstants ==
  /\ \A p \in Positions : p \in Int
  /\ tol \in Nat /\ Chunk \in Nat /\ Chunk % 3 = 0 /\ Chunk > 0
  /\ BufSize \in Nat /\ BufSize >= 3 /\ BufSize % 3 # 2 /\ 0 \in Positions
  /\ \A b \in DOMAIN buttmap : buttmap[b] \notin Joystick!Directions
BY ServicesAssumption DEF Joystick!JoyAssumption, Joystick!Directions

-----------------------------------------------------------------------------
(* Sequences of words. *)

\* Words have numbers.
LEMMA WordsHave ==
  ASSUME NEW s \in Seq(JoyWord)
  PROVE  /\ Len(s) \in Nat
         /\ \A i \in 1 .. Len(s) : s[i] \in JoyWord /\ s[i].n \in Nat
<1>1. Len(s) \in Nat /\ \A i \in 1 .. Len(s) : s[i] \in JoyWord
  BY ElementOfSeq, LenProperties
<1>2. \A w \in JoyWord : w.n \in Nat
  BY DEF JoyWord
<1>3. QED BY <1>1, <1>2

\* Words picked in order are in line.
LEMMA PickedInLine ==
  ASSUME NEW s \in Seq(JoyWord), NEW t \in Seq(JoyWord), NEW lo \in Nat, NEW hi \in Nat,
         NEW f \in [1 .. Len(t) -> 1 .. Len(s)],
         \A i \in 1 .. Len(t) : t[i] = s[f[i]],
         \A i, j \in 1 .. Len(t) : i < j => f[i] < f[j],
         InLine(s, lo, hi)
  PROVE  InLine(t, lo, hi)
<1>1. \A i \in 1 .. Len(t) : f[i] \in 1 .. Len(s)
  OBVIOUS
<1>2. ASSUME NEW i \in 1 .. Len(t) PROVE lo < t[i].n /\ t[i].n <= hi
  BY <1>1 DEF InLine
<1>3. ASSUME NEW i \in 1 .. Len(t), NEW j \in 1 .. Len(t), i < j
      PROVE  t[i].n <= t[j].n /\ (t[j].k = "magic" => t[i].n < t[j].n)
  <2>1. f[i] \in 1 .. Len(s) /\ f[j] \in 1 .. Len(s) /\ f[i] < f[j]
    BY <1>1, <1>3
  <2>2. t[i] = s[f[i]] /\ t[j] = s[f[j]]
    OBVIOUS
  <2>3. QED BY <2>1, <2>2 DEF InLine
<1>4. QED BY <1>2, <1>3 DEF InLine

\* The words behind the first n.
LEMMA RestIs ==
  ASSUME NEW s \in Seq(JoyWord), NEW n \in 0 .. Len(s)
  PROVE  LET t == SubSeq(s, n + 1, Len(s))
         IN  /\ t \in Seq(JoyWord) /\ Len(t) = Len(s) - n
             /\ \A i \in 1 .. Len(t) : t[i] = s[i + n] /\ i + n \in 1 .. Len(s)
<1> DEFINE t == SubSeq(s, n + 1, Len(s))
<1>1. Len(s) \in Nat /\ n \in Nat /\ \A i \in 1 .. Len(s) : s[i] \in JoyWord
  BY WordsHave
<1>2. \A i \in n + 1 .. Len(s) : s[i] \in JoyWord
  BY <1>1
<1>3. /\ t \in Seq(JoyWord)
      /\ Len(t) = IF n + 1 <= Len(s) THEN Len(s) - (n + 1) + 1 ELSE 0
      /\ \A i \in 1 .. Len(s) - (n + 1) + 1 : t[i] = s[(n + 1) + i - 1]
  BY <1>1, <1>2, SubSeqProperties
<1> HIDE DEF t
<1>4. Len(t) = Len(s) - n
  BY <1>1, <1>3
<1>5. ASSUME NEW i \in 1 .. Len(t) PROVE t[i] = s[i + n] /\ i + n \in 1 .. Len(s)
  <2>1. i \in 1 .. Len(s) - (n + 1) + 1 /\ (n + 1) + i - 1 = i + n /\ i + n \in 1 .. Len(s)
    BY <1>1, <1>4
  <2>2. QED BY <1>3, <2>1
<1>6. QED BY <1>3, <1>4, <1>5 DEF t

\* The first n words.
LEMMA FirstIs ==
  ASSUME NEW s \in Seq(JoyWord), NEW n \in 0 .. Len(s)
  PROVE  LET t == SubSeq(s, 1, n)
         IN  /\ t \in Seq(JoyWord) /\ Len(t) = n
             /\ \A i \in 1 .. n : t[i] = s[i]
<1> DEFINE t == SubSeq(s, 1, n)
<1>1. Len(s) \in Nat /\ n \in Nat /\ \A i \in 1 .. Len(s) : s[i] \in JoyWord
  BY WordsHave
<1>2. \A i \in 1 .. n : s[i] \in JoyWord
  BY <1>1
<1>3. /\ t \in Seq(JoyWord)
      /\ Len(t) = IF 1 <= n THEN n - 1 + 1 ELSE 0
      /\ \A i \in 1 .. n - 1 + 1 : t[i] = s[1 + i - 1]
  BY <1>1, <1>2, SubSeqProperties
<1> HIDE DEF t
<1>4. Len(t) = n
  BY <1>1, <1>3
<1>5. ASSUME NEW i \in 1 .. n PROVE t[i] = s[i]
  <2>1. i \in 1 .. n - 1 + 1 /\ 1 + i - 1 = i
    BY <1>1
  <2>2. QED BY <1>3, <2>1
<1>6. QED BY <1>3, <1>4, <1>5 DEF t

\* Two sequences of words in one.
LEMMA BothAre ==
  ASSUME NEW s \in Seq(JoyWord), NEW w \in Seq(JoyWord)
  PROVE  /\ s \o w \in Seq(JoyWord) /\ Len(s \o w) = Len(s) + Len(w)
         /\ \A i \in 1 .. Len(s) : (s \o w)[i] = s[i]
         /\ \A i \in Len(s) + 1 .. Len(s) + Len(w) :
              (s \o w)[i] = w[i - Len(s)] /\ i - Len(s) \in 1 .. Len(w)
<1> DEFINE t == s \o w
<1>1. /\ t \in Seq(JoyWord) /\ Len(t) = Len(s) + Len(w)
      /\ \A i \in 1 .. Len(s) + Len(w) :
           t[i] = IF i <= Len(s) THEN s[i] ELSE w[i - Len(s)]
  BY ConcatProperties
<1> HIDE DEF t
<1>2. Len(s) \in Nat /\ Len(w) \in Nat
  BY WordsHave
<1>3. QED BY <1>1, <1>2 DEF t

\* In three parts.
LEMMA ThreeAre ==
  ASSUME NEW s \in Seq(JoyWord), NEW t \in Seq(JoyWord), NEW u \in Seq(JoyWord)
  PROVE  s \o (t \o u) = (s \o t) \o u
<1> DEFINE tu == t \o u
           st == s \o t
           behind == s \o tu
           before == st \o u
<1>1. Len(s) \in Nat /\ Len(t) \in Nat /\ Len(u) \in Nat
  BY WordsHave
<1>2. /\ tu \in Seq(JoyWord) /\ Len(tu) = Len(t) + Len(u)
      /\ \A i \in 1 .. Len(t) + Len(u) : tu[i] = IF i <= Len(t) THEN t[i] ELSE u[i - Len(t)]
  BY ConcatProperties
<1>3. /\ st \in Seq(JoyWord) /\ Len(st) = Len(s) + Len(t)
      /\ \A i \in 1 .. Len(s) + Len(t) : st[i] = IF i <= Len(s) THEN s[i] ELSE t[i - Len(s)]
  BY ConcatProperties
<1> HIDE DEF tu, st
<1>4. tu \in Seq(JoyWord) /\ st \in Seq(JoyWord)
  BY <1>2, <1>3
<1>5. /\ behind \in Seq(JoyWord) /\ Len(behind) = Len(s) + Len(tu)
      /\ \A i \in 1 .. Len(s) + Len(tu) : behind[i] = IF i <= Len(s) THEN s[i] ELSE tu[i - Len(s)]
  BY <1>4, ConcatProperties
<1>6. /\ before \in Seq(JoyWord) /\ Len(before) = Len(st) + Len(u)
      /\ \A i \in 1 .. Len(st) + Len(u) : before[i] = IF i <= Len(st) THEN st[i] ELSE u[i - Len(st)]
  BY <1>4, ConcatProperties
<1> HIDE DEF behind, before
<1>7. Len(behind) = Len(before)
  BY <1>1, <1>2, <1>3, <1>5, <1>6
<1>8. ASSUME NEW i \in 1 .. Len(behind) PROVE behind[i] = before[i]
  <2>1. i \in 1 .. Len(s) + Len(tu) /\ i \in 1 .. Len(st) + Len(u)
    BY <1>5, <1>6, <1>7
  <2>2. /\ behind[i] = IF i <= Len(s) THEN s[i] ELSE tu[i - Len(s)]
        /\ before[i] = IF i <= Len(st) THEN st[i] ELSE u[i - Len(st)]
    BY <1>5, <1>6, <2>1
  <2>3. CASE i <= Len(s)
    <3>1. i <= Len(st) /\ i \in 1 .. Len(s) + Len(t)
      BY <1>1, <1>3, <2>3
    <3>2. QED BY <1>3, <2>2, <2>3, <3>1
  <2>4. CASE i > Len(s) /\ i <= Len(s) + Len(t)
    <3>1. /\ ~(i <= Len(s)) /\ i <= Len(st) /\ i \in 1 .. Len(s) + Len(t)
          /\ i - Len(s) \in 1 .. Len(t) + Len(u) /\ i - Len(s) <= Len(t)
      BY <1>1, <1>3, <2>4
    <3>2. QED BY <1>2, <1>3, <2>2, <3>1
  <2>5. CASE i > Len(s) + Len(t)
    <3>1. /\ ~(i <= Len(s)) /\ ~(i <= Len(st))
          /\ i - Len(s) \in 1 .. Len(t) + Len(u) /\ ~(i - Len(s) <= Len(t))
          /\ (i - Len(s)) - Len(t) = i - Len(st)
      BY <1>1, <1>2, <1>3, <2>1, <2>5
    <3>2. QED BY <1>2, <2>2, <3>1
  <2>6. QED BY <1>1, <2>3, <2>4, <2>5
<1>9. behind = before
  BY <1>5, <1>6, <1>7, <1>8, SeqEqual
<1>10. QED BY <1>9 DEF behind, before, tu, st

-----------------------------------------------------------------------------
(* Words that come in events. *)

\* Kinds repeat.
LEMMA KindsRepeat ==
  ASSUME NEW i \in Nat, NEW n \in Nat, n % 3 = 0
  PROVE  /\ KindAt(i + n) = KindAt(i) /\ (i + n) % 3 = i % 3
         /\ i >= n => KindAt(i - n) = KindAt(i) /\ (i - n) % 3 = i % 3
<1>1. (i + n) % 3 = i % 3 /\ (i >= n => (i - n) % 3 = i % 3)
  OBVIOUS
<1>2. QED BY <1>1 DEF KindAt

\* Whole events, and words that begin as events do behind them.
LEMMA UptoAppend ==
  ASSUME NEW s \in Seq(JoyWord), NEW w \in Seq(JoyWord), NEW m \in 0 .. Len(w),
         Whole(s), Upto(w, m)
  PROVE  Upto(s \o w, Len(s) + m)
<1> DEFINE t == s \o w
<1>1. /\ Len(s) \in Nat /\ Len(w) \in Nat /\ Len(t) = Len(s) + Len(w) /\ Len(s) % 3 = 0
      /\ \A i \in 1 .. Len(s) : t[i] = s[i]
      /\ \A i \in Len(s) + 1 .. Len(s) + Len(w) : t[i] = w[i - Len(s)] /\ i - Len(s) \in 1 .. Len(w)
  BY BothAre, WordsHave DEF Whole
<1> HIDE DEF t
<1>2. Len(s) \in Nat /\ Len(w) \in Nat /\ m \in Nat /\ m <= Len(w)
  BY <1>1
<1>3. SUFFICES ASSUME NEW i \in 1 .. Len(s) + m
               PROVE  /\ t[i].k = KindAt(i)
                      /\ i % 3 # 1 => t[i].n = t[i - 1].n
                      /\ i % 3 = 0 => Means(t[i - 1].x, t[i].x)
  BY DEF Upto, t
<1>4. CASE i <= Len(s)
  <2>1. i \in 1 .. Len(s) /\ t[i] = s[i]
    BY <1>1, <1>4
  <2>2. ASSUME i % 3 # 1 PROVE t[i - 1] = s[i - 1]
    <3>1. i # 1
      BY <2>2
    <3>2. i - 1 \in 1 .. Len(s)
      BY <1>2, <2>1, <3>1
    <3>3. QED BY <1>1, <3>2
  <2>3. i % 3 = 0 => i % 3 # 1
    OBVIOUS
  <2>4. QED BY <2>1, <2>2, <2>3 DEF Whole, Upto
<1>5. CASE i > Len(s)
  <2> DEFINE j == i - Len(s)
  <2>1. j \in 1 .. m /\ j \in 1 .. Len(w) /\ t[i] = w[j] /\ KindAt(i) = KindAt(j) /\ i % 3 = j % 3
    <3>1. i \in Nat /\ i >= Len(s) /\ i \in Len(s) + 1 .. Len(s) + Len(w)
      BY <1>1, <1>5
    <3>2. KindAt(j) = KindAt(i) /\ j % 3 = i % 3
      BY <1>1, <3>1, KindsRepeat
    <3>3. j \in 1 .. m
      BY <1>2, <1>5
    <3>4. QED BY <1>1, <3>1, <3>2, <3>3
  <2>2. ASSUME j % 3 # 1 PROVE t[i - 1] = w[j - 1]
    <3>1. j # 1
      BY <2>2
    <3>2. i - 1 \in Len(s) + 1 .. Len(s) + Len(w) /\ (i - 1) - Len(s) = j - 1
      BY <1>2, <2>1, <3>1
    <3>3. QED BY <1>1, <3>2
  <2> HIDE DEF j
  <2>3. j % 3 = 0 => j % 3 # 1
    BY <2>1
  <2>4. QED BY <2>1, <2>2, <2>3 DEF Upto
<1>6. QED BY <1>1, <1>4, <1>5

\* Words behind whole events.
LEMMA UptoRest ==
  ASSUME NEW s \in Seq(JoyWord), NEW n \in 0 .. Len(s), n % 3 = 0,
         NEW m \in n .. Len(s), Upto(s, m)
  PROVE  Upto(SubSeq(s, n + 1, Len(s)), m - n)
<1> DEFINE t == SubSeq(s, n + 1, Len(s))
<1>1. /\ Len(s) \in Nat /\ Len(t) = Len(s) - n
      /\ \A i \in 1 .. Len(t) : t[i] = s[i + n] /\ i + n \in 1 .. Len(s)
  BY RestIs, WordsHave
<1> HIDE DEF t
<1>2. SUFFICES ASSUME NEW i \in 1 .. m - n
               PROVE  /\ t[i].k = KindAt(i)
                      /\ i % 3 # 1 => t[i].n = t[i - 1].n
                      /\ i % 3 = 0 => Means(t[i - 1].x, t[i].x)
  BY DEF Upto, t
<1>3. Len(s) \in Nat /\ n \in Nat /\ m \in Nat /\ m <= Len(s) /\ n <= m /\ Len(t) = Len(s) - n
  BY <1>1
<1>4. /\ i \in 1 .. Len(t) /\ i + n \in 1 .. m /\ t[i] = s[i + n]
      /\ KindAt(i + n) = KindAt(i) /\ (i + n) % 3 = i % 3
  <2>1. i \in 1 .. Len(t) /\ i + n \in 1 .. m /\ i \in Nat /\ n \in Nat
    BY <1>3
  <2>2. QED BY <1>1, <2>1, KindsRepeat
<1>5. ASSUME i % 3 # 1 PROVE t[i - 1] = s[(i + n) - 1]
  <2>1. i # 1
    BY <1>5
  <2>2. i \in 1 .. Len(t) /\ Len(t) \in Nat /\ n \in Nat
    BY <1>3, <1>4
  <2>3. i - 1 \in 1 .. Len(t) /\ (i - 1) + n = (i + n) - 1
    BY <2>1, <2>2
  <2>4. QED BY <1>1, <2>3
<1>6. i % 3 = 0 => i % 3 # 1
  OBVIOUS
<1>7. QED BY <1>4, <1>5, <1>6 DEF Upto

\* Whole events before and behind.
LEMMA WholeBoth ==
  ASSUME NEW s \in Seq(JoyWord), NEW w \in Seq(JoyWord), Whole(s), Whole(w)
  PROVE  Whole(s \o w)
<1>1. /\ Len(s) \in Nat /\ Len(w) \in Nat /\ Len(s \o w) = Len(s) + Len(w)
      /\ Len(s) % 3 = 0 /\ Len(w) % 3 = 0
  BY BothAre, WordsHave DEF Whole
<1>2. Upto(s \o w, Len(s) + Len(w))
  BY <1>1, UptoAppend DEF Whole
<1>3. (Len(s) + Len(w)) % 3 = 0
  BY <1>1
<1>4. QED BY <1>1, <1>2, <1>3 DEF Whole

\* What follows whole events of whole events is whole.
LEMMA WholeRest ==
  ASSUME NEW s \in Seq(JoyWord), NEW n \in 0 .. Len(s), n % 3 = 0, Whole(s)
  PROVE  Whole(SubSeq(s, n + 1, Len(s)))
<1> DEFINE t == SubSeq(s, n + 1, Len(s))
<1>1. Len(s) \in Nat /\ Len(t) = Len(s) - n /\ Len(s) % 3 = 0
  BY RestIs, WordsHave DEF Whole
<1>2. Upto(t, Len(s) - n)
  BY <1>1, UptoRest DEF Whole
<1> HIDE DEF t
<1>3. (Len(s) - n) % 3 = 0
  BY <1>1
<1>4. QED BY <1>1, <1>2, <1>3 DEF Whole, t

\* The first words of whole events.
LEMMA UptoFirst ==
  ASSUME NEW s \in Seq(JoyWord), NEW n \in 0 .. Len(s), Upto(s, Len(s))
  PROVE  Upto(SubSeq(s, 1, n), n)
<1> DEFINE t == SubSeq(s, 1, n)
<1>1. Len(s) \in Nat /\ \A i \in 1 .. n : t[i] = s[i]
  BY FirstIs, WordsHave
<1> HIDE DEF t
<1>2. SUFFICES ASSUME NEW i \in 1 .. n
               PROVE  /\ t[i].k = KindAt(i)
                      /\ i % 3 # 1 => t[i].n = t[i - 1].n
                      /\ i % 3 = 0 => Means(t[i - 1].x, t[i].x)
  BY DEF Upto, t
<1>3. i \in 1 .. Len(s) /\ t[i] = s[i]
  BY <1>1
<1>4. ASSUME i % 3 # 1 PROVE t[i - 1] = s[i - 1]
  <2>1. i # 1
    BY <1>4
  <2>2. i - 1 \in 1 .. n
    BY <1>3, <2>1
  <2>3. QED BY <1>1, <2>2
<1>5. i % 3 = 0 => i % 3 # 1
  OBVIOUS
<1>6. QED BY <1>3, <1>4, <1>5 DEF Upto

-----------------------------------------------------------------------------
(* What words lead to. *)

\* Words behind words.
LEMMA LeadsBoth ==
  ASSUME NEW s \in Seq(JoyWord), NEW w \in Seq(JoyWord), Len(s) % 3 = 0,
         NEW what, NEW now, NEW mid, NEW goal,
         Leads(s, what, now, mid), Leads(w, what, mid, goal)
  PROVE  Leads(s \o w, what, now, goal)
<1> DEFINE t == s \o w
<1>1. /\ Len(s) \in Nat /\ Len(w) \in Nat /\ Len(t) = Len(s) + Len(w)
      /\ \A i \in 1 .. Len(s) : t[i] = s[i]
      /\ \A i \in Len(s) + 1 .. Len(s) + Len(w) : t[i] = w[i - Len(s)] /\ i - Len(s) \in 1 .. Len(w)
  BY BothAre, WordsHave
<1> HIDE DEF t
<1>2. ASSUME NEW i \in 1 .. Len(s), i % 3 = 0
      PROVE  t[i] = s[i] /\ t[i - 1] = s[i - 1]
  <2>1. i # 1
    BY <1>2
  <2>2. i - 1 \in 1 .. Len(s)
    BY <1>1, <2>1
  <2>3. QED BY <1>1, <2>2
<1>3. ASSUME NEW i \in 1 .. Len(w), i % 3 = 0
      PROVE  t[i + Len(s)] = w[i] /\ t[(i + Len(s)) - 1] = w[i - 1]
  <2>1. i >= 3
    BY <1>3
  <2>2. /\ i + Len(s) \in Len(s) + 1 .. Len(s) + Len(w) /\ (i + Len(s)) - Len(s) = i
        /\ (i + Len(s)) - 1 \in Len(s) + 1 .. Len(s) + Len(w)
        /\ ((i + Len(s)) - 1) - Len(s) = i - 1
    BY <1>1, <2>1
  <2>3. QED BY <1>1, <2>2
<1>4. \A i \in 1 .. Len(s) : About(t, i, what) <=> About(s, i, what)
  BY <1>2 DEF About
<1>5. ASSUME NEW i \in Len(s) + 1 .. Len(t)
      PROVE  i - Len(s) \in 1 .. Len(w) /\ (About(t, i, what) <=> About(w, i - Len(s), what))
  <2> DEFINE j == i - Len(s)
  <2>1. j \in 1 .. Len(w) /\ j + Len(s) = i
    BY <1>1
  <2>2. j % 3 = i % 3
    <3>1. i \in Nat /\ i >= Len(s)
      BY <1>1
    <3>2. QED BY <1>1, <3>1, KindsRepeat
  <2> HIDE DEF j
  <2>3. j % 3 = 0 => t[i] = w[j] /\ t[i - 1] = w[j - 1]
    BY <1>3, <2>1
  <2>4. About(t, i, what) <=> About(w, j, what)
    BY <2>2, <2>3 DEF About
  <2>5. QED BY <2>1, <2>4 DEF j
<1>6. CASE \E i \in 1 .. Len(w) : /\ About(w, i, what) /\ Says(w[i - 1].x, w[i].x) = goal
                                  /\ Silent(w, what, i + 1)
  <2>1. PICK i \in 1 .. Len(w) : /\ About(w, i, what) /\ Says(w[i - 1].x, w[i].x) = goal
                                 /\ Silent(w, what, i + 1)
    BY <1>6
  <2> DEFINE j == i + Len(s)
  <2>2. /\ j \in Len(s) + 1 .. Len(t) /\ j - Len(s) = i /\ j \in 1 .. Len(t)
    BY <1>1
  <2>3. About(t, j, what)
    BY <1>5, <2>1, <2>2
  <2>4. Says(t[j - 1].x, t[j].x) = goal
    BY <1>3, <2>1 DEF About
  <2>5. ASSUME NEW l \in j + 1 .. Len(t) PROVE ~About(t, l, what)
    <3>1. l \in Len(s) + 1 .. Len(t) /\ l - Len(s) \in i + 1 .. Len(w)
      BY <1>1
    <3>2. QED BY <1>5, <2>1, <3>1 DEF Silent
  <2> HIDE DEF j
  <2>6. QED BY <2>2, <2>3, <2>4, <2>5 DEF Leads, Silent, t
<1>7. CASE Silent(w, what, 1) /\ mid = goal
  <2>1. \A l \in Len(s) + 1 .. Len(t) : ~About(t, l, what)
    BY <1>5, <1>7 DEF Silent
  <2>2. CASE Silent(s, what, 1) /\ now = mid
    <3>1. ASSUME NEW l \in 1 .. Len(t) PROVE ~About(t, l, what)
      <4>1. l \in 1 .. Len(s) \/ l \in Len(s) + 1 .. Len(t)
        BY <1>1
      <4>2. QED BY <1>4, <2>1, <2>2, <4>1 DEF Silent
    <3>2. QED BY <1>7, <2>2, <3>1 DEF Leads, Silent, t
  <2>3. CASE \E i \in 1 .. Len(s) : /\ About(s, i, what) /\ Says(s[i - 1].x, s[i].x) = mid
                                    /\ Silent(s, what, i + 1)
    <3>1. PICK i \in 1 .. Len(s) : /\ About(s, i, what) /\ Says(s[i - 1].x, s[i].x) = mid
                                   /\ Silent(s, what, i + 1)
      BY <2>3
    <3>2. t[i] = s[i] /\ t[i - 1] = s[i - 1] /\ About(t, i, what)
      BY <1>2, <1>4, <3>1 DEF About
    <3>3. i \in 1 .. Len(t) /\ Says(t[i - 1].x, t[i].x) = goal
      BY <1>1, <1>7, <3>1, <3>2
    <3>4. ASSUME NEW l \in i + 1 .. Len(t) PROVE ~About(t, l, what)
      <4>1. (l \in 1 .. Len(s) /\ l \in i + 1 .. Len(s)) \/ l \in Len(s) + 1 .. Len(t)
        BY <1>1
      <4>2. QED BY <1>4, <2>1, <3>1, <4>1 DEF Silent
    <3>5. QED BY <3>2, <3>4, <3>3 DEF Leads, Silent, t
  <2>4. QED BY <2>2, <2>3 DEF Leads
<1>8. QED BY <1>6, <1>7 DEF Leads

\* Without the first event.
LEMMA LeadsTake ==
  ASSUME NEW s \in Seq(JoyWord), Len(s) >= 3, NEW what, NEW now, NEW goal,
         Leads(s, what, now, goal)
  PROVE  Leads(SubSeq(s, 4, Len(s)), what,
               IF KeyOf(s[2].x, s[3].x) = what THEN Says(s[2].x, s[3].x) ELSE now, goal)
<1> DEFINE t == SubSeq(s, 4, Len(s))
           sees == IF KeyOf(s[2].x, s[3].x) = what THEN Says(s[2].x, s[3].x) ELSE now
<1>1. /\ Len(s) \in Nat /\ Len(t) = Len(s) - 3
      /\ \A i \in 1 .. Len(t) : t[i] = s[i + 3] /\ i + 3 \in 1 .. Len(s)
  <2>1. Len(s) \in Nat /\ 3 \in 0 .. Len(s) /\ 3 + 1 = 4
    BY WordsHave
  <2> DEFINE u == SubSeq(s, 3 + 1, Len(s))
  <2>2. /\ Len(u) = Len(s) - 3
        /\ \A i \in 1 .. Len(u) : u[i] = s[i + 3] /\ i + 3 \in 1 .. Len(s)
    BY <2>1, RestIs
  <2>3. QED BY <2>1, <2>2
<1> HIDE DEF t
<1>2. ASSUME NEW i \in 1 .. Len(t)
      PROVE  /\ About(t, i, what) <=> About(s, i + 3, what)
             /\ About(t, i, what) => t[i] = s[i + 3] /\ t[i - 1] = s[(i + 3) - 1]
  <2>1. (i + 3) % 3 = i % 3
    OBVIOUS
  <2>2. ASSUME i % 3 = 0 PROVE t[i] = s[i + 3] /\ t[i - 1] = s[(i + 3) - 1]
    <3>1. i >= 3
      BY <2>2
    <3>2. i - 1 \in 1 .. Len(t) /\ (i - 1) + 3 = (i + 3) - 1
      BY <1>1, <3>1
    <3>3. QED BY <1>1, <3>2
  <2>3. QED BY <2>1, <2>2 DEF About
<1>3. About(s, 3, what) <=> KeyOf(s[2].x, s[3].x) = what
  <2>1. 3 % 3 = 0 /\ 3 - 1 = 2
    OBVIOUS
  <2>2. QED BY <2>1 DEF About
<1>4. CASE Silent(s, what, 1) /\ now = goal
  <2>1. ~About(s, 3, what)
    BY <1>1, <1>4 DEF Silent
  <2>2. \A l \in 1 .. Len(t) : ~About(t, l, what)
    BY <1>1, <1>2, <1>4 DEF Silent
  <2>3. QED BY <1>3, <1>4, <2>1, <2>2 DEF Leads, Silent, t
<1>5. CASE \E i \in 1 .. Len(s) : /\ About(s, i, what) /\ Says(s[i - 1].x, s[i].x) = goal
                                  /\ Silent(s, what, i + 1)
  <2>1. PICK i \in 1 .. Len(s) : /\ About(s, i, what) /\ Says(s[i - 1].x, s[i].x) = goal
                                 /\ Silent(s, what, i + 1)
    BY <1>5
  <2>2. i >= 3
    BY <2>1 DEF About
  <2>3. CASE i = 3
    <3>1. sees = goal
      BY <1>3, <2>1, <2>3
    <3>2. ASSUME NEW l \in 1 .. Len(t) PROVE ~About(t, l, what)
      <4>1. l + 3 \in i + 1 .. Len(s)
        BY <1>1, <2>3
      <4>2. QED BY <1>2, <2>1, <4>1 DEF Silent
    <3>3. QED BY <3>1, <3>2 DEF Leads, Silent, t
  <2>4. CASE i > 3
    <3> DEFINE j == i - 3
    <3>1. j \in 1 .. Len(t) /\ j + 3 = i
      BY <1>1, <2>4
    <3> HIDE DEF j
    <3>2. About(t, j, what) /\ Says(t[j - 1].x, t[j].x) = goal
      BY <1>2, <2>1, <3>1
    <3>3. ASSUME NEW l \in j + 1 .. Len(t) PROVE ~About(t, l, what)
      <4>1. l \in 1 .. Len(t) /\ l + 3 \in i + 1 .. Len(s)
        BY <1>1, <3>1
      <4>2. QED BY <1>2, <2>1, <4>1 DEF Silent
    <3>4. QED BY <3>1, <3>2, <3>3 DEF Leads, Silent, t
  <2>5. QED BY <2>2, <2>3, <2>4
<1>6. QED BY <1>4, <1>5 DEF Leads

-----------------------------------------------------------------------------
(* Events that are sent. *)

\* Numbers of events and of their words.
LEMMA WordAt ==
  ASSUME NEW m \in Nat, NEW i \in 1 .. 3 * m
  PROVE  LET e == (i + 2) \div 3
         IN  /\ e \in 1 .. m
             /\ i % 3 = 0 => i = 3 * e /\ (i - 1) % 3 = 2 /\ ((i - 1) + 2) \div 3 = e /\ i - 1 \in 1 .. 3 * m
             /\ i % 3 = 2 => i - 1 \in 1 .. 3 * m /\ ((i - 1) + 2) \div 3 = e
             /\ i % 3 = 1 => \A j \in 1 .. i - 1 : (j + 2) \div 3 < e
             /\ \A j \in 1 .. i - 1 : (j + 2) \div 3 <= e
             /\ i % 3 \in {0, 1, 2}
OBVIOUS

\* The words of events.
LEMMA WordsAre ==
  ASSUME NEW es \in Seq(JoyEvents), NEW n \in Nat \ {0}
  PROVE  LET w == Joystick!Words(es, n)
         IN  /\ w \in Seq(JoyWord) /\ Len(w) = 3 * Len(es) /\ Len(es) \in Nat
             /\ \A i \in 1 .. 3 * Len(es) :
                  /\ w[i].k = KindAt(i) /\ w[i].n = n + ((i + 2) \div 3) - 1
                  /\ i % 3 = 2 => w[i].x = es[(i + 2) \div 3].type
                  /\ i % 3 = 0 => w[i].x = es[(i + 2) \div 3].value
<1> DEFINE w == Joystick!Words(es, n)
           m == Len(es)
<1>1. m \in Nat /\ 3 * m \in Nat /\ \A e \in 1 .. m : es[e] \in JoyEvents
  BY ElementOfSeq, LenProperties
<1>2. \A v \in JoyEvents : /\ v.type \in {"down", "up", "analog"}
                           /\ v.value \in Joystick!PspButtons \cup ((0 .. 1) \X Int)
  BY DEF JoyEvents
<1>3. w = [i \in 1 .. 3 * m |->
             CASE i % 3 = 1 -> [k |-> "magic", n |-> n + ((i + 2) \div 3) - 1]
               [] i % 3 = 2 -> [k |-> "type",  n |-> n + ((i + 2) \div 3) - 1, x |-> es[(i + 2) \div 3].type]
               [] i % 3 = 0 -> [k |-> "value", n |-> n + ((i + 2) \div 3) - 1, x |-> es[(i + 2) \div 3].value]]
  BY DEF Joystick!Words
<1> HIDE DEF w, m
<1>4. ASSUME NEW i \in 1 .. 3 * m
      PROVE  /\ w[i] \in JoyWord /\ w[i].k = KindAt(i) /\ w[i].n = n + ((i + 2) \div 3) - 1
             /\ i % 3 = 2 => w[i].x = es[(i + 2) \div 3].type
             /\ i % 3 = 0 => w[i].x = es[(i + 2) \div 3].value
  <2> DEFINE e == (i + 2) \div 3
             c == n + e - 1
  <2>1. e \in 1 .. m /\ i % 3 \in {0, 1, 2}
    BY <1>1, WordAt
  <2>2. /\ e \in Nat /\ e >= 1 /\ c \in Nat /\ es[e].type \in {"down", "up", "analog"}
        /\ es[e].value \in Joystick!PspButtons \cup ((0 .. 1) \X Int)
    BY <1>1, <1>2, <2>1
  <2>3. w[i] = CASE i % 3 = 1 -> [k |-> "magic", n |-> c]
                 [] i % 3 = 2 -> [k |-> "type",  n |-> c, x |-> es[e].type]
                 [] i % 3 = 0 -> [k |-> "value", n |-> c, x |-> es[e].value]
    BY <1>3
  <2> HIDE DEF e, c
  <2>4. CASE i % 3 = 1
    <3>1. w[i] = [k |-> "magic", n |-> c]
      BY <2>3, <2>4
    <3>2. w[i] \in JoyWord /\ w[i].k = "magic" /\ w[i].n = c
      BY <2>2, <3>1 DEF JoyWord
    <3>3. QED BY <2>4, <3>2 DEF KindAt, c, e
  <2>5. CASE i % 3 = 2
    <3>1. w[i] = [k |-> "type",  n |-> c, x |-> es[e].type]
      BY <2>3, <2>5
    <3>2. w[i] \in JoyWord /\ w[i].k = "type" /\ w[i].n = c /\ w[i].x = es[e].type
      BY <2>2, <3>1 DEF JoyWord
    <3>3. QED BY <2>5, <3>2 DEF KindAt, c, e
  <2>6. CASE i % 3 = 0
    <3>1. w[i] = [k |-> "value",  n |-> c, x |-> es[e].value]
      BY <2>3, <2>6
    <3>2. w[i] \in JoyWord /\ w[i].k = "value" /\ w[i].n = c /\ w[i].x = es[e].value
      BY <2>2, <3>1 DEF JoyWord
    <3>3. QED BY <2>6, <3>2 DEF KindAt, c, e
  <2>7. QED BY <2>1, <2>4, <2>5, <2>6
<1>5. w \in [1 .. 3 * m -> JoyWord]
  <2>1. DOMAIN w = 1 .. 3 * m /\ w = [i \in 1 .. 3 * m |-> w[i]]
    BY <1>3
  <2>2. QED BY <1>4, <2>1
<1>6. w \in Seq(JoyWord) /\ Len(w) = 3 * m
  BY <1>1, <1>5, SeqDef
<1>7. QED BY <1>1, <1>4, <1>6 DEF w, m

\* They are whole and in line behind all that was sent before.
LEMMA WordsInLine ==
  ASSUME NEW es \in Seq(JoyEvents), NEW n \in Nat
  PROVE  /\ Whole(Joystick!Words(es, n + 1))
         /\ InLine(Joystick!Words(es, n + 1), n, n + Len(es))
<1> DEFINE w == Joystick!Words(es, n + 1)
           m == Len(es)
<1>1. n + 1 \in Nat \ {0}
  OBVIOUS
<1>2. /\ Len(w) = 3 * m /\ m \in Nat
      /\ \A i \in 1 .. 3 * m :
           /\ w[i].k = KindAt(i) /\ w[i].n = (n + 1) + ((i + 2) \div 3) - 1
           /\ i % 3 = 2 => w[i].x = es[(i + 2) \div 3].type
           /\ i % 3 = 0 => w[i].x = es[(i + 2) \div 3].value
  BY <1>1, WordsAre
<1> HIDE DEF w
<1>3. \A e \in 1 .. m : es[e] \in JoyEvents /\ es[e] = [type |-> es[e].type, value |-> es[e].value]
  BY ElementOfSeq DEF JoyEvents
<1> HIDE DEF m
<1>4. ASSUME NEW i \in 1 .. 3 * m
      PROVE  /\ w[i].k = KindAt(i)
             /\ i % 3 # 1 => w[i].n = w[i - 1].n
             /\ i % 3 = 0 => Means(w[i - 1].x, w[i].x)
             /\ n < w[i].n /\ w[i].n <= n + m
             /\ \A j \in 1 .. i - 1 : w[j].n <= w[i].n /\ (w[i].k = "magic" => w[j].n < w[i].n)
  <2> DEFINE e == (i + 2) \div 3
  <2>1. /\ e \in 1 .. m
        /\ i % 3 = 0 => i = 3 * e /\ (i - 1) % 3 = 2 /\ ((i - 1) + 2) \div 3 = e /\ i - 1 \in 1 .. 3 * m
        /\ i % 3 = 2 => i - 1 \in 1 .. 3 * m /\ ((i - 1) + 2) \div 3 = e
        /\ i % 3 = 1 => \A j \in 1 .. i - 1 : (j + 2) \div 3 < e
        /\ \A j \in 1 .. i - 1 : (j + 2) \div 3 <= e
        /\ i % 3 \in {0, 1, 2}
    BY <1>2, WordAt
  <2>2. w[i].k = KindAt(i) /\ w[i].n = (n + 1) + e - 1 /\ e \in Nat /\ e >= 1 /\ e <= m
    <3>1. w[i].k = KindAt(i) /\ w[i].n = (n + 1) + e - 1
      BY <1>2
    <3>2. e \in 1 .. m /\ m \in Nat
      BY <1>2, <2>1
    <3> HIDE DEF e
    <3>3. e \in Nat /\ e >= 1 /\ e <= m
      BY <3>2
    <3>4. QED BY <3>1, <3>3
  <2>3. i % 3 # 1 => w[i].n = w[i - 1].n
    BY <1>2, <2>1
  <2>4. ASSUME i % 3 = 0 PROVE Means(w[i - 1].x, w[i].x)
    <3>1. w[i - 1].x = es[e].type /\ w[i].x = es[e].value
      BY <1>2, <2>1, <2>4
    <3>2. QED BY <1>3, <2>1, <3>1 DEF Means
  <2>5. ASSUME NEW j \in 1 .. i - 1
        PROVE  w[j].n <= w[i].n /\ (w[i].k = "magic" => w[j].n < w[i].n)
    <3>1. j \in 1 .. 3 * m /\ (j + 2) \div 3 \in Nat
      BY <1>2
    <3>2. w[j].n = (n + 1) + ((j + 2) \div 3) - 1
      BY <1>2, <3>1
    <3>3. w[i].k = "magic" => i % 3 = 1
      BY <2>2 DEF KindAt
    <3> DEFINE d == (j + 2) \div 3
    <3>4. d <= e /\ (i % 3 = 1 => d < e) /\ d \in Nat
      BY <2>1, <3>1
    <3> HIDE DEF d, e
    <3>5. w[j].n = (n + 1) + d - 1
      BY <3>2 DEF d
    <3>6. QED BY <2>2, <3>3, <3>4, <3>5
  <2>6. n < w[i].n /\ w[i].n <= n + m
    <3> HIDE DEF e
    <3>1. QED BY <1>2, <2>2
  <2>7. QED BY <2>2, <2>3, <2>4, <2>5, <2>6
<1>5. (3 * m) % 3 = 0
  BY <1>2
<1>6. Whole(w)
  BY <1>2, <1>4, <1>5 DEF Whole, Upto
<1>7. ASSUME NEW i \in 1 .. 3 * m, NEW j \in 1 .. 3 * m, i < j
      PROVE  w[i].n <= w[j].n /\ (w[j].k = "magic" => w[i].n < w[j].n)
  <2>1. i \in 1 .. j - 1
    BY <1>2, <1>7
  <2>2. QED BY <1>4, <2>1
<1>8. InLine(w, n, n + m)
  BY <1>2, <1>4, <1>7 DEF InLine
<1>9. QED BY <1>6, <1>8 DEF w, m

\* Words lead where their events do.
LEMMA WordsLead ==
  ASSUME NEW es \in Seq(JoyEvents), NEW n \in Nat \ {0}, NEW what, NEW now, NEW goal,
         Ends(es, what, now, goal)
  PROVE  Leads(Joystick!Words(es, n), what, now, goal)
<1> DEFINE w == Joystick!Words(es, n)
           m == Len(es)
<1>1. /\ Len(w) = 3 * m /\ m \in Nat
      /\ \A i \in 1 .. 3 * m :
           /\ i % 3 = 2 => w[i].x = es[(i + 2) \div 3].type
           /\ i % 3 = 0 => w[i].x = es[(i + 2) \div 3].value
  BY WordsAre
<1> HIDE DEF w
<1>2. ASSUME NEW i \in 1 .. 3 * m, i % 3 = 0
      PROVE  LET e == (i + 2) \div 3
             IN  e \in 1 .. m /\ i = 3 * e /\ w[i - 1].x = es[e].type /\ w[i].x = es[e].value
  <2> DEFINE e == (i + 2) \div 3
  <2>1. /\ e \in 1 .. m /\ i = 3 * e /\ (i - 1) % 3 = 2 /\ ((i - 1) + 2) \div 3 = e
        /\ i - 1 \in 1 .. 3 * m
    BY <1>1, <1>2, WordAt
  <2>2. w[i].x = es[e].value
    BY <1>1, <1>2
  <2>3. w[i - 1].x = es[e].type
    BY <1>1, <2>1
  <2>4. QED BY <2>1, <2>2, <2>3
<1>3. ASSUME NEW e \in 1 .. m
      PROVE  /\ 3 * e \in 1 .. 3 * m /\ (3 * e) % 3 = 0 /\ ((3 * e) + 2) \div 3 = e
             /\ w[(3 * e) - 1].x = es[e].type /\ w[3 * e].x = es[e].value
  <2>1. 3 * e \in 1 .. 3 * m /\ (3 * e) % 3 = 0 /\ ((3 * e) + 2) \div 3 = e
    BY <1>1
  <2>2. QED BY <1>2, <2>1
<1>4. ASSUME NEW i \in 1 .. 3 * m, NEW from \in Nat, i >= from,
             \A l \in 1 .. m : 3 * l >= from => KeyOf(es[l].type, es[l].value) # what
      PROVE  ~About(w, i, what)
  <2>1. SUFFICES ASSUME i % 3 = 0 PROVE KeyOf(w[i - 1].x, w[i].x) # what
    BY DEF About
  <2>2. PICK e \in 1 .. m : i = 3 * e /\ w[i - 1].x = es[e].type /\ w[i].x = es[e].value
    BY <1>2, <2>1
  <2>3. QED BY <1>4, <2>2
<1>5. CASE (\A l \in 1 .. m : KeyOf(es[l].type, es[l].value) # what) /\ now = goal
  <2>1. Silent(w, what, 1)
    <3>1. SUFFICES ASSUME NEW i \in 1 .. Len(w) PROVE ~About(w, i, what)
      BY DEF Silent
    <3>2. i \in 1 .. 3 * m /\ 1 \in Nat /\ i >= 1
      BY <1>1
    <3>3. QED BY <1>4, <1>5, <3>2
  <2>2. QED BY <1>5, <2>1 DEF Leads, w
<1>6. CASE \E e \in 1 .. m :
             /\ KeyOf(es[e].type, es[e].value) = what
             /\ Says(es[e].type, es[e].value) = goal
             /\ \A l \in e + 1 .. m : KeyOf(es[l].type, es[l].value) # what
  <2>1. PICK e \in 1 .. m :
             /\ KeyOf(es[e].type, es[e].value) = what
             /\ Says(es[e].type, es[e].value) = goal
             /\ \A l \in e + 1 .. m : KeyOf(es[l].type, es[l].value) # what
    BY <1>6
  <2>2. About(w, 3 * e, what) /\ Says(w[(3 * e) - 1].x, w[3 * e].x) = goal /\ 3 * e \in 1 .. Len(w)
    BY <1>1, <1>3, <2>1 DEF About
  <2>3. \A l \in 1 .. m : 3 * l >= 3 * e + 1 => KeyOf(es[l].type, es[l].value) # what
    <3>1. SUFFICES ASSUME NEW l \in 1 .. m, 3 * l >= 3 * e + 1 PROVE l \in e + 1 .. m
      BY <2>1
    <3>2. QED BY <1>1, <3>1
  <2>4. Silent(w, what, 3 * e + 1)
    <3>1. SUFFICES ASSUME NEW i \in 3 * e + 1 .. Len(w) PROVE ~About(w, i, what)
      BY DEF Silent
    <3>2. i \in 1 .. 3 * m /\ 3 * e + 1 \in Nat /\ i >= 3 * e + 1
      BY <1>1
    <3>3. QED BY <1>4, <2>3, <3>2
  <2>5. QED BY <2>2, <2>4 DEF Leads, w
<1>7. QED BY <1>5, <1>6 DEF Ends

\* Events behind events.
LEMMA EndsBoth ==
  ASSUME NEW s \in Seq(JoyEvents), NEW w \in Seq(JoyEvents),
         NEW what, NEW now, NEW mid, NEW goal,
         Ends(s, what, now, mid), Ends(w, what, mid, goal)
  PROVE  Ends(s \o w, what, now, goal)
<1> DEFINE t == s \o w
           Key(e) == KeyOf(e.type, e.value)
           Val(e) == Says(e.type, e.value)
<1>1. /\ Len(s) \in Nat /\ Len(w) \in Nat /\ Len(t) = Len(s) + Len(w)
      /\ \A i \in 1 .. Len(s) + Len(w) : t[i] = IF i <= Len(s) THEN s[i] ELSE w[i - Len(s)]
  BY ConcatProperties, LenProperties
<1> HIDE DEF t
<1>2. \A i \in 1 .. Len(s) : t[i] = s[i] /\ i \in 1 .. Len(t)
  BY <1>1
<1>3. \A i \in Len(s) + 1 .. Len(t) : t[i] = w[i - Len(s)] /\ i - Len(s) \in 1 .. Len(w)
  BY <1>1
<1>4. CASE \E e \in 1 .. Len(w) : /\ Key(w[e]) = what /\ Val(w[e]) = goal
                                  /\ \A l \in e + 1 .. Len(w) : Key(w[l]) # what
  <2>1. PICK e \in 1 .. Len(w) : /\ Key(w[e]) = what /\ Val(w[e]) = goal
                                 /\ \A l \in e + 1 .. Len(w) : Key(w[l]) # what
    BY <1>4
  <2> DEFINE i == e + Len(s)
  <2>2. i \in Len(s) + 1 .. Len(t) /\ i \in 1 .. Len(t) /\ i - Len(s) = e
    BY <1>1
  <2>3. t[i] = w[e]
    BY <1>3, <2>2
  <2>4. ASSUME NEW l \in i + 1 .. Len(t) PROVE Key(t[l]) # what
    <3>1. l \in Len(s) + 1 .. Len(t) /\ l - Len(s) \in e + 1 .. Len(w)
      BY <1>1
    <3>2. QED BY <1>3, <2>1, <3>1
  <2> HIDE DEF i
  <2>5. QED BY <2>1, <2>2, <2>3, <2>4 DEF Ends, t
<1>5. CASE (\A l \in 1 .. Len(w) : Key(w[l]) # what) /\ mid = goal
  <2>1. \A l \in Len(s) + 1 .. Len(t) : Key(t[l]) # what
    BY <1>3, <1>5
  <2>2. CASE (\A l \in 1 .. Len(s) : Key(s[l]) # what) /\ now = mid
    <3>1. ASSUME NEW l \in 1 .. Len(t) PROVE Key(t[l]) # what
      <4>1. l \in 1 .. Len(s) \/ l \in Len(s) + 1 .. Len(t)
        BY <1>1
      <4>2. QED BY <1>2, <2>1, <2>2, <4>1
    <3>2. QED BY <1>5, <2>2, <3>1 DEF Ends, t
  <2>3. CASE \E e \in 1 .. Len(s) : /\ Key(s[e]) = what /\ Val(s[e]) = mid
                                    /\ \A l \in e + 1 .. Len(s) : Key(s[l]) # what
    <3>1. PICK e \in 1 .. Len(s) : /\ Key(s[e]) = what /\ Val(s[e]) = mid
                                   /\ \A l \in e + 1 .. Len(s) : Key(s[l]) # what
      BY <2>3
    <3>2. e \in 1 .. Len(t) /\ t[e] = s[e]
      BY <1>2
    <3>3. ASSUME NEW l \in e + 1 .. Len(t) PROVE Key(t[l]) # what
      <4>1. (l \in 1 .. Len(s) /\ l \in e + 1 .. Len(s)) \/ l \in Len(s) + 1 .. Len(t)
        BY <1>1
      <4>2. QED BY <1>2, <2>1, <3>1, <4>1
    <3>4. QED BY <1>5, <3>1, <3>2, <3>3 DEF Ends, t
  <2>4. QED BY <2>2, <2>3 DEF Ends
<1>6. QED BY <1>4, <1>5 DEF Ends

\* No event, and one.
LEMMA EndsFew ==
  ASSUME NEW what, NEW now
  PROVE  /\ Ends(<<>>, what, now, now)
         /\ \A e \in JoyEvents :
              Ends(<<e>>, what, now, IF KeyOf(e.type, e.value) = what
                                     THEN Says(e.type, e.value) ELSE now)
<1>1. Len(<<>>) = 0 /\ \A l \in 1 .. 0 : FALSE
  OBVIOUS
<1>2. Ends(<<>>, what, now, now)
  BY <1>1 DEF Ends
<1>3. ASSUME NEW e \in JoyEvents
      PROVE  Ends(<<e>>, what, now, IF KeyOf(e.type, e.value) = what
                                    THEN Says(e.type, e.value) ELSE now)
  <2> DEFINE es == <<e>>
  <2>1. Len(es) = 1 /\ es[1] = e /\ 1 \in 1 .. Len(es)
    OBVIOUS
  <2>2. \A l \in 1 .. Len(es) : l = 1
    BY <2>1
  <2>3. \A l \in 1 + 1 .. Len(es) : FALSE
    BY <2>1
  <2> HIDE DEF es
  <2>4. CASE KeyOf(e.type, e.value) = what
    BY <2>1, <2>3, <2>4 DEF Ends, es
  <2>5. CASE KeyOf(e.type, e.value) # what
    BY <2>1, <2>2, <2>5 DEF Ends, es
  <2>6. QED BY <2>4, <2>5
<1>4. QED BY <1>2, <1>3

AtMostOne(S) == S = {} \/ \E d \in S : S = {d}

\* An event for each button of a set of one at most.
LEMMA EachIs ==
  ASSUME NEW type \in {"down", "up"}, NEW S \in SUBSET Joystick!PspButtons, AtMostOne(S)
  PROVE  /\ Joystick!Each(type, S) \in Seq(JoyEvents)
         /\ S = {} => Joystick!Each(type, S) = <<>>
         /\ \A d \in S : Joystick!Each(type, S) = <<[type |-> type, value |-> d]>>
<1>1. CASE S = {}
  <2>1. Joystick!Cardinality(S) = 0
    BY <1>1, FS_EmptySet DEF Joystick!Cardinality, Cardinality
  <2>2. Joystick!Each(type, S) = <<>>
    BY <2>1 DEF Joystick!Each
  <2>3. <<>> \in Seq(JoyEvents)
    BY EmptySeq
  <2>4. QED BY <1>1, <2>2, <2>3
<1>2. ASSUME NEW d \in S, S = {d} PROVE Joystick!Each(type, S) = <<[type |-> type, value |-> d]>>
  <2>1. Joystick!Cardinality(S) = 1
    BY <1>2, FS_Singleton DEF Joystick!Cardinality, Cardinality
  <2> DEFINE f == [i \in 1 .. 1 |-> d]
  <2>2. f \in [1 .. 1 -> S] /\ Joystick!IsInjective(f)
    BY <1>2 DEF Joystick!IsInjective
  <2>3. Joystick!SetToSeq(S) \in [1 .. 1 -> S]
    BY <2>1, <2>2 DEF Joystick!SetToSeq
  <2>4. Joystick!SetToSeq(S)[1] = d
    BY <1>2, <2>3
  <2>5. Joystick!Each(type, S)
          = [i \in 1 .. 1 |-> [type |-> type, value |-> Joystick!SetToSeq(S)[i]]]
    BY <2>1 DEF Joystick!Each
  <2>6. QED BY <2>4, <2>5
<1>3. ASSUME NEW d \in S, S = {d}
      PROVE  <<[type |-> type, value |-> d]>> \in Seq(JoyEvents)
  BY <1>3 DEF JoyEvents
<1>4. QED BY <1>1, <1>2, <1>3 DEF AtMostOne

\* It ends with these buttons up or down, and all else as it is.
LEMMA EachEnds ==
  ASSUME NEW type \in {"down", "up"}, NEW S \in SUBSET Joystick!PspButtons, AtMostOne(S)
  PROVE  /\ \A d \in Joystick!PspButtons, X \in SUBSET Joystick!PspButtons :
              Ends(Joystick!Each(type, S), <<"button", d>>, Down(d \in X),
                   Down(d \in IF type = "up" THEN X \ S ELSE X \cup S))
         /\ \A a \in 0 .. 1, now \in Int : Ends(Joystick!Each(type, S), <<"axis", a>>, now, now)
<1>1. CASE S = {}
  <2>1. Joystick!Each(type, S) = <<>>
    BY <1>1, EachIs
  <2>2. \A X : X \ S = X /\ X \cup S = X
    BY <1>1
  <2>3. QED BY <2>1, <2>2, EndsFew
<1>2. ASSUME NEW c \in S, S = {c}
      PROVE  /\ \A d \in Joystick!PspButtons, X \in SUBSET Joystick!PspButtons :
                  Ends(Joystick!Each(type, S), <<"button", d>>, Down(d \in X),
                       Down(d \in IF type = "up" THEN X \ S ELSE X \cup S))
             /\ \A a \in 0 .. 1, now \in Int :
                  Ends(Joystick!Each(type, S), <<"axis", a>>, now, now)
  <2> DEFINE e == [type |-> type, value |-> c]
  <2>1. Joystick!Each(type, S) = <<e>> /\ e \in JoyEvents
    BY <1>2, EachIs DEF JoyEvents
  <2>2. /\ e.type = type /\ e.value = c /\ KeyOf(type, c) = <<"button", c>>
        /\ Says(type, c) = type
    BY DEF KeyOf, Says
  <2>3. ASSUME NEW d \in Joystick!PspButtons, NEW X \in SUBSET Joystick!PspButtons
        PROVE  Ends(<<e>>, <<"button", d>>, Down(d \in X),
                    Down(d \in IF type = "up" THEN X \ S ELSE X \cup S))
    <3>1. Ends(<<e>>, <<"button", d>>, Down(d \in X),
               IF <<"button", c>> = <<"button", d>> THEN type ELSE Down(d \in X))
      BY <2>1, <2>2, EndsFew
    <3>2. (IF <<"button", c>> = <<"button", d>> THEN type ELSE Down(d \in X))
            = Down(d \in IF type = "up" THEN X \ S ELSE X \cup S)
      <4>1. CASE c = d
        <5>1. CASE type = "up"
          BY <1>2, <4>1, <5>1 DEF Down
        <5>2. CASE type = "down"
          BY <1>2, <4>1, <5>2 DEF Down
        <5>3. QED BY <5>1, <5>2
      <4>2. CASE c # d
        <5>1. <<"button", c>> # <<"button", d>>
          BY <4>2
        <5>2. d \in X <=> d \in IF type = "up" THEN X \ S ELSE X \cup S
          BY <1>2, <4>2
        <5>3. QED BY <5>1, <5>2 DEF Down
      <4>3. QED BY <4>1, <4>2
    <3>3. QED BY <3>1, <3>2
  <2>4. ASSUME NEW a \in 0 .. 1, NEW now \in Int PROVE Ends(<<e>>, <<"axis", a>>, now, now)
    <3>1. <<"button", c>> # <<"axis", a>>
      OBVIOUS
    <3>2. QED BY <2>1, <2>2, <3>1, EndsFew
  <2>5. QED BY <2>1, <2>3, <2>4
<1>3. QED BY <1>1, <1>2 DEF AtMostOne

-----------------------------------------------------------------------------
(* The invariant. *)

\* Words on their way, and the number of the event applied last.
Way == ring \o wire
Number == IF applied = <<>> THEN 0 ELSE applied[1].n

JoyTyped ==
  /\ held \subseteq DOMAIN buttmap /\ stick \in [0 .. 1 -> Positions]
  /\ button_state \in SUBSET Joystick!PspButtons
  /\ nsent \in Nat /\ wire \in Seq(JoyWord) /\ ring \in Seq(JoyWord)
  /\ lost \in BOOLEAN /\ reader \in {"read", "flush"}
  /\ Buttons \subseteq Joystick!PspButtons /\ axis \in [0 .. 1 -> Int]

JoyOrder ==
  /\ InLine(Way, Number, nsent)
  /\ Number \in Nat /\ Number <= nsent /\ Joystick!OnlySent

JoyShape ==
  /\ Whole(wire) /\ Len(ring) <= BufSize
  /\ reader = "read" => Whole(ring) \/ Broken(ring)
  /\ ~lost => reader = "read" /\ Whole(ring)

\* The words on their way lead from what the PSP has to what remotejoy meant; an
\* axis that was not moved yet is in the middle.
AxisLeads(a) ==
  \/ Leads(Way, <<"axis", a>>, axis[a], Joystick!Scale(stick[a]))
  \/ stick[a] = 0 /\ Leads(Way, <<"axis", a>>, axis[a], 128)
JoyLeads ==
  /\ \A d \in Joystick!PspButtons :
       Leads(Way, <<"button", d>>, Down(d \in Buttons), Down(d \in button_state))
  /\ analog => \A a \in 0 .. 1 : AxisLeads(a)

JoyInv == /\ JoyTyped /\ Joystick!FollowsJoystick /\ JoyOrder /\ JoyShape
          /\ ~lost => JoyLeads

\* What is on its way.
LEMMA WayIs ==
  ASSUME JoyTyped
  PROVE  /\ Way \in Seq(JoyWord) /\ Len(Way) = Len(ring) + Len(wire)
         /\ Len(ring) \in Nat /\ Len(wire) \in Nat
         /\ \A i \in 1 .. Len(ring) : Way[i] = ring[i]
         /\ \A i \in Len(ring) + 1 .. Len(ring) + Len(wire) :
              Way[i] = wire[i - Len(ring)] /\ i - Len(ring) \in 1 .. Len(wire)
BY BothAre, WordsHave DEF JoyTyped, Way

\* The directions, and the PSP's buttons.
LEMMA DirsAre ==
  /\ Joystick!Dir[0] = [neg |-> "LEFT", pos |-> "RIGHT"]
  /\ Joystick!Dir[1] = [neg |-> "UP", pos |-> "DOWN"]
  /\ \A a \in 0 .. 1 : Joystick!Dir[a].neg \in Joystick!PspButtons
                       /\ Joystick!Dir[a].pos \in Joystick!PspButtons
  /\ \A b \in DOMAIN buttmap : buttmap[b] \in Joystick!PspButtons
<1>1. /\ Joystick!Dir[0] = [neg |-> "LEFT", pos |-> "RIGHT"]
      /\ Joystick!Dir[1] = [neg |-> "UP", pos |-> "DOWN"]
  BY DEF Joystick!Dir
<1>2. \A a \in 0 .. 1 : a = 0 \/ a = 1
  OBVIOUS
<1>3. QED BY <1>1, <1>2 DEF Joystick!PspButtons, Joystick!Directions

\* All that remotejoy has for down is a button of the PSP.
LEMMA StateIs ==
  ASSUME JoyTyped
  PROVE  button_state \in SUBSET Joystick!PspButtons
BY DEF JoyTyped

\* Events are sent: they come last.
LEMMA SendsKeeps ==
  ASSUME JoyTyped, JoyOrder, JoyShape, NEW es \in Seq(JoyEvents), Joystick!Sends(es),
         UNCHANGED Joystick!psp
  PROVE  /\ nsent' \in Nat /\ wire' \in Seq(JoyWord)
         /\ JoyOrder' /\ JoyShape'
         /\ \A what, now, mid, goal :
              ~lost /\ Leads(Way, what, now, mid) /\ Ends(es, what, mid, goal)
                => Leads(Way', what, now, goal)
<1> DEFINE w == Joystick!Words(es, nsent + 1)
           n == nsent + Len(es)
<1>1. /\ nsent \in Nat /\ Len(es) \in Nat /\ nsent + 1 \in Nat \ {0} /\ n \in Nat /\ n >= nsent
      /\ nsent' = n /\ wire' = wire \o w
      /\ wire \in Seq(JoyWord) /\ ring \in Seq(JoyWord)
  BY LenProperties DEF JoyTyped, Joystick!Sends
<1>2. w \in Seq(JoyWord) /\ Whole(w) /\ InLine(w, nsent, n)
  BY <1>1, WordsAre, WordsInLine
<1> HIDE DEF w
<1>3. Way' = Way \o w
  <2>1. ring \o (wire \o w) = (ring \o wire) \o w
    BY <1>1, <1>2, ThreeAre
  <2>2. ring' = ring /\ wire' = wire \o w
    BY <1>1 DEF Joystick!psp
  <2>3. Way' = ring \o (wire \o w)
    BY <2>2 DEF Way
  <2>4. QED BY <2>1, <2>3 DEF Way
<1>4. Way \in Seq(JoyWord)
  BY WayIs
<1>5. wire' \in Seq(JoyWord) /\ Whole(wire')
  BY <1>1, <1>2, BothAre, WholeBoth DEF JoyShape
<1>6. UNCHANGED <<ring, lost, reader, Buttons, axis, applied>> /\ Number' = Number
  BY DEF Joystick!psp, Number
<1>7. JoyShape'
  BY <1>5, <1>6 DEF JoyShape
<1>8. InLine(Way', Number, n)
  <2>1. InLine(Way, Number, nsent) /\ Number \in Nat /\ Number <= nsent
    BY DEF JoyOrder
  <2> DEFINE t == Way \o w
             m == Len(Way)
  <2>2. /\ m \in Nat /\ Len(w) \in Nat /\ Len(t) = m + Len(w)
        /\ \A i \in 1 .. m : t[i] = Way[i] /\ Way[i].n \in Nat
        /\ \A i \in m + 1 .. m + Len(w) : t[i] = w[i - m] /\ i - m \in 1 .. Len(w)
        /\ \A i \in 1 .. Len(w) : w[i].n \in Nat
    BY <1>2, <1>4, BothAre, WordsHave
  <2> HIDE DEF t, m, n
  <2>3. \A i \in 1 .. m : Number < t[i].n /\ t[i].n <= nsent /\ t[i].n \in Nat
    BY <2>1, <2>2 DEF InLine, m
  <2>4. \A i \in m + 1 .. m + Len(w) : nsent < t[i].n /\ t[i].n <= n /\ t[i].n \in Nat
    BY <1>2, <2>2 DEF InLine
  <2>5. \A i \in 1 .. Len(t) : i \in 1 .. m \/ i \in m + 1 .. m + Len(w)
    BY <2>2
  <2>6. \A i \in 1 .. Len(t) : Number < t[i].n /\ t[i].n <= n
    <3>1. SUFFICES ASSUME NEW i \in 1 .. Len(t) PROVE Number < t[i].n /\ t[i].n <= n
      OBVIOUS
    <3>2. CASE i \in 1 .. m
      BY <1>1, <2>1, <2>3, <3>2
    <3>3. CASE i \in m + 1 .. m + Len(w)
      BY <1>1, <2>1, <2>4, <3>3
    <3>4. QED BY <2>5, <3>2, <3>3
  <2>7. ASSUME NEW i \in 1 .. Len(t), NEW j \in 1 .. Len(t), i < j
        PROVE  t[i].n <= t[j].n /\ (t[j].k = "magic" => t[i].n < t[j].n)
    <3>1. CASE j \in 1 .. m
      <4>1. i \in 1 .. m
        BY <2>2, <2>7, <3>1
      <4>2. t[i] = Way[i] /\ t[j] = Way[j]
        BY <2>2, <3>1, <4>1
      <4>3. QED BY <2>1, <2>7, <3>1, <4>1, <4>2 DEF InLine, m
    <3>2. CASE i \in 1 .. m /\ j \in m + 1 .. m + Len(w)
      BY <1>1, <2>3, <2>4, <3>2
    <3>3. CASE i \in m + 1 .. m + Len(w) /\ j \in m + 1 .. m + Len(w)
      <4>1. /\ i - m \in 1 .. Len(w) /\ j - m \in 1 .. Len(w) /\ t[i] = w[i - m] /\ t[j] = w[j - m]
        BY <2>2, <3>3
      <4>2. i - m < j - m
        BY <2>2, <2>7, <3>3
      <4>3. QED BY <1>2, <4>1, <4>2 DEF InLine
    <3>4. i \in m + 1 .. m + Len(w) => j \notin 1 .. m
      BY <2>2, <2>7
    <3>5. QED BY <2>5, <3>1, <3>2, <3>3, <3>4
  <2>8. QED BY <1>3, <2>6, <2>7 DEF InLine, t
<1>9. JoyOrder'
  <2>1. Joystick!OnlySent'
    BY <1>6 DEF JoyOrder, Joystick!OnlySent
  <2>2. Number \in Nat /\ Number <= n
    BY <1>1 DEF JoyOrder
  <2>3. QED BY <1>1, <1>6, <1>8, <2>1, <2>2 DEF JoyOrder
<1>10. ASSUME NEW what, NEW now, NEW mid, NEW goal,
              ~lost, Leads(Way, what, now, mid), Ends(es, what, mid, goal)
       PROVE  Leads(Way', what, now, goal)
  <2>1. Leads(w, what, mid, goal)
    BY <1>1, <1>10, WordsLead DEF w
  <2>2. Len(Way) % 3 = 0
    <3>1. Len(Way) = Len(ring) + Len(wire) /\ Len(ring) \in Nat /\ Len(wire) \in Nat
      BY WayIs
    <3>2. Len(ring) % 3 = 0 /\ Len(wire) % 3 = 0
      BY <1>10 DEF JoyShape, Whole
    <3>3. (Len(ring) + Len(wire)) % 3 = Len(ring) % 3
      BY <3>1, <3>2, KindsRepeat
    <3>4. QED BY <3>1, <3>2, <3>3
  <2>3. QED BY <1>2, <1>3, <1>4, <1>10, <2>1, <2>2, LeadsBoth
<1>11. QED BY <1>1, <1>5, <1>7, <1>9, <1>10

-----------------------------------------------------------------------------
(* The PC's side. *)

\* A direction that the stick st is in, and what the buttons h mean in the state bs.
Pointed(d, st) == \E c \in 0 .. 1 : \/ st[c] > tol /\ d = Joystick!Dir[c].pos
                                    \/ st[c] < -tol /\ d = Joystick!Dir[c].neg
Pressed(bs, h) ==
  \A b \in DOMAIN buttmap :
    /\ Joystick!Meaning(buttmap[b]) \subseteq h => buttmap[b] \in bs
    /\ Joystick!Meaning(buttmap[b]) \cap h = {} => buttmap[b] \notin bs

\* What FollowsJoystick says, button by button.
LEMMA FollowsIs ==
  Joystick!FollowsJoystick <=>
    /\ Pressed(button_state, held)
    /\ \A d \in Joystick!Directions : d \in button_state <=> Pointed(d, stick)
<1>1. \A d : Pointed(d, stick) => d \in Joystick!Directions
  <2>1. \A c \in 0 .. 1 : c = 0 \/ c = 1
    OBVIOUS
  <2>2. QED BY <2>1, DirsAre DEF Pointed, Joystick!Directions
<1>2. Joystick!FollowsJoystick <=>
        /\ Pressed(button_state, held)
        /\ \A d : d \in button_state /\ d \in Joystick!Directions <=> Pointed(d, stick)
  BY DEF Joystick!FollowsJoystick, Pressed, Pointed
<1>3. QED BY <1>1, <1>2

\* The same of the state behind a step.
LEMMA FollowsThen ==
  ASSUME Pressed(button_state', held'),
         \A d \in Joystick!Directions : d \in button_state' <=> Pointed(d, stick')
  PROVE  Joystick!FollowsJoystick'
<1>1. \A d : Pointed(d, stick') => d \in Joystick!Directions
  <2>1. \A c \in 0 .. 1 : c = 0 \/ c = 1
    OBVIOUS
  <2>2. QED BY <2>1, DirsAre DEF Pointed, Joystick!Directions
<1>2. \A d : d \in button_state' /\ d \in Joystick!Directions <=> Pointed(d, stick')
  BY <1>1
<1>3. QED BY <1>2 DEF Joystick!FollowsJoystick, Pressed, Pointed

\* A direction is one axis' and no button's.
LEMMA DirsApart ==
  ASSUME NEW a \in 0 .. 1
  PROVE  /\ Joystick!Dir[a].neg # Joystick!Dir[a].pos
         /\ {Joystick!Dir[a].neg, Joystick!Dir[a].pos} \subseteq Joystick!Directions
         /\ \A c \in 0 .. 1 : c # a =>
              /\ Joystick!Dir[c].neg \notin {Joystick!Dir[a].neg, Joystick!Dir[a].pos}
              /\ Joystick!Dir[c].pos \notin {Joystick!Dir[a].neg, Joystick!Dir[a].pos}
         /\ \A b \in DOMAIN buttmap :
              buttmap[b] \notin {Joystick!Dir[a].neg, Joystick!Dir[a].pos}
<1>1. \A c \in 0 .. 1 : c = 0 \/ c = 1
  OBVIOUS
<1>2. {Joystick!Dir[a].neg, Joystick!Dir[a].pos} \subseteq Joystick!Directions
  BY <1>1, DirsAre DEF Joystick!Directions
<1>3. \A b \in DOMAIN buttmap : buttmap[b] \notin Joystick!Directions
  BY JoyConstants
<1>4. QED BY <1>1, <1>2, <1>3, DirsAre

\* A button is pressed or released.
LEMMA ButtonKeeps ==
  ASSUME JoyInv, NEW b \in DOMAIN buttmap, Joystick!Button(b)
  PROVE  JoyInv' /\ applied' = applied
<1> DEFINE bit  == buttmap[b]
           type == IF b \notin held THEN "down" ELSE "up"
           e    == [type |-> type, value |-> bit]
<1>1. /\ held' = IF b \notin held THEN held \cup {b} ELSE held \ {b}
      /\ button_state' = IF b \notin held THEN button_state \cup {bit} ELSE button_state \ {bit}
      /\ Joystick!Sends(<<e>>) /\ UNCHANGED Joystick!psp /\ stick' = stick
  BY DEF Joystick!Button
<1>2. UNCHANGED <<ring, lost, reader, Buttons, axis, applied>>
  BY <1>1 DEF Joystick!psp
<1>3. bit \in Joystick!PspButtons /\ type \in {"down", "up"}
  BY DirsAre
<1>4. e \in JoyEvents /\ <<e>> \in Seq(JoyEvents)
  <2>1. e \in JoyEvents
    BY <1>3 DEF JoyEvents
  <2>2. QED BY <2>1
<1>5. /\ nsent' \in Nat /\ wire' \in Seq(JoyWord) /\ JoyOrder' /\ JoyShape'
      /\ \A what, now, mid, goal :
           ~lost /\ Leads(Way, what, now, mid) /\ Ends(<<e>>, what, mid, goal)
             => Leads(Way', what, now, goal)
  BY <1>1, <1>4, SendsKeeps DEF JoyInv
<1>6. JoyTyped'
  BY <1>1, <1>2, <1>3, <1>5 DEF JoyInv, JoyTyped
<1>7. Joystick!FollowsJoystick'
  <2>1. /\ Pressed(button_state, held)
        /\ \A d \in Joystick!Directions : d \in button_state <=> Pointed(d, stick)
    BY FollowsIs DEF JoyInv
  <2>2. bit \notin Joystick!Directions /\ held \subseteq DOMAIN buttmap
    BY JoyConstants DEF JoyInv, JoyTyped
  <2>3. \A d \in Joystick!Directions : d \in button_state' <=> Pointed(d, stick')
    BY <1>1, <2>1, <2>2
  <2>4. Pressed(button_state', held')
    <3>1. b \in Joystick!Meaning(bit)
      BY DEF Joystick!Meaning
    <3>2. \A p : p # bit => b \notin Joystick!Meaning(p)
      BY DEF Joystick!Meaning
    <3>3. /\ b \notin held => b \in held' /\ bit \in button_state'
          /\ b \in held => b \notin held' /\ bit \notin button_state'
          /\ \A c : c # b => (c \in held' <=> c \in held)
          /\ \A p : p # bit => (p \in button_state' <=> p \in button_state)
      BY <1>1
    <3> HIDE DEF bit
    <3>4. \A p : p # bit =>
            /\ Joystick!Meaning(p) \subseteq held' <=> Joystick!Meaning(p) \subseteq held
            /\ Joystick!Meaning(p) \cap held' = {} <=> Joystick!Meaning(p) \cap held = {}
      BY <3>2, <3>3
    <3>5. /\ Joystick!Meaning(bit) \subseteq held' => bit \in button_state'
          /\ Joystick!Meaning(bit) \cap held' = {} => bit \notin button_state'
      BY <3>1, <3>3
    <3>6. QED BY <2>1, <3>3, <3>4, <3>5 DEF Pressed
  <2>5. QED BY <2>3, <2>4, FollowsThen
<1>8. ASSUME ~lost' PROVE JoyLeads'
  <2>1. ~lost /\ JoyLeads
    BY <1>2, <1>8 DEF JoyInv
  <2>2. KeyOf(e.type, e.value) = <<"button", bit>> /\ Says(e.type, e.value) = type
    BY <1>3 DEF KeyOf, Says
  <2>3. ASSUME NEW d \in Joystick!PspButtons
        PROVE  Leads(Way', <<"button", d>>, Down(d \in Buttons'), Down(d \in button_state'))
    <3>1. Ends(<<e>>, <<"button", d>>, Down(d \in button_state),
               IF <<"button", bit>> = <<"button", d>> THEN type ELSE Down(d \in button_state))
      BY <1>4, <2>2, EndsFew
    <3>2. (IF <<"button", bit>> = <<"button", d>> THEN type ELSE Down(d \in button_state))
            = Down(d \in button_state')
      <4>1. CASE d = bit
        BY <1>1, <4>1 DEF Down
      <4>2. CASE d # bit
        <5>1. <<"button", bit>> # <<"button", d>>
          BY <4>2
        <5>2. d \in button_state' <=> d \in button_state
          BY <1>1, <4>2
        <5>3. QED BY <5>1, <5>2 DEF Down
      <4>3. QED BY <4>1, <4>2
    <3>3. Ends(<<e>>, <<"button", d>>, Down(d \in button_state), Down(d \in button_state'))
      BY <3>1, <3>2
    <3>4. Leads(Way, <<"button", d>>, Down(d \in Buttons), Down(d \in button_state))
      BY <2>1 DEF JoyLeads
    <3>5. QED BY <1>2, <1>5, <2>1, <3>3, <3>4
  <2>4. ASSUME analog, NEW a \in 0 .. 1 PROVE AxisLeads(a)'
    <3>1. \A x : Ends(<<e>>, <<"axis", a>>, x, x)
      <4>1. <<"button", bit>> # <<"axis", a>>
        OBVIOUS
      <4>2. QED BY <1>4, <2>2, <4>1, EndsFew
    <3>2. AxisLeads(a)
      BY <2>1, <2>4 DEF JoyLeads
    <3>3. \A x : Leads(Way, <<"axis", a>>, axis[a], x) => Leads(Way', <<"axis", a>>, axis[a], x)
      BY <1>5, <2>1, <3>1
    <3>4. axis' = axis /\ stick' = stick
      BY <1>1, <1>2
    <3>5. QED BY <3>2, <3>3, <3>4 DEF AxisLeads, Joystick!Scale
  <2>5. QED BY <2>3, <2>4 DEF JoyLeads
<1>9. QED BY <1>2, <1>5, <1>6, <1>7, <1>8 DEF JoyInv

\* What goes up and down with the stick, one of each at most.
LEMMA AxisIs ==
  ASSUME JoyInv, NEW a \in 0 .. 1, NEW v \in Positions, Joystick!Axis(a, v)
  PROVE  \E up, down \in SUBSET Joystick!PspButtons :
           /\ AtMostOne(up) /\ AtMostOne(down)
           /\ button_state' = (button_state \ up) \cup down
           /\ Joystick!Sends(Joystick!Each("up", up) \o Joystick!Each("down", down)
                \o IF analog THEN <<[type |-> "analog", value |-> <<a, Joystick!Scale(v)>>]>> ELSE <<>>)
           /\ \A d \in Joystick!Directions : d \in button_state' <=> Pointed(d, stick')
           /\ \A d : d \notin Joystick!Directions => (d \in button_state' <=> d \in button_state)
<1> DEFINE neg  == Joystick!Dir[a].neg
           pos  == Joystick!Dir[a].pos
           curr == CASE v > tol -> {pos} [] v < -tol -> {neg} [] OTHER -> {}
           up   == Joystick!Released(a, curr)
           down == curr \ button_state
<1>1. /\ stick' = [stick EXCEPT ![a] = v]
      /\ button_state' = (button_state \ up) \cup curr
      /\ Joystick!Sends(Joystick!Each("up", up) \o Joystick!Each("down", down)
           \o IF analog THEN <<[type |-> "analog", value |-> <<a, Joystick!Scale(v)>>]>> ELSE <<>>)
  BY DEF Joystick!Axis
<1>2. v \in Int /\ tol \in Nat /\ \A c \in 0 .. 1 : stick[c] \in Int
  BY JoyConstants DEF JoyInv, JoyTyped
<1>3. /\ neg # pos /\ neg \in Joystick!PspButtons /\ pos \in Joystick!PspButtons
      /\ \A c \in 0 .. 1 : c # a => /\ Joystick!Dir[c].neg \notin {neg, pos}
                                    /\ Joystick!Dir[c].pos \notin {neg, pos}
      /\ {neg, pos} \subseteq Joystick!Directions
  BY DirsApart, DirsAre
<1>4. \A d \in Joystick!Directions : d \in button_state <=> Pointed(d, stick)
  BY FollowsIs DEF JoyInv
<1>5. /\ v > tol => curr = {pos}
      /\ v < -tol => curr = {neg}
      /\ ~(v > tol) /\ ~(v < -tol) => curr = {}
      /\ ~(v > tol /\ v < -tol)
  BY <1>2
<1>6. up = {neg, pos} \cap (button_state \ curr)
  BY DEF Joystick!Released
<1> HIDE DEF curr, up
<1>7. \A d \in {neg, pos} : Pointed(d, stick) <=> \/ stick[a] > tol /\ d = pos
                                                  \/ stick[a] < -tol /\ d = neg
  BY <1>3 DEF Pointed
<1>8. AtMostOne(up)
  <2>1. ~(neg \in button_state /\ pos \in button_state)
    <3>1. SUFFICES ASSUME neg \in button_state, pos \in button_state PROVE FALSE
      OBVIOUS
    <3>2. stick[a] > tol /\ stick[a] < -tol
      BY <1>3, <1>4, <1>7, <3>1
    <3>3. QED BY <1>2, <3>2
  <2>2. up = {} \/ up = {neg} \/ up = {pos}
    BY <1>6, <2>1
  <2>3. QED BY <2>2 DEF AtMostOne
<1>9. curr \subseteq {neg, pos} /\ AtMostOne(down)
  <2>1. curr = {} \/ curr = {neg} \/ curr = {pos}
    BY <1>5
  <2>2. down = {} \/ down = curr
    BY <2>1
  <2>3. QED BY <2>1, <2>2 DEF AtMostOne
<1>10. button_state' = (button_state \ up) \cup down
  BY <1>1, <1>6
<1>11. ASSUME NEW d \in Joystick!Directions PROVE d \in button_state' <=> Pointed(d, stick')
  <2>1. stick'[a] = v /\ \A c \in 0 .. 1 : c # a => stick'[c] = stick[c]
    BY <1>1 DEF JoyInv, JoyTyped
  <2>2. CASE d \notin {neg, pos}
    <3>1. Pointed(d, stick') <=> Pointed(d, stick)
      BY <2>1, <2>2 DEF Pointed
    <3>2. QED BY <1>1, <1>4, <1>6, <1>9, <2>2, <3>1
  <2>3. CASE d \in {neg, pos}
    <3>1. Pointed(d, stick') <=> \/ v > tol /\ d = pos
                                 \/ v < -tol /\ d = neg
      BY <1>3, <2>1, <2>3 DEF Pointed
    <3>2. Pointed(d, stick') <=> d \in curr
      BY <1>3, <1>5, <2>3, <3>1
    <3>3. d \in button_state' <=> d \in curr
      BY <1>1, <1>6, <2>3
    <3>4. QED BY <1>3, <2>3, <3>2, <3>3
  <2>4. QED BY <2>2, <2>3
<1>12. up \in SUBSET Joystick!PspButtons /\ down \in SUBSET Joystick!PspButtons
  BY <1>3, <1>6, <1>9
<1>13. \A d : d \notin Joystick!Directions => (d \in button_state' <=> d \in button_state)
  BY <1>1, <1>3, <1>6, <1>9
<1>14. QED BY <1>1, <1>8, <1>9, <1>10, <1>11, <1>12, <1>13

\* An axis moves.
LEMMA AxisKeeps ==
  ASSUME JoyInv, NEW a \in 0 .. 1, NEW v \in Positions, Joystick!Axis(a, v)
  PROVE  JoyInv' /\ applied' = applied
<1> DEFINE moved == [type |-> "analog", value |-> <<a, Joystick!Scale(v)>>]
           last  == IF analog THEN <<moved>> ELSE <<>>
<1>1. PICK up \in SUBSET Joystick!PspButtons, down \in SUBSET Joystick!PspButtons :
        /\ AtMostOne(up) /\ AtMostOne(down)
        /\ button_state' = (button_state \ up) \cup down
        /\ Joystick!Sends(Joystick!Each("up", up) \o Joystick!Each("down", down) \o last)
        /\ \A d \in Joystick!Directions : d \in button_state' <=> Pointed(d, stick')
        /\ \A d : d \notin Joystick!Directions => (d \in button_state' <=> d \in button_state)
  BY AxisIs
<1> DEFINE A  == Joystick!Each("up", up)
           B  == Joystick!Each("down", down)
           es == (A \o B) \o last
<1>2. /\ stick' = [stick EXCEPT ![a] = v] /\ held' = held /\ UNCHANGED Joystick!psp
  BY DEF Joystick!Axis
<1>3. UNCHANGED <<ring, lost, reader, Buttons, axis, applied>>
  BY <1>2 DEF Joystick!psp
<1>4. v \in Int /\ Joystick!Scale(v) \in Int /\ moved \in JoyEvents
  <2>1. v \in Int
    BY JoyConstants
  <2>2. Joystick!Scale(v) \in Int
    BY <2>1 DEF Joystick!Scale
  <2>3. QED BY <2>1, <2>2 DEF JoyEvents
<1>5. last \in Seq(JoyEvents)
  BY <1>4, EmptySeq
<1>6. A \in Seq(JoyEvents) /\ B \in Seq(JoyEvents)
  BY <1>1, EachIs
<1> HIDE DEF A, B, last, moved
<1>7. A \o B \in Seq(JoyEvents)
  BY <1>6, ConcatProperties
<1>8. es \in Seq(JoyEvents)
  BY <1>5, <1>7, ConcatProperties
<1> HIDE DEF es
<1>9. /\ nsent' \in Nat /\ wire' \in Seq(JoyWord) /\ JoyOrder' /\ JoyShape'
      /\ \A what, now, mid, goal :
           ~lost /\ Leads(Way, what, now, mid) /\ Ends(es, what, mid, goal)
             => Leads(Way', what, now, goal)
  BY <1>1, <1>2, <1>8, SendsKeeps DEF JoyInv, A, B, es
<1>10. JoyTyped'
  BY <1>1, <1>2, <1>3, <1>9 DEF JoyInv, JoyTyped
<1>11. Joystick!FollowsJoystick'
  <2>1. Pressed(button_state, held)
    BY FollowsIs DEF JoyInv
  <2>2. \A b \in DOMAIN buttmap : buttmap[b] \notin Joystick!Directions
    BY JoyConstants
  <2>3. Pressed(button_state', held')
    BY <1>1, <1>2, <2>1, <2>2 DEF Pressed
  <2>4. QED BY <1>1, <2>3, FollowsThen
<1>12. \A what, x, y, z : Ends(A, what, x, y) /\ Ends(B, what, y, z) => Ends(A \o B, what, x, z)
  BY <1>6, EndsBoth
<1>13. \A what, x, y, z : Ends(A \o B, what, x, y) /\ Ends(last, what, y, z) => Ends(es, what, x, z)
  BY <1>5, <1>7, EndsBoth DEF es
<1>14. \A what, x : (analog => what # <<"axis", a>>) => Ends(last, what, x, x)
  <2>1. KeyOf(moved.type, moved.value) = <<"axis", a>>
    BY DEF moved, KeyOf
  <2>2. SUFFICES ASSUME NEW what, NEW x, analog => what # <<"axis", a>> PROVE Ends(last, what, x, x)
    OBVIOUS
  <2>3. CASE analog
    BY <1>4, <2>1, <2>2, <2>3, EndsFew DEF last
  <2>4. CASE ~analog
    BY <2>4, EndsFew DEF last
  <2>5. QED BY <2>3, <2>4
<1>15. \A x : analog => Ends(last, <<"axis", a>>, x, Joystick!Scale(v))
  <2>1. KeyOf(moved.type, moved.value) = <<"axis", a>> /\ Says(moved.type, moved.value) = Joystick!Scale(v)
    BY DEF moved, KeyOf, Says
  <2>2. QED BY <1>4, <2>1, EndsFew DEF last
<1>16. ASSUME ~lost' PROVE JoyLeads'
  <2>1. ~lost /\ JoyLeads
    BY <1>3, <1>16 DEF JoyInv
  <2>2. button_state \in SUBSET Joystick!PspButtons
    BY StateIs DEF JoyInv
  <2>3. ASSUME NEW d \in Joystick!PspButtons
        PROVE  Leads(Way', <<"button", d>>, Down(d \in Buttons'), Down(d \in button_state'))
    <3> DEFINE rest == button_state \ up
    <3>1. Ends(A, <<"button", d>>, Down(d \in button_state), Down(d \in rest))
      BY <1>1, <2>2, EachEnds DEF A
    <3>2. Ends(B, <<"button", d>>, Down(d \in rest), Down(d \in rest \cup down))
      <4>1. rest \in SUBSET Joystick!PspButtons /\ "down" # "up"
        BY <2>2
      <4> HIDE DEF rest
      <4>2. QED BY <1>1, <4>1, EachEnds DEF B
    <3>3. <<"button", d>> # <<"axis", a>>
      OBVIOUS
    <3>4. Ends(es, <<"button", d>>, Down(d \in button_state), Down(d \in button_state'))
      BY <1>1, <1>12, <1>13, <1>14, <3>1, <3>2, <3>3
    <3>5. Leads(Way, <<"button", d>>, Down(d \in Buttons), Down(d \in button_state))
      BY <2>1 DEF JoyLeads
    <3>6. QED BY <1>3, <1>9, <2>1, <3>4, <3>5
  <2>4. ASSUME analog, NEW c \in 0 .. 1 PROVE AxisLeads(c)'
    <3>1. AxisLeads(c) /\ axis' = axis /\ c \in DOMAIN stick
      BY <1>3, <2>1, <2>4 DEF JoyLeads, JoyInv, JoyTyped
    <3>2. \A x \in Int : Ends(A \o B, <<"axis", c>>, x, x)
      BY <1>1, <1>12, EachEnds DEF A, B
    <3>3. Joystick!Scale(stick[c]) \in Int /\ 128 \in Int
      <4>1. stick[c] \in Int
        BY JoyConstants DEF JoyInv, JoyTyped
      <4>2. QED BY <4>1 DEF Joystick!Scale
    <3>4. CASE c = a
      <4>1. \A x \in Int : Ends(es, <<"axis", c>>, x, Joystick!Scale(v))
        BY <1>13, <1>15, <2>4, <3>2, <3>4
      <4>2. \E x \in Int : Leads(Way, <<"axis", c>>, axis[c], x)
        BY <3>1, <3>3 DEF AxisLeads
      <4>3. Leads(Way', <<"axis", c>>, axis[c], Joystick!Scale(v))
        BY <1>9, <2>1, <4>1, <4>2
      <4>4. stick'[c] = v
        BY <1>2, <3>1, <3>4
      <4>5. Joystick!Scale(stick[c])' = Joystick!Scale(v)
        BY <4>4 DEF Joystick!Scale
      <4>6. QED BY <3>1, <4>3, <4>5 DEF AxisLeads
    <3>5. CASE c # a
      <4>1. <<"axis", c>> # <<"axis", a>>
        BY <3>5
      <4>2. \A x \in Int : Ends(es, <<"axis", c>>, x, x)
        BY <1>13, <1>14, <3>2, <4>1
      <4>3. \A x \in Int : Leads(Way, <<"axis", c>>, axis[c], x)
                             => Leads(Way', <<"axis", c>>, axis[c], x)
        BY <1>9, <2>1, <4>2
      <4>4. stick'[c] = stick[c]
        BY <1>2, <3>1, <3>5 DEF JoyInv, JoyTyped
      <4>5. Joystick!Scale(stick[c])' = Joystick!Scale(stick[c])
        BY <4>4 DEF Joystick!Scale
      <4>6. QED BY <3>1, <3>3, <4>3, <4>4, <4>5 DEF AxisLeads
    <3>6. QED BY <3>4, <3>5
  <2>5. QED BY <2>3, <2>4 DEF JoyLeads
<1>17. QED BY <1>3, <1>9, <1>10, <1>11, <1>16 DEF JoyInv

-----------------------------------------------------------------------------
(* The channel and the PSP's side. *)

\* A piece is forwarded: some of its words may be dropped.
LEMMA ForwardIs ==
  ASSUME JoyInv, Joystick!Forward
  PROVE  \E n \in 1 .. Len(wire), fits \in 0 .. Len(wire) :
           /\ fits <= n
           /\ n % 3 = 0 /\ fits <= BufSize - Len(ring)
           /\ fits < n => fits = BufSize - Len(ring)
           /\ wire' = SubSeq(wire, n + 1, Len(wire))
           /\ ring' = ring \o SubSeq(wire, 1, fits)
           /\ lost' = (lost \/ fits < n)
<1> DEFINE n    == IF Len(wire) < Chunk THEN Len(wire) ELSE Chunk
           free == BufSize - Len(ring)
           fits == IF n < free THEN n ELSE free
<1>1. /\ wire # <<>>
      /\ wire' = SubSeq(wire, n + 1, Len(wire))
      /\ ring' = ring \o SubSeq(wire, 1, fits)
      /\ lost' = (lost \/ fits < n)
  BY DEF Joystick!Forward
<1>2. /\ Len(wire) \in Nat /\ Len(wire) > 0 /\ Len(wire) % 3 = 0 /\ Len(ring) \in Nat
      /\ BufSize \in Nat /\ Len(ring) <= BufSize
      /\ Chunk \in Nat /\ Chunk % 3 = 0 /\ Chunk > 0
  <2>1. wire \in Seq(JoyWord) /\ ring \in Seq(JoyWord)
    BY DEF JoyInv, JoyTyped
  <2>2. Len(wire) \in Nat /\ Len(wire) # 0 /\ Len(ring) \in Nat
    BY <1>1, <2>1, EmptySeq, WordsHave
  <2>3. QED BY <2>2, JoyConstants DEF JoyInv, JoyShape, Whole
<1>3. n \in 1 .. Len(wire) /\ n % 3 = 0
  <2>1. CASE Len(wire) < Chunk
    BY <1>2, <2>1
  <2>2. CASE ~(Len(wire) < Chunk)
    <3>1. n = Chunk /\ Chunk % 3 = 0
      BY <1>2, <2>2
    <3>2. Chunk \in 1 .. Len(wire)
      <4>1. Chunk \in Nat /\ Chunk > 0 /\ Len(wire) \in Nat
        BY <1>2
      <4>2. QED BY <2>2, <4>1
    <3>3. QED BY <3>1, <3>2
  <2>3. QED BY <2>1, <2>2
<1>4. fits \in 0 .. Len(wire) /\ fits <= n /\ fits <= free /\ (fits < n => fits = free)
  <2>1. n \in Nat /\ free \in Nat /\ n <= Len(wire) /\ Len(wire) \in Nat
    BY <1>2, <1>3
  <2> HIDE DEF n, free
  <2>2. QED BY <2>1
<1>5. QED BY <1>1, <1>3, <1>4

\* The words dropped are none of those that stay, and those keep their order.
LEMMA ForwardKeeps ==
  ASSUME JoyInv, Joystick!Forward
  PROVE  JoyInv' /\ applied' = applied
<1>1. PICK n \in 1 .. Len(wire), fits \in 0 .. Len(wire) :
        /\ fits <= n
        /\ n % 3 = 0 /\ fits <= BufSize - Len(ring)
        /\ fits < n => fits = BufSize - Len(ring)
        /\ wire' = SubSeq(wire, n + 1, Len(wire))
        /\ ring' = ring \o SubSeq(wire, 1, fits)
        /\ lost' = (lost \/ fits < n)
  BY ForwardIs
<1>2. UNCHANGED <<held, stick, button_state, nsent, reader, Buttons, axis, applied>>
  BY DEF Joystick!Forward
<1>3. /\ wire \in Seq(JoyWord) /\ ring \in Seq(JoyWord) /\ Len(wire) \in Nat /\ Len(ring) \in Nat
      /\ BufSize \in Nat /\ Whole(wire) /\ Len(ring) <= BufSize
  BY WordsHave, JoyConstants DEF JoyInv, JoyTyped, JoyShape
<1>4. /\ n \in 0 .. Len(wire) /\ fits \in 0 .. Len(wire) /\ n \in Nat /\ fits \in Nat
      /\ fits <= n /\ (~lost' => ~lost /\ fits = n)
  <2>1. fits <= n /\ (lost' = (lost \/ fits < n))
    BY <1>1
  <2>2. n \in 1 .. Len(wire) /\ fits \in 0 .. Len(wire) /\ Len(wire) \in Nat
    BY <1>3
  <2>3. n \in 0 .. Len(wire) /\ n \in Nat /\ fits \in Nat /\ (~(fits < n) => fits = n)
    BY <2>1, <2>2
  <2>4. ~lost' => ~lost /\ ~(fits < n)
    BY <2>1
  <2>5. QED BY <2>1, <2>2, <2>3, <2>4
<1> DEFINE piece == SubSeq(wire, 1, fits)
<1>5. /\ wire' \in Seq(JoyWord) /\ Len(wire') = Len(wire) - n /\ Whole(wire')
      /\ \A i \in 1 .. Len(wire') : wire'[i] = wire[i + n] /\ i + n \in 1 .. Len(wire)
  BY <1>1, <1>3, <1>4, RestIs, WholeRest
<1>6. /\ piece \in Seq(JoyWord) /\ Len(piece) = fits /\ Upto(piece, fits)
      /\ \A i \in 1 .. fits : piece[i] = wire[i]
  BY <1>3, <1>4, FirstIs, UptoFirst DEF Whole
<1> HIDE DEF piece
<1>7. /\ ring' = ring \o piece /\ ring' \in Seq(JoyWord) /\ Len(ring') = Len(ring) + fits
      /\ \A i \in 1 .. Len(ring) : ring'[i] = ring[i]
      /\ \A i \in Len(ring) + 1 .. Len(ring) + fits :
           ring'[i] = piece[i - Len(ring)] /\ i - Len(ring) \in 1 .. fits
  BY <1>1, <1>3, <1>6, BothAre DEF piece
<1>8. JoyTyped'
  BY <1>1, <1>2, <1>4, <1>5, <1>7 DEF JoyInv, JoyTyped
<1>9. Joystick!FollowsJoystick'
  BY <1>2 DEF JoyInv, Joystick!FollowsJoystick
<1> DEFINE k == Len(ring) + fits
           g == n - fits
           f == [i \in 1 .. Len(Way') |-> IF i <= k THEN i ELSE i + g]
<1>10. k \in Nat /\ g \in Nat
  BY <1>3, <1>4
<1>11. /\ Way' \in Seq(JoyWord) /\ Len(Way') = Len(Way) - g /\ Len(Way') \in Nat
       /\ \A i \in 1 .. Len(Way') : f[i] \in 1 .. Len(Way) /\ Way'[i] = Way[f[i]]
  <2>1. /\ Way \in Seq(JoyWord) /\ Len(Way) = Len(ring) + Len(wire)
        /\ \A i \in 1 .. Len(ring) : Way[i] = ring[i]
        /\ \A i \in Len(ring) + 1 .. Len(ring) + Len(wire) : Way[i] = wire[i - Len(ring)]
    BY WayIs DEF JoyInv
  <2>2. Way' = ring' \o wire'
    BY DEF Way
  <2>3. /\ Way' \in Seq(JoyWord) /\ Len(Way') = Len(ring') + Len(wire')
        /\ \A i \in 1 .. Len(ring') : Way'[i] = ring'[i]
        /\ \A i \in Len(ring') + 1 .. Len(ring') + Len(wire') :
             Way'[i] = wire'[i - Len(ring')] /\ i - Len(ring') \in 1 .. Len(wire')
    BY <1>5, <1>7, <2>2, BothAre
  <2>4. Len(ring') = k /\ Len(wire') = Len(wire) - n /\ Len(Way') = Len(Way) - g /\ Len(Way') \in Nat
    <3>1. Len(ring') = k /\ Len(wire') = Len(wire) - n
      BY <1>5, <1>7
    <3>2. Len(Way') = Len(ring') + Len(wire') /\ Len(Way) = Len(ring) + Len(wire)
      BY <2>1, <2>3
    <3>3. /\ Len(ring) \in Nat /\ Len(wire) \in Nat /\ n \in Nat /\ n <= Len(wire)
          /\ fits \in Nat /\ fits <= n
      BY <1>3, <1>4
    <3>4. QED BY <3>1, <3>2, <3>3
  <2>5. ASSUME NEW i \in 1 .. Len(Way') PROVE f[i] \in 1 .. Len(Way) /\ Way'[i] = Way[f[i]]
    <3>1. CASE i <= Len(ring)
      <4>1. i \in 1 .. Len(ring) /\ i \in 1 .. Len(ring') /\ i <= k /\ i \in 1 .. Len(Way)
        BY <1>3, <1>4, <2>1, <2>4, <3>1
      <4>2. f[i] = i
        BY <4>1
      <4>3. QED BY <1>7, <2>1, <2>3, <4>1, <4>2
    <3>2. CASE i > Len(ring) /\ i <= k
      <4> DEFINE j == i - Len(ring)
      <4>1. /\ i \in 1 .. Len(ring') /\ i \in Len(ring) + 1 .. Len(ring) + fits
            /\ i \in Len(ring) + 1 .. Len(ring) + Len(wire) /\ i \in 1 .. Len(Way)
            /\ j \in 1 .. fits
        BY <1>3, <1>4, <2>1, <2>4, <3>2
      <4>2. f[i] = i
        BY <3>2
      <4>3. Way'[i] = wire[j] /\ Way[i] = wire[j]
        BY <1>6, <1>7, <2>1, <2>3, <4>1
      <4>4. QED BY <4>1, <4>2, <4>3
    <3>3. CASE i > k
      <4> DEFINE j == i - k
      <4>1. /\ i \in Len(ring') + 1 .. Len(ring') + Len(wire') /\ j \in 1 .. Len(wire')
            /\ i + g \in Len(ring) + 1 .. Len(ring) + Len(wire) /\ (i + g) - Len(ring) = j + n
            /\ i + g \in 1 .. Len(Way) /\ ~(i <= k)
        BY <1>3, <1>4, <2>1, <2>3, <2>4, <3>3
      <4>2. f[i] = i + g
        BY <4>1
      <4>3. Way'[i] = wire'[j] /\ wire'[j] = wire[j + n] /\ Way[i + g] = wire[j + n]
        BY <1>5, <2>1, <2>3, <2>4, <4>1
      <4>4. QED BY <4>1, <4>2, <4>3
    <3>4. QED BY <1>3, <1>10, <2>4, <3>1, <3>2, <3>3
  <2>6. QED BY <2>3, <2>4, <2>5
<1>12. \A i, j \in 1 .. Len(Way') : i < j => f[i] < f[j]
  BY <1>10, <1>11
<1>13. f \in [1 .. Len(Way') -> 1 .. Len(Way)]
  BY <1>11
<1> HIDE DEF f, k, g
<1>14. JoyOrder'
  <2>1. Way \in Seq(JoyWord) /\ nsent \in Nat /\ Number \in Nat /\ InLine(Way, Number, nsent)
    BY WayIs DEF JoyInv, JoyTyped, JoyOrder
  <2>2. InLine(Way', Number, nsent)
    BY <1>11, <1>12, <1>13, <2>1, PickedInLine
  <2>3. Number' = Number /\ nsent' = nsent /\ applied' = applied
    BY <1>2 DEF Number
  <2>4. QED BY <2>2, <2>3 DEF JoyInv, JoyOrder, Joystick!OnlySent
<1>15. Whole(ring) /\ fits % 3 = 0 => Whole(ring')
  <2>1. SUFFICES ASSUME Whole(ring), fits % 3 = 0 PROVE Whole(ring')
    OBVIOUS
  <2>2. Whole(piece)
    BY <1>6, <2>1 DEF Whole
  <2>3. QED BY <1>3, <1>6, <1>7, <2>1, <2>2, WholeBoth
<1>16. ASSUME Whole(ring), fits % 3 # 0 PROVE Broken(ring')
  <2>1. fits < n /\ fits = BufSize - Len(ring)
    BY <1>1, <1>4, <1>16
  <2>2. Len(ring') = BufSize
    BY <1>3, <1>7, <2>1
  <2>3. BufSize % 3 = 1
    <3>1. Len(ring) % 3 = 0
      BY <1>16 DEF Whole
    <3>2. (fits + Len(ring)) % 3 = fits % 3
      BY <1>3, <1>4, <3>1, KindsRepeat
    <3>3. BufSize = fits + Len(ring) /\ BufSize % 3 # 2
      BY <1>3, <1>4, <2>1, JoyConstants
    <3>4. BufSize % 3 # 0
      BY <1>16, <3>2, <3>3
    <3>5. QED BY <1>3, <3>3, <3>4
  <2>4. Upto(ring', Len(ring'))
    <3>1. fits \in 0 .. Len(piece)
      BY <1>4, <1>6
    <3>2. QED BY <1>3, <1>6, <1>7, <1>16, <3>1, UptoAppend
  <2>5. Cut(ring', Len(ring')) /\ Len(ring') \in 0 .. Len(ring')
    <3>1. \A i \in Len(ring') + 1 .. Len(ring') : FALSE
      BY <1>3, <2>2
    <3>2. QED BY <1>3, <2>2, <2>3, <2>4, <3>1 DEF Cut
  <2>6. QED BY <2>2, <2>3, <2>5 DEF Broken
<1>17. ASSUME Broken(ring) PROVE Broken(ring')
  <2>1. PICK p \in 0 .. Len(ring) : Cut(ring, p)
    BY <1>17 DEF Broken
  <2>2. BufSize % 3 = 1 /\ Len(ring) % 3 = 1
    BY <1>17 DEF Broken
  <2>3. fits % 3 = 0
    <3>1. CASE fits = n
      BY <1>1, <3>1
    <3>2. CASE fits # n
      <4>1. fits = BufSize - Len(ring)
        BY <1>1, <1>4, <3>2
      <4>2. QED BY <1>3, <2>2, <4>1
    <3>3. QED BY <3>1, <3>2
  <2>4. Len(ring') % 3 = 1
    <3>1. (Len(ring) + fits) % 3 = Len(ring) % 3
      BY <1>3, <1>4, <2>3, KindsRepeat
    <3>2. QED BY <1>7, <2>2, <3>1
  <2>5. p \in 0 .. Len(ring')
    BY <1>3, <1>4, <1>7
  <2>6. Upto(ring', p)
    <3>1. \A i \in 1 .. p : i \in 1 .. Len(ring) /\ ring'[i] = ring[i]
      BY <1>3, <1>7
    <3>2. \A i \in 1 .. p : i % 3 # 1 => i - 1 \in 1 .. p
      BY <1>3
    <3>3. \A i \in 1 .. p : i % 3 = 0 => i % 3 # 1
      OBVIOUS
    <3>4. QED BY <2>1, <3>1, <3>2, <3>3 DEF Cut, Upto
  <2>7. ASSUME NEW i \in p + 1 .. Len(ring') PROVE ring'[i].k = KindAt(i - 1)
    <3>1. CASE i <= Len(ring)
      <4>1. i \in p + 1 .. Len(ring) /\ i \in 1 .. Len(ring)
        BY <1>3, <3>1
      <4>2. QED BY <1>7, <2>1, <4>1 DEF Cut
    <3>2. CASE i > Len(ring)
      <4> DEFINE j == i - Len(ring)
      <4>1. i \in Len(ring) + 1 .. Len(ring) + fits /\ j \in 1 .. fits /\ j \in Nat
        BY <1>3, <1>4, <1>7, <3>2
      <4>2. ring'[i].k = KindAt(j)
        BY <1>6, <1>7, <4>1 DEF Upto
      <4>3. KindAt(j) = KindAt(i - 1)
        <5>1. (Len(ring) - 1) % 3 = 0 /\ Len(ring) - 1 \in Nat
          BY <1>3, <2>2
        <5>2. KindAt(j + (Len(ring) - 1)) = KindAt(j)
          BY <4>1, <5>1, KindsRepeat
        <5>3. j + (Len(ring) - 1) = i - 1
          BY <1>3, <4>1
        <5>4. QED BY <5>2, <5>3
      <4>4. QED BY <4>2, <4>3
    <3>3. QED BY <1>3, <1>7, <3>1, <3>2
  <2>8. Cut(ring', p)
    BY <2>1, <2>6, <2>7 DEF Cut
  <2>9. QED BY <2>2, <2>4, <2>5, <2>8 DEF Broken
<1>18. JoyShape'
  <2>1. Len(ring') <= BufSize
    BY <1>1, <1>3, <1>4, <1>7
  <2>2. reader' = "read" => Whole(ring') \/ Broken(ring')
    BY <1>2, <1>15, <1>16, <1>17 DEF JoyInv, JoyShape
  <2>3. ~lost' => reader' = "read" /\ Whole(ring')
    <3>1. SUFFICES ASSUME ~lost' PROVE reader' = "read" /\ Whole(ring')
      OBVIOUS
    <3>2. ~lost /\ fits = n
      BY <1>4, <3>1
    <3>3. QED BY <1>1, <1>2, <1>15, <3>2 DEF JoyInv, JoyShape
  <2>4. QED BY <1>5, <2>1, <2>2, <2>3 DEF JoyShape
<1>19. ASSUME ~lost' PROVE JoyLeads'
  <2>1. ~lost /\ fits = n
    BY <1>4, <1>19
  <2>2. g = 0 /\ Way \in Seq(JoyWord)
    BY <1>4, <2>1, WayIs DEF g, JoyInv
  <2>3. \A i \in 1 .. Len(Way') : Way'[i] = Way[i]
    <3>1. SUFFICES ASSUME NEW i \in 1 .. Len(Way') PROVE f[i] = i
      BY <1>11
    <3>2. i + 0 = i
      OBVIOUS
    <3>3. QED BY <2>2, <3>2 DEF f
  <2>4. Len(Way') = Len(Way)
    <3>1. Len(Way) \in Nat
      BY <2>2, WordsHave
    <3>2. QED BY <1>11, <2>2, <3>1
  <2>5. Way' = Way
    BY <1>11, <2>2, <2>3, <2>4, SeqEqual
  <2>6. JoyLeads
    BY <2>1 DEF JoyInv
  <2>7. QED BY <1>2, <2>5, <2>6 DEF JoyLeads, AxisLeads, Joystick!Scale
<1>20. QED BY <1>2, <1>8, <1>9, <1>14, <1>18, <1>19 DEF JoyInv

\* What reading finds first in the ring: an event, a magic too many, or no event.
EventFirst ==
  /\ Len(ring) >= 3
  /\ ring[1].k = "magic" /\ ring[2].k = "type" /\ ring[3].k = "value"
  /\ ring[2].n = ring[3].n /\ Means(ring[2].x, ring[3].x)
  /\ Len(ring) >= 4 => ring[4].k = "magic"
MagicFirst == Len(ring) >= 3 /\ ring[1].k = "magic" /\ ring[2].k # "type"
NoneFirst  == Len(ring) < 3 \/ ring[1].k # "magic"

\* Words in events begin with one, and then the next.
LEMMA EventLeads ==
  ASSUME NEW m \in 3 .. Len(ring), ring \in Seq(JoyWord), Upto(ring, m),
         Len(ring) >= 4 => m >= 4
  PROVE  EventFirst
<1>1. Len(ring) \in Nat /\ m \in Nat /\ m <= Len(ring) /\ m >= 3
  BY WordsHave
<1>2. 1 \in 1 .. m /\ 2 \in 1 .. m /\ 3 \in 1 .. m /\ (Len(ring) >= 4 => 4 \in 1 .. m)
  BY <1>1
<1>3. /\ KindAt(1) = "magic" /\ KindAt(2) = "type" /\ KindAt(3) = "value" /\ KindAt(4) = "magic"
      /\ 3 % 3 = 0 /\ 3 % 3 # 1 /\ 3 - 1 = 2
  BY DEF KindAt
<1>4. ring[1].k = "magic" /\ ring[2].k = "type" /\ ring[3].k = "value"
  BY <1>2, <1>3 DEF Upto
<1>5. Len(ring) >= 4 => ring[4].k = "magic"
  BY <1>2, <1>3 DEF Upto
<1>6. ring[3].n = ring[3 - 1].n /\ Means(ring[3 - 1].x, ring[3].x)
  BY <1>2, <1>3 DEF Upto
<1>7. QED BY <1>1, <1>3, <1>4, <1>5, <1>6 DEF EventFirst

\* Behind three words of a ring that overflowed, the same shape goes on.
LEMMA BrokenRest ==
  ASSUME NEW s \in Seq(JoyWord), Len(s) >= 3, BufSize % 3 = 1, Len(s) % 3 = 1,
         NEW p \in 0 .. Len(s), Cut(s, p), p = 1 \/ p >= 4
  PROVE  Broken(SubSeq(s, 4, Len(s)))
<1> DEFINE t == SubSeq(s, 4, Len(s))
           q == IF p = 1 THEN 0 ELSE p - 3
<1>1. /\ Len(s) \in Nat /\ p \in Nat /\ 3 \in 0 .. Len(s) /\ 3 % 3 = 0 /\ 3 + 1 = 4
      /\ p % 3 = 1
  BY WordsHave DEF Cut
<1>2. Len(t) = Len(s) - 3 /\ \A i \in 1 .. Len(t) : t[i] = s[i + 3] /\ i + 3 \in 1 .. Len(s)
  BY <1>1, RestIs
<1>3. Len(t) % 3 = 1
  <2>1. (Len(s) - 3) % 3 = Len(s) % 3
    BY <1>1, KindsRepeat
  <2>2. QED BY <1>2, <2>1
<1>4. q \in 0 .. Len(t)
  BY <1>1, <1>2
<1>5. q = 0 \/ q % 3 = 1
  <2>1. p >= 3 => (p - 3) % 3 = p % 3
    BY <1>1, KindsRepeat
  <2>2. QED BY <1>1, <2>1
<1>6. Upto(t, q)
  <2>1. CASE p = 1
    <3>1. \A i \in 1 .. q : FALSE
      BY <2>1
    <3>2. QED BY <3>1 DEF Upto
  <2>2. CASE p # 1
    <3>1. p \in 3 .. Len(s) /\ q = p - 3
      BY <1>1, <2>2
    <3>2. QED BY <1>1, <3>1, UptoRest DEF Cut
  <2>3. QED BY <2>1, <2>2
<1> HIDE DEF t
<1>7. ASSUME NEW i \in q + 1 .. Len(t) PROVE t[i].k = KindAt(i - 1)
  <2>1. /\ i \in 1 .. Len(t) /\ i - 1 \in Nat /\ (i + 3) - 1 = (i - 1) + 3
        /\ i + 3 \in p + 1 .. Len(s)
    BY <1>1, <1>2, <1>4
  <2>2. t[i].k = KindAt((i + 3) - 1)
    BY <1>2, <2>1 DEF Cut
  <2>3. KindAt((i - 1) + 3) = KindAt(i - 1)
    BY <1>1, <2>1, KindsRepeat
  <2>4. QED BY <2>1, <2>2, <2>3
<1> HIDE DEF q
<1>8. Cut(t, q)
  BY <1>5, <1>6, <1>7 DEF Cut
<1>9. QED BY <1>3, <1>4, <1>8 DEF Broken, t

\* What reading finds first, and the shape of what it leaves.
LEMMA HeadIs ==
  ASSUME JoyInv, reader = "read", ring # <<>>
  PROVE  LET rest == SubSeq(ring, 4, Len(ring))
         IN  \/ /\ EventFirst
                /\ Whole(ring) => Whole(rest)
                /\ Whole(rest) \/ Broken(rest)
             \/ ~Whole(ring) /\ MagicFirst /\ Broken(rest)
             \/ ~Whole(ring) /\ NoneFirst
<1> DEFINE rest == SubSeq(ring, 4, Len(ring))
<1>1. ring \in Seq(JoyWord) /\ Len(ring) \in Nat /\ Len(ring) > 0
  <2>1. ring \in Seq(JoyWord)
    BY DEF JoyInv, JoyTyped
  <2>2. Len(ring) \in Nat /\ Len(ring) # 0
    BY <2>1, EmptySeq, WordsHave
  <2>3. QED BY <2>1, <2>2
<1>2. Whole(ring) \/ Broken(ring)
  BY DEF JoyInv, JoyShape
<1>3. CASE Whole(ring)
  <2>1. Len(ring) % 3 = 0
    BY <1>3 DEF Whole
  <2>2. Len(ring) >= 3 /\ Len(ring) \in 3 .. Len(ring) /\ 3 \in 0 .. Len(ring) /\ 3 % 3 = 0 /\ 3 + 1 = 4
    BY <1>1, <2>1
  <2>3. EventFirst
    BY <1>1, <1>3, <2>2, EventLeads DEF Whole
  <2>4. Whole(SubSeq(ring, 3 + 1, Len(ring)))
    BY <1>1, <1>3, <2>2, WholeRest
  <2>5. QED BY <2>2, <2>3, <2>4
<1>4. CASE ~Whole(ring)
  <2>1. PICK p \in 0 .. Len(ring) : Cut(ring, p)
    BY <1>2, <1>4 DEF Broken
  <2>2. BufSize % 3 = 1 /\ Len(ring) % 3 = 1
    BY <1>2, <1>4 DEF Broken
  <2>3. p \in Nat /\ p <= Len(ring)
    BY <1>1
  <2>4. p = 0 \/ p = 1 \/ p >= 4
    <3>1. p = 0 \/ p % 3 = 1
      BY <2>1 DEF Cut
    <3>2. QED BY <2>3, <3>1
  <2>5. CASE p = 0
    <3>1. 1 \in p + 1 .. Len(ring) /\ KindAt(1 - 1) = "value"
      BY <1>1, <2>5 DEF KindAt
    <3>2. ring[1].k = "value"
      BY <2>1, <3>1 DEF Cut
    <3>3. QED BY <1>4, <3>2 DEF NoneFirst
  <2>6. CASE Len(ring) < 3
    BY <1>4, <2>6 DEF NoneFirst
  <2>7. CASE p = 1 /\ Len(ring) >= 3
    <3>1. 1 \in 1 .. p /\ 2 \in p + 1 .. Len(ring) /\ KindAt(1) = "magic" /\ KindAt(2 - 1) = "magic"
      BY <1>1, <2>7 DEF KindAt
    <3>2. ring[1].k = "magic" /\ ring[2].k = "magic"
      BY <2>1, <3>1 DEF Cut, Upto
    <3>3. Broken(rest)
      BY <1>1, <2>1, <2>2, <2>7, BrokenRest
    <3>4. QED BY <1>4, <2>7, <3>2, <3>3 DEF MagicFirst
  <2>8. CASE p >= 4
    <3>1. Len(ring) >= 3 /\ p \in 3 .. Len(ring)
      BY <1>1, <2>3, <2>8
    <3>2. EventFirst
      BY <1>1, <2>1, <2>8, <3>1, EventLeads DEF Cut
    <3>3. Broken(rest)
      BY <1>1, <2>1, <2>2, <2>8, <3>1, BrokenRest
    <3>4. QED BY <1>4, <3>2, <3>3
  <2>9. QED BY <1>1, <2>4, <2>5, <2>6, <2>7, <2>8
<1>5. QED BY <1>3, <1>4

\* main_thread reads three words, or what there is.
LEMMA ReadIs ==
  ASSUME JoyInv, Joystick!Read
  PROVE  /\ reader = "read" /\ ring # <<>> /\ ring \in Seq(JoyWord) /\ Len(ring) \in Nat
         /\ UNCHANGED <<held, stick, button_state, nsent, wire, lost>>
         /\ \E n \in 0 .. Len(ring) :
              /\ ring' = SubSeq(ring, n + 1, Len(ring))
              /\ \/ /\ n = 3 /\ Len(ring) >= 3 /\ ring[1].k = "magic" /\ reader' = reader
                    /\ Joystick!Apply(ring[2], ring[3])
                 \/ NoneFirst /\ reader' = "flush" /\ UNCHANGED <<Buttons, axis, applied>>
<1> DEFINE n == IF Len(ring) < 3 THEN Len(ring) ELSE 3
           w == SubSeq(ring, 1, n)
<1>1. ring \in Seq(JoyWord) /\ Len(ring) \in Nat
  BY WordsHave DEF JoyInv, JoyTyped
<1>2. n \in 0 .. Len(ring)
  BY <1>1
<1>3. Len(w) = n /\ \A i \in 1 .. n : w[i] = ring[i]
  BY <1>1, <1>2, FirstIs
<1>4. /\ reader = "read" /\ ring # <<>> /\ ring' = SubSeq(ring, n + 1, Len(ring))
      /\ UNCHANGED <<held, stick, button_state, nsent, wire, lost>>
      /\ IF Joystick!Valid(w) THEN Joystick!Apply(w[2], w[3]) /\ UNCHANGED reader
         ELSE reader' = "flush" /\ UNCHANGED <<Buttons, axis, applied>>
  BY DEF Joystick!Read
<1> HIDE DEF w
<1>5. CASE Joystick!Valid(w)
  <2>1. Len(w) = 3 /\ w[1].k = "magic"
    BY <1>5 DEF Joystick!Valid
  <2>2. n = 3 /\ Len(ring) >= 3
    BY <1>1, <1>3, <2>1
  <2>3. w[1] = ring[1] /\ w[2] = ring[2] /\ w[3] = ring[3]
    BY <1>3, <2>2
  <2>4. Joystick!Apply(ring[2], ring[3]) /\ reader' = reader
    BY <1>4, <1>5, <2>3
  <2> HIDE DEF n
  <2>5. QED BY <1>1, <1>2, <1>4, <2>1, <2>2, <2>3, <2>4
<1>6. CASE ~Joystick!Valid(w)
  <2>1. NoneFirst
    <3>1. SUFFICES ASSUME Len(ring) >= 3, ring[1].k = "magic" PROVE FALSE
      BY <1>1 DEF NoneFirst
    <3>2. n = 3
      BY <1>1, <3>1
    <3>3. QED BY <1>3, <1>6, <3>1, <3>2 DEF Joystick!Valid
  <2>2. reader' = "flush" /\ UNCHANGED <<Buttons, axis, applied>>
    BY <1>4, <1>6
  <2> HIDE DEF n
  <2>3. QED BY <1>1, <1>2, <1>4, <2>1, <2>2
<1>7. QED BY <1>5, <1>6

\* What is left on the way when words of the ring were read.
LEMMA RestOfWay ==
  ASSUME JoyInv, NEW n \in 0 .. Len(ring), ring' = SubSeq(ring, n + 1, Len(ring)),
         UNCHANGED <<wire, nsent>>
  PROVE  /\ ring' \in Seq(JoyWord) /\ Len(ring') = Len(ring) - n
         /\ Way' \in Seq(JoyWord) /\ Way' = SubSeq(Way, n + 1, Len(Way))
         /\ \A i \in 1 .. Len(Way') : Way'[i] = Way[i + n] /\ i + n \in 1 .. Len(Way)
         /\ InLine(Way', Number, nsent)
<1> DEFINE rest == SubSeq(Way, n + 1, Len(Way))
<1>1. /\ Way \in Seq(JoyWord) /\ Len(Way) = Len(ring) + Len(wire)
      /\ Len(ring) \in Nat /\ Len(wire) \in Nat /\ n \in Nat /\ n <= Len(ring)
      /\ \A i \in 1 .. Len(ring) : Way[i] = ring[i]
      /\ \A i \in Len(ring) + 1 .. Len(ring) + Len(wire) : Way[i] = wire[i - Len(ring)]
      /\ ring \in Seq(JoyWord) /\ wire \in Seq(JoyWord)
  BY WayIs DEF JoyInv, JoyTyped
<1>2. n \in 0 .. Len(Way)
  BY <1>1
<1>3. /\ ring' \in Seq(JoyWord) /\ Len(ring') = Len(ring) - n
      /\ \A i \in 1 .. Len(ring') : ring'[i] = ring[i + n] /\ i + n \in 1 .. Len(ring)
  BY <1>1, RestIs
<1>4. /\ rest \in Seq(JoyWord) /\ Len(rest) = Len(Way) - n
      /\ \A i \in 1 .. Len(rest) : rest[i] = Way[i + n] /\ i + n \in 1 .. Len(Way)
  BY <1>1, <1>2, RestIs
<1> HIDE DEF rest
<1>5. Way' = ring' \o wire
  BY DEF Way
<1>6. /\ Way' \in Seq(JoyWord) /\ Len(Way') = Len(ring') + Len(wire)
      /\ \A i \in 1 .. Len(ring') : Way'[i] = ring'[i]
      /\ \A i \in Len(ring') + 1 .. Len(ring') + Len(wire) : Way'[i] = wire[i - Len(ring')]
  BY <1>1, <1>3, <1>5, BothAre
<1>7. Len(Way') = Len(rest) /\ Len(rest) \in Nat
  BY <1>1, <1>3, <1>4, <1>6
<1>8. ASSUME NEW i \in 1 .. Len(rest) PROVE Way'[i] = rest[i]
  <2>1. CASE i \in 1 .. Len(ring')
    <3>1. Way'[i] = ring[i + n] /\ Way[i + n] = ring[i + n]
      BY <1>1, <1>3, <1>6, <2>1
    <3>2. QED BY <1>4, <3>1
  <2>2. CASE i \notin 1 .. Len(ring')
    <3>1. /\ i \in Len(ring') + 1 .. Len(ring') + Len(wire)
          /\ i + n \in Len(ring) + 1 .. Len(ring) + Len(wire)
          /\ (i + n) - Len(ring) = i - Len(ring')
      <4> DEFINE r == Len(ring)
                 q == Len(ring')
                 l == Len(wire)
      <4>1. /\ r \in Nat /\ l \in Nat /\ n \in Nat /\ n <= r /\ q = r - n
            /\ i \in 1 .. q + l /\ i \notin 1 .. q
        BY <1>1, <1>3, <1>6, <1>7, <2>2
      <4> HIDE DEF r, q, l
      <4>2. i \in q + 1 .. q + l /\ i + n \in r + 1 .. r + l /\ (i + n) - r = i - q
        BY <4>1
      <4>3. QED BY <4>2 DEF r, q, l
    <3>2. Way'[i] = wire[i - Len(ring')] /\ Way[i + n] = wire[i - Len(ring')]
      BY <1>1, <1>6, <3>1
    <3>3. QED BY <1>4, <3>2
  <2>3. QED BY <2>1, <2>2
<1>9. Way' = rest
  BY <1>4, <1>6, <1>7, <1>8, SeqEqual
<1> DEFINE f == [i \in 1 .. Len(Way') |-> i + n]
<1>10. /\ f \in [1 .. Len(Way') -> 1 .. Len(Way)]
       /\ \A i \in 1 .. Len(Way') : Way'[i] = Way[f[i]]
       /\ \A i, j \in 1 .. Len(Way') : i < j => f[i] < f[j]
  <2>1. \A i \in 1 .. Len(Way') : f[i] = i + n /\ i + n \in 1 .. Len(Way) /\ Way'[i] = Way[i + n]
    BY <1>4, <1>7, <1>9
  <2>2. \A i, j \in 1 .. Len(Way') : i < j => i + n < j + n
    BY <1>1
  <2>3. QED BY <2>1, <2>2
<1> HIDE DEF f
<1>11. InLine(Way, Number, nsent) /\ Number \in Nat /\ nsent \in Nat
  BY DEF JoyInv, JoyOrder, JoyTyped
<1>12. InLine(Way', Number, nsent)
  BY <1>1, <1>6, <1>10, <1>11, PickedInLine
<1>13. QED BY <1>3, <1>4, <1>6, <1>7, <1>9, <1>12 DEF rest

\* An event applied changes what it is about, and only that.
LEMMA ApplyIs ==
  ASSUME JoyTyped, EventFirst, Joystick!Apply(ring[2], ring[3])
  PROVE  /\ applied' = <<ring[2], ring[3]>>
         /\ Buttons' \in SUBSET Joystick!PspButtons /\ axis' \in [0 .. 1 -> Int]
         /\ \A d \in Joystick!PspButtons :
              Down(d \in Buttons') = IF KeyOf(ring[2].x, ring[3].x) = <<"button", d>>
                                     THEN Says(ring[2].x, ring[3].x) ELSE Down(d \in Buttons)
         /\ \A a \in 0 .. 1 :
              axis'[a] = IF KeyOf(ring[2].x, ring[3].x) = <<"axis", a>>
                         THEN Says(ring[2].x, ring[3].x) ELSE axis[a]
<1> DEFINE type == ring[2].x
           x    == ring[3].x
<1>1. /\ applied' = <<ring[2], ring[3]>>
      /\ Buttons' = CASE type = "down" -> Buttons \cup {x}
                      [] type = "up" -> Buttons \ {x}
                      [] OTHER -> Buttons
      /\ axis' = IF type = "analog" THEN [axis EXCEPT ![x[1]] = x[2]] ELSE axis
  BY DEF Joystick!Apply, EventFirst
<1>2. [type |-> type, value |-> x] \in JoyEvents
  BY DEF EventFirst, Means
<1>3. Buttons \in SUBSET Joystick!PspButtons /\ axis \in [0 .. 1 -> Int]
  BY DEF JoyTyped
<1> HIDE DEF type, x
<1>4. CASE type \in {"down", "up"} /\ x \in Joystick!PspButtons
  <2>1. KeyOf(type, x) = <<"button", x>> /\ Says(type, x) = type
    BY <1>4 DEF KeyOf, Says
  <2>2. axis' = axis
    BY <1>1, <1>4
  <2>3. Buttons' = IF type = "down" THEN Buttons \cup {x} ELSE Buttons \ {x}
    BY <1>1, <1>4
  <2>4. ASSUME NEW d \in Joystick!PspButtons
        PROVE  Down(d \in Buttons') = IF <<"button", x>> = <<"button", d>>
                                      THEN type ELSE Down(d \in Buttons)
    <3>1. CASE d = x
      <4>1. (d \in Buttons') <=> type = "down"
        BY <1>4, <2>3, <3>1
      <4>2. QED BY <1>4, <3>1, <4>1 DEF Down
    <3>2. CASE d # x
      <4>1. <<"button", x>> # <<"button", d>>
        BY <3>2
      <4>2. (d \in Buttons') <=> d \in Buttons
        BY <2>3, <3>2
      <4>3. QED BY <4>1, <4>2 DEF Down
    <3>3. QED BY <3>1, <3>2
  <2>5. \A a : <<"button", x>> # <<"axis", a>>
    OBVIOUS
  <2>6. Buttons' \in SUBSET Joystick!PspButtons
    BY <1>3, <1>4, <2>3
  <2>7. QED BY <1>1, <1>3, <2>1, <2>2, <2>4, <2>5, <2>6 DEF type, x
<1>5. CASE type = "analog" /\ x \in (0 .. 1) \X Int
  <2>1. KeyOf(type, x) = <<"axis", x[1]>> /\ Says(type, x) = x[2]
    BY <1>5 DEF KeyOf, Says
  <2>2. x[1] \in 0 .. 1 /\ x[2] \in Int
    BY <1>5
  <2>3. Buttons' = Buttons /\ axis' = [axis EXCEPT ![x[1]] = x[2]]
    BY <1>1, <1>5
  <2>4. axis' \in [0 .. 1 -> Int]
    BY <1>3, <2>2, <2>3
  <2>5. ASSUME NEW a \in 0 .. 1
        PROVE  axis'[a] = IF <<"axis", x[1]>> = <<"axis", a>> THEN x[2] ELSE axis[a]
    <3>1. CASE a = x[1]
      BY <1>3, <2>3, <3>1
    <3>2. CASE a # x[1]
      <4>1. <<"axis", x[1]>> # <<"axis", a>>
        BY <3>2
      <4>2. QED BY <1>3, <2>3, <3>2, <4>1
    <3>3. QED BY <3>1, <3>2
  <2>6. \A d : <<"axis", x[1]>> # <<"button", d>>
    OBVIOUS
  <2>7. QED BY <1>1, <1>3, <2>1, <2>3, <2>4, <2>5, <2>6 DEF type, x
<1>6. QED BY <1>2, <1>4, <1>5 DEF JoyEvents

\* An event is read: all behind it was sent later.
LEMMA EventKeeps ==
  ASSUME JoyInv, EventFirst, Joystick!Apply(ring[2], ring[3]),
         ring' = SubSeq(ring, 4, Len(ring)),
         UNCHANGED <<held, stick, button_state, nsent, wire, lost, reader>>,
         Whole(ring') \/ Broken(ring'), Whole(ring) => Whole(ring')
  PROVE  JoyInv' /\ Joystick!InOrder
<1>1. /\ Len(ring) \in Nat /\ Len(ring) >= 3 /\ ring \in Seq(JoyWord) /\ Len(wire) \in Nat
      /\ \A i \in 1 .. Len(ring) : Way[i] = ring[i]
      /\ \A i \in Len(ring) + 1 .. Len(ring) + Len(wire) : Way[i] = wire[i - Len(ring)]
      /\ Way \in Seq(JoyWord) /\ Len(Way) = Len(ring) + Len(wire)
  BY WayIs DEF JoyInv, JoyTyped, EventFirst
<1>2. 3 \in 0 .. Len(ring) /\ 3 + 1 = 4
  BY <1>1
<1>3. /\ ring' \in Seq(JoyWord) /\ Len(ring') = Len(ring) - 3
      /\ Way' \in Seq(JoyWord) /\ Way' = SubSeq(Way, 4, Len(Way))
      /\ \A i \in 1 .. Len(Way') : Way'[i] = Way[i + 3] /\ i + 3 \in 1 .. Len(Way)
      /\ InLine(Way', Number, nsent)
  BY <1>2, RestOfWay
<1>4. /\ applied' = <<ring[2], ring[3]>>
      /\ Buttons' \in SUBSET Joystick!PspButtons /\ axis' \in [0 .. 1 -> Int]
      /\ \A d \in Joystick!PspButtons :
           Down(d \in Buttons') = IF KeyOf(ring[2].x, ring[3].x) = <<"button", d>>
                                  THEN Says(ring[2].x, ring[3].x) ELSE Down(d \in Buttons)
      /\ \A a \in 0 .. 1 :
           axis'[a] = IF KeyOf(ring[2].x, ring[3].x) = <<"axis", a>>
                      THEN Says(ring[2].x, ring[3].x) ELSE axis[a]
  BY ApplyIs DEF JoyInv
<1>5. JoyTyped'
  BY <1>3, <1>4 DEF JoyInv, JoyTyped
<1>6. Joystick!FollowsJoystick'
  BY DEF JoyInv, Joystick!FollowsJoystick
<1>7. /\ 2 \in 1 .. Len(Way) /\ 3 \in 1 .. Len(Way) /\ Way[2] = ring[2] /\ Way[3] = ring[3]
      /\ ring[2].n = ring[3].n /\ ring[3].k = "value" /\ ring[2].n \in Nat
  <2>1. 2 \in 1 .. Len(ring) /\ 3 \in 1 .. Len(ring) /\ 2 \in 1 .. Len(Way) /\ 3 \in 1 .. Len(Way)
    BY <1>1
  <2>2. ring[2].n \in Nat
    BY <1>1, <2>1, WordsHave
  <2>3. QED BY <1>1, <2>1, <2>2 DEF EventFirst
<1>8. Number' = ring[2].n
  <2>1. <<ring[2], ring[3]>> # <<>> /\ <<ring[2], ring[3]>>[1] = ring[2]
    OBVIOUS
  <2>2. QED BY <1>4, <2>1 DEF Number
<1>9. /\ InLine(Way, Number, nsent) /\ Number \in Nat /\ nsent \in Nat
      /\ Number < ring[2].n /\ ring[2].n <= nsent
  <2>1. InLine(Way, Number, nsent) /\ Number \in Nat /\ nsent \in Nat
    BY DEF JoyInv, JoyOrder, JoyTyped
  <2>2. QED BY <1>7, <2>1 DEF InLine
<1>10. ASSUME NEW i \in 1 .. Len(Way') PROVE ring[2].n < Way'[i].n
  <2>1. /\ i + 3 \in 1 .. Len(Way) /\ 4 \in 1 .. Len(Way) /\ i + 3 \in Nat
        /\ 3 < 4 /\ (i + 3 = 4 \/ 4 < i + 3)
        /\ Len(ring) >= 4 => 4 \in 1 .. Len(ring)
        /\ ~(Len(ring) >= 4) => /\ 4 \in Len(ring) + 1 .. Len(ring) + Len(wire)
                                /\ 4 - Len(ring) = 1 /\ 1 \in 1 .. Len(wire)
    <3>1. i + 3 \in 1 .. Len(Way) /\ i \in Nat /\ i >= 1
      <4>1. Len(Way') \in Nat
        BY <1>3, WordsHave
      <4>2. QED BY <1>3, <4>1
    <3>2. Len(ring) \in Nat /\ Len(ring) >= 3 /\ Len(wire) \in Nat /\ Len(Way) = Len(ring) + Len(wire)
      BY <1>1
    <3>3. QED BY <3>1, <3>2
  <2>2. Way[4].k = "magic"
    <3>1. CASE Len(ring) >= 4
      BY <1>1, <2>1, <3>1 DEF EventFirst
    <3>2. CASE ~(Len(ring) >= 4)
      <4>1. Way[4] = wire[1]
        BY <1>1, <2>1, <3>2
      <4>2. Upto(wire, Len(wire)) /\ KindAt(1) = "magic"
        BY DEF JoyInv, JoyShape, Whole, KindAt
      <4>3. wire[1].k = "magic"
        BY <2>1, <3>2, <4>2 DEF Upto
      <4>4. QED BY <4>1, <4>3
    <3>3. QED BY <3>1, <3>2
  <2>3. Way[3].n < Way[4].n
    BY <1>7, <1>9, <2>1, <2>2 DEF InLine
  <2>4. Way[4].n <= Way[i + 3].n \/ i + 3 = 4
    BY <1>9, <2>1 DEF InLine
  <2>5. Way[3].n \in Nat /\ Way[4].n \in Nat /\ Way[i + 3].n \in Nat /\ Way'[i] = Way[i + 3]
    BY <1>1, <1>3, <1>7, <2>1, WordsHave
  <2>6. Way[3].n = ring[2].n
    BY <1>7
  <2>7. CASE i + 3 = 4
    BY <2>3, <2>5, <2>6, <2>7
  <2>8. CASE Way[4].n <= Way[i + 3].n
    <3> DEFINE x == Way[3].n
               y == Way[4].n
               z == Way[i + 3].n
    <3>1. x \in Nat /\ y \in Nat /\ z \in Nat /\ x < y /\ y <= z
      BY <2>3, <2>5, <2>8
    <3> HIDE DEF x, y, z
    <3>2. x < z
      BY <3>1
    <3>3. QED BY <2>5, <2>6, <3>2 DEF x, z
  <2>9. QED BY <2>4, <2>7, <2>8
<1>11. JoyOrder'
  <2>1. InLine(Way', Number', nsent)
    BY <1>3, <1>8, <1>10 DEF InLine
  <2>2. Joystick!OnlySent'
    <3>1. <<ring[2], ring[3]>>[1] = ring[2] /\ <<ring[2], ring[3]>>[2] = ring[3]
      OBVIOUS
    <3>2. QED BY <1>4, <1>7, <3>1 DEF Joystick!OnlySent
  <2>3. QED BY <1>7, <1>8, <1>9, <2>1, <2>2 DEF JoyOrder
<1>12. JoyShape'
  <2>1. Len(ring') <= BufSize
    <3>1. Len(ring) <= BufSize /\ BufSize \in Nat /\ Len(ring) \in Nat /\ Len(ring') = Len(ring) - 3
      BY <1>1, <1>3, JoyConstants DEF JoyInv, JoyShape
    <3>2. QED BY <3>1
  <2>2. QED BY <2>1 DEF JoyInv, JoyShape
<1>13. ASSUME ~lost' PROVE JoyLeads'
  <2>1. JoyLeads
    BY <1>13 DEF JoyInv
  <2>2. Len(Way) >= 3
    BY <1>1
  <2>3. \A what, now, goal :
          Leads(Way, what, now, goal)
            => Leads(Way', what, IF KeyOf(ring[2].x, ring[3].x) = what
                                 THEN Says(ring[2].x, ring[3].x) ELSE now, goal)
    BY <1>1, <1>3, <1>7, <2>2, LeadsTake
  <2>4. \A d \in Joystick!PspButtons :
          Leads(Way', <<"button", d>>, Down(d \in Buttons'), Down(d \in button_state'))
    BY <1>4, <2>1, <2>3 DEF JoyLeads
  <2>5. ASSUME analog, NEW a \in 0 .. 1 PROVE AxisLeads(a)'
    <3>1. AxisLeads(a)
      BY <2>1, <2>5 DEF JoyLeads
    <3>2. \A goal : Leads(Way, <<"axis", a>>, axis[a], goal)
                      => Leads(Way', <<"axis", a>>, axis'[a], goal)
      BY <1>4, <2>3
    <3>3. stick'[a] = stick[a] /\ Joystick!Scale(stick[a])' = Joystick!Scale(stick[a])
      BY DEF Joystick!Scale
    <3>4. \/ Leads(Way', <<"axis", a>>, axis'[a], Joystick!Scale(stick[a]))
          \/ stick[a] = 0 /\ Leads(Way', <<"axis", a>>, axis'[a], 128)
      BY <3>1, <3>2 DEF AxisLeads
    <3>5. QED BY <3>3, <3>4 DEF AxisLeads
  <2>6. QED BY <2>4, <2>5 DEF JoyLeads
<1>14. Joystick!InOrder
  <2>1. applied' # <<>> /\ applied'[1] = ring[2]
    BY <1>4
  <2>2. applied = <<>> \/ Number = applied[1].n
    BY DEF Number
  <2>3. QED BY <1>7, <1>9, <2>1, <2>2 DEF Joystick!InOrder
<1>15. QED BY <1>5, <1>6, <1>11, <1>12, <1>13, <1>14 DEF JoyInv

\* After an overflow words are dropped that are no event, or all of the ring.
LEMMA DropKeeps ==
  ASSUME JoyInv, lost, NEW n \in 0 .. Len(ring), ring' = SubSeq(ring, n + 1, Len(ring)),
         UNCHANGED <<held, stick, button_state, nsent, wire, lost, Buttons, axis, applied>>,
         reader' \in {"read", "flush"},
         reader' = "read" => Whole(ring') \/ Broken(ring')
  PROVE  JoyInv' /\ Joystick!InOrder
<1>1. /\ ring' \in Seq(JoyWord) /\ Len(ring') = Len(ring) - n
      /\ InLine(Way', Number, nsent)
  BY RestOfWay
<1>2. JoyTyped'
  BY <1>1 DEF JoyInv, JoyTyped
<1>3. Joystick!FollowsJoystick'
  BY DEF JoyInv, Joystick!FollowsJoystick
<1>4. JoyOrder'
  <2>1. Number' = Number
    BY DEF Number
  <2>2. Joystick!OnlySent'
    BY DEF JoyInv, JoyOrder, Joystick!OnlySent
  <2>3. QED BY <1>1, <2>1, <2>2 DEF JoyInv, JoyOrder
<1>5. JoyShape'
  <2>1. Len(ring') <= BufSize
    <3>1. Len(ring) <= BufSize /\ BufSize \in Nat /\ Len(ring) \in Nat /\ n \in Nat
      BY WayIs, JoyConstants DEF JoyInv, JoyShape
    <3>2. QED BY <1>1, <3>1
  <2>2. QED BY <2>1 DEF JoyInv, JoyShape
<1>6. QED BY <1>2, <1>3, <1>4, <1>5 DEF JoyInv, Joystick!InOrder

\* Reading keeps the invariant, whatever is first in the ring.
LEMMA ReadKeeps ==
  ASSUME JoyInv, Joystick!Read
  PROVE  JoyInv' /\ Joystick!InOrder
<1>1. /\ reader = "read" /\ ring # <<>> /\ ring \in Seq(JoyWord) /\ Len(ring) \in Nat
      /\ UNCHANGED <<held, stick, button_state, nsent, wire, lost>>
  BY ReadIs
<1>2. PICK n \in 0 .. Len(ring) :
        /\ ring' = SubSeq(ring, n + 1, Len(ring))
        /\ \/ /\ n = 3 /\ Len(ring) >= 3 /\ ring[1].k = "magic" /\ reader' = reader
              /\ Joystick!Apply(ring[2], ring[3])
           \/ NoneFirst /\ reader' = "flush" /\ UNCHANGED <<Buttons, axis, applied>>
  BY ReadIs
<1> DEFINE rest == SubSeq(ring, 4, Len(ring))
<1>3. \/ /\ EventFirst
         /\ Whole(ring) => Whole(rest)
         /\ Whole(rest) \/ Broken(rest)
      \/ ~Whole(ring) /\ MagicFirst /\ Broken(rest)
      \/ ~Whole(ring) /\ NoneFirst
  BY <1>1, HeadIs
<1>4. ~Whole(ring) => lost
  BY DEF JoyInv, JoyShape
<1>5. n = 3 => ring' = rest
  BY <1>2
<1> HIDE DEF rest
<1>6. CASE n = 3 /\ ring[1].k = "magic" /\ Len(ring) >= 3 /\ reader' = reader
           /\ Joystick!Apply(ring[2], ring[3])
  <2>1. CASE EventFirst /\ (Whole(ring) => Whole(rest)) /\ (Whole(rest) \/ Broken(rest))
    <3>1. ring' = SubSeq(ring, 4, Len(ring)) /\ ring' = rest
      BY <1>5, <1>6 DEF rest
    <3>2. QED BY <1>1, <1>6, <2>1, <3>1, EventKeeps
  <2>2. CASE ~Whole(ring) /\ MagicFirst /\ Broken(rest)
    <3>1. UNCHANGED <<Buttons, axis, applied>>
      BY <1>6, <2>2 DEF MagicFirst, Joystick!Apply
    <3>2. lost /\ reader' = "read" /\ Broken(ring')
      BY <1>1, <1>4, <1>5, <1>6, <2>2
    <3>3. QED BY <1>1, <1>2, <3>1, <3>2, DropKeeps
  <2>3. CASE NoneFirst
    BY <1>1, <1>6, <2>3 DEF NoneFirst
  <2>4. QED BY <1>3, <2>1, <2>2, <2>3
<1>7. CASE NoneFirst /\ reader' = "flush" /\ UNCHANGED <<Buttons, axis, applied>>
  <2>1. ~EventFirst /\ ~MagicFirst
    BY <1>1, <1>7 DEF NoneFirst, EventFirst, MagicFirst
  <2>2. lost
    BY <1>3, <1>4, <2>1
  <2>3. QED BY <1>1, <1>2, <1>7, <2>2, DropKeeps
<1>8. QED BY <1>2, <1>6, <1>7

\* So does flushing.
LEMMA FlushKeeps ==
  ASSUME JoyInv, Joystick!Flush
  PROVE  JoyInv' /\ Joystick!InOrder
<1>1. /\ reader = "flush" /\ reader' = "read" /\ ring' = <<>>
      /\ UNCHANGED <<held, stick, button_state, nsent, wire, lost, Buttons, axis, applied>>
  BY DEF Joystick!Flush
<1>2. lost
  BY <1>1 DEF JoyInv, JoyShape
<1>3. ring \in Seq(JoyWord) /\ Len(ring) \in Nat /\ Len(ring) \in 0 .. Len(ring)
  BY WordsHave DEF JoyInv, JoyTyped
<1> DEFINE rest == SubSeq(ring, Len(ring) + 1, Len(ring))
<1>4. rest \in Seq(JoyWord) /\ Len(rest) = Len(ring) - Len(ring)
  BY <1>3, RestIs
<1>5. Len(rest) = 0
  BY <1>3, <1>4
<1> HIDE DEF rest
<1>6. rest = <<>>
  BY <1>4, <1>5, EmptySeq
<1>7. Whole(ring')
  <2>1. Len(<<>>) = 0 /\ 0 % 3 = 0 /\ \A i \in 1 .. 0 : FALSE
    OBVIOUS
  <2>2. QED BY <1>1, <2>1 DEF Whole, Upto
<1>8. QED BY <1>1, <1>2, <1>3, <1>6, <1>7, DropKeeps DEF rest

-----------------------------------------------------------------------------
(* The theorem. *)

\* With no words on the way, what is so already is where they lead.
LEMMA NoWay ==
  ASSUME wire = <<>>, ring = <<>>
  PROVE  /\ Way = <<>>
         /\ \A what, now, goal : Leads(Way, what, now, goal) <=> now = goal
<1>1. <<>> \o <<>> = <<>> /\ Len(<<>>) = 0 /\ \A i \in 1 .. 0 : FALSE
  OBVIOUS
<1>2. Way = <<>>
  BY <1>1 DEF Way
<1>3. QED BY <1>1, <1>2 DEF Leads, Silent

\* The joystick at rest and nothing sent.
LEMMA JoyInit ==
  ASSUME Joystick!Init
  PROVE  JoyInv
<1>1. /\ held = {} /\ stick = [a \in 0 .. 1 |-> 0] /\ button_state = {} /\ nsent = 0
      /\ wire = <<>> /\ ring = <<>> /\ lost = FALSE /\ reader = "read"
      /\ Buttons = {} /\ axis = [a \in 0 .. 1 |-> 128] /\ applied = <<>>
  BY DEF Joystick!Init
<1>2. JoyTyped
  <2>1. 0 \in Positions
    BY JoyConstants
  <2>2. <<>> \in Seq(JoyWord)
    BY EmptySeq
  <2>3. QED BY <1>1, <2>1, <2>2 DEF JoyTyped
<1>3. Joystick!FollowsJoystick
  <2>1. \A a \in 0 .. 1 : ~(stick[a] > tol) /\ ~(stick[a] < -tol)
    BY <1>1, JoyConstants
  <2>2. \A b \in DOMAIN buttmap : b \in Joystick!Meaning(buttmap[b])
    BY DEF Joystick!Meaning
  <2>3. Pressed(button_state, held)
    BY <1>1, <2>2 DEF Pressed
  <2>4. QED BY <1>1, <2>1, <2>3, FollowsIs DEF Pointed
<1>4. Len(<<>>) = 0 /\ 0 % 3 = 0 /\ (\A i \in 1 .. 0 : FALSE) /\ 0 <= BufSize
  BY JoyConstants
<1>5. JoyOrder
  <2>1. InLine(Way, 0, 0)
    BY <1>1, <1>4, NoWay DEF InLine
  <2>2. QED BY <1>1, <2>1 DEF JoyOrder, Number, Joystick!OnlySent
<1>6. JoyShape
  BY <1>1, <1>4 DEF JoyShape, Whole, Upto
<1>7. JoyLeads
  <2>1. \A d : Leads(Way, <<"button", d>>, Down(d \in Buttons), Down(d \in button_state))
    BY <1>1, NoWay
  <2>2. \A a \in 0 .. 1 : stick[a] = 0 /\ axis[a] = 128
    BY <1>1
  <2>3. \A a \in 0 .. 1 : AxisLeads(a)
    BY <1>1, <2>2, NoWay DEF AxisLeads
  <2>4. QED BY <2>1, <2>3 DEF JoyLeads
<1>8. QED BY <1>2, <1>3, <1>5, <1>6, <1>7 DEF JoyInv

\* What a program is told of an axis.
LEMMA AxisAgrees ==
  ASSUME NEW goal \in Int, NEW new \in Int, new = goal \/ (goal = 127 /\ new = 128),
         NEW real \in {0, 127, 255}
  PROVE  LET seen == Joystick!map_axis(real, new)
         IN \/ seen = goal
            \/ Joystick!Abs(seen - real) <= 1
               /\ Joystick!Abs(real - 127) >= Joystick!Abs(goal - 127)
<1>1. CASE new = goal
  <2>1. real \in Int
    OBVIOUS
  <2>2. CASE Joystick!Abs(real - 127) > Joystick!Abs(new - 127)
    <3>1. Joystick!map_axis(real, new) = real
      BY <2>2 DEF Joystick!map_axis
    <3>2. Joystick!Abs(real - real) = 0
      BY <2>1 DEF Joystick!Abs
    <3>3. Joystick!Abs(real - 127) \in Int /\ Joystick!Abs(goal - 127) \in Int
      BY <2>1 DEF Joystick!Abs
    <3>4. Joystick!Abs(real - 127) >= Joystick!Abs(goal - 127)
      BY <1>1, <2>2, <3>3
    <3>5. QED BY <3>1, <3>2, <3>4
  <2>3. CASE ~(Joystick!Abs(real - 127) > Joystick!Abs(new - 127))
    BY <1>1, <2>3 DEF Joystick!map_axis
  <2>4. QED BY <2>2, <2>3
<1>2. CASE goal = 127 /\ new = 128
  <2>1. CASE real = 0
    BY <1>2, <2>1 DEF Joystick!map_axis, Joystick!Abs
  <2>2. CASE real = 127
    BY <1>2, <2>2 DEF Joystick!map_axis, Joystick!Abs
  <2>3. CASE real = 255
    BY <1>2, <2>3 DEF Joystick!map_axis, Joystick!Abs
  <2>4. QED BY <2>1, <2>2, <2>3
<1>3. QED BY <1>1, <1>2

\* What the invariant is for.
LEMMA JoySafe ==
  ASSUME JoyInv
  PROVE  /\ Joystick!TypeOK /\ Joystick!FollowsJoystick
         /\ Joystick!OnlySent /\ Joystick!Agrees
<1>1. button_state \in SUBSET Joystick!PspButtons /\ Buttons \in SUBSET Joystick!PspButtons
  BY StateIs DEF JoyInv, JoyTyped
<1>2. Joystick!TypeOK
  BY <1>1 DEF JoyInv, JoyTyped, JoyShape, Joystick!TypeOK
<1>3. ASSUME ~lost, wire = <<>>, ring = <<>>
      PROVE  /\ Joystick!add_values({}, FALSE) = button_state
             /\ Joystick!add_values(Joystick!PspButtons, TRUE) = Joystick!PspButtons \ button_state
             /\ analog => \A a \in 0 .. 1, real \in {0, 127, 255} :
                  LET seen == Joystick!map_axis(real, axis[a])
                  IN \/ seen = Joystick!Scale(stick[a])
                     \/ Joystick!Abs(seen - real) <= 1
                        /\ Joystick!Abs(real - 127) >= Joystick!Abs(Joystick!Scale(stick[a]) - 127)
  <2>1. JoyLeads
    BY <1>3 DEF JoyInv
  <2>2. \A d \in Joystick!PspButtons : Down(d \in Buttons) = Down(d \in button_state)
    BY <1>3, <2>1, NoWay DEF JoyLeads
  <2>3. Buttons = button_state
    BY <1>1, <2>2 DEF Down
  <2>4. ASSUME analog, NEW a \in 0 .. 1, NEW real \in {0, 127, 255}
        PROVE  LET seen == Joystick!map_axis(real, axis[a])
               IN \/ seen = Joystick!Scale(stick[a])
                  \/ Joystick!Abs(seen - real) <= 1
                     /\ Joystick!Abs(real - 127) >= Joystick!Abs(Joystick!Scale(stick[a]) - 127)
    <3>1. AxisLeads(a)
      BY <2>1, <2>4 DEF JoyLeads
    <3>2. axis[a] = Joystick!Scale(stick[a]) \/ (stick[a] = 0 /\ axis[a] = 128)
      BY <1>3, <3>1, NoWay DEF AxisLeads
    <3>3. stick[a] \in Int /\ axis[a] \in Int
      BY JoyConstants DEF JoyInv, JoyTyped
    <3>4. Joystick!Scale(stick[a]) \in Int
      BY <3>3 DEF Joystick!Scale
    <3>5. Joystick!Scale(0) = 127
      BY DEF Joystick!Scale
    <3>6. QED BY <3>2, <3>3, <3>4, <3>5, AxisAgrees
  <2>5. QED BY <2>3, <2>4 DEF Joystick!add_values
<1>4. Joystick!Agrees
  BY <1>3 DEF Joystick!Agrees
<1>5. QED BY <1>2, <1>4 DEF JoyInv, JoyOrder

\* A step that leaves it alone, or only ends remotejoy.
LEMMA JoyStays ==
  ASSUME JoyInv,
         UNCHANGED <<held, stick, button_state, nsent, wire, ring, lost, reader, Buttons, axis, applied>>
  PROVE  JoyInv'
<1>1. JoyTyped' /\ Joystick!FollowsJoystick' /\ JoyShape'
  BY DEF JoyInv, JoyTyped, Joystick!FollowsJoystick, JoyShape
<1>2. Way' = Way /\ Number' = Number
  BY DEF Way, Number
<1>3. JoyOrder' /\ (~lost' => JoyLeads')
  BY <1>2 DEF JoyInv, JoyOrder, Joystick!OnlySent, JoyLeads, AxisLeads, Joystick!Scale
<1>4. QED BY <1>1, <1>3 DEF JoyInv

\* Every step keeps it, and applies events in order.
LEMMA JoyStep ==
  ASSUME JoyInv, Joystick!Next
  PROVE  JoyInv' /\ [Joystick!InOrder]_joyVars
<1>1. ASSUME NEW b \in DOMAIN buttmap, Joystick!Button(b) PROVE JoyInv' /\ Joystick!InOrder
  BY <1>1, ButtonKeeps DEF Joystick!InOrder
<1>2. ASSUME NEW a \in 0 .. 1, NEW v \in Positions, Joystick!Axis(a, v)
      PROVE  JoyInv' /\ Joystick!InOrder
  BY <1>2, AxisKeeps DEF Joystick!InOrder
<1>3. ASSUME Joystick!Stop PROVE JoyInv' /\ Joystick!InOrder
  <2>1. UNCHANGED <<held, stick, button_state, nsent, wire, ring, lost, reader, Buttons, axis, applied>>
    BY <1>3 DEF Joystick!Stop, Joystick!psp
  <2>2. QED BY <2>1, JoyStays DEF Joystick!InOrder
<1>4. ASSUME Joystick!Forward PROVE JoyInv' /\ Joystick!InOrder
  BY <1>4, ForwardKeeps DEF Joystick!InOrder
<1>5. QED BY <1>1, <1>2, <1>3, <1>4, ReadKeeps, FlushKeeps DEF Joystick!Next

\* send_event, async_thread, main_thread, add_values: what the PSP has of the
\* buttons and axes, once all words are read and unless the ring overflowed, is
\* what is held and where the stick is; an event applied was sent, and events are
\* applied in the order sent and none twice, whatever was dropped; for every map,
\* all positions and sizes, a button of the PSP that several of the joystick's mean
\* counting as held when all of them are and as up when none is.
THEOREM JoystickIsFollowed ==
  Joystick!Spec => JoystickFollowed
<1>1. Joystick!Init => JoyInv
  BY JoyInit
<1>2. UNCHANGED Joystick!vars => UNCHANGED joyVars
  BY DEF Joystick!vars, joyVars
<1>3. JoyInv /\ [Joystick!Next]_Joystick!vars => JoyInv'
  <2>1. ASSUME JoyInv, UNCHANGED joyVars PROVE JoyInv'
    BY <2>1, JoyStays DEF joyVars
  <2>2. QED BY <1>2, <2>1, JoyStep
<1>4. JoyInv /\ [Joystick!Next]_Joystick!vars => [Joystick!InOrder]_joyVars
  BY <1>2, JoyStep
<1>5. JoyInv => /\ Joystick!TypeOK /\ Joystick!FollowsJoystick
                /\ Joystick!OnlySent /\ Joystick!Agrees
  BY JoySafe
<1>6. QED BY <1>1, <1>3, <1>4, <1>5, PTL DEF Joystick!Spec, JoystickFollowed
=============================================================================
