------------------------------ MODULE ApiHook ------------------------------
(***************************************************************************)
(* psplink's API hooks (psplink/apihook.c, libs.c and the entry stubs of   *)
(* kmode.S).  The shell thread finds an export, takes a free slot of       *)
(* g_apihooks and puts the slot's stub into the system call table; threads *)
(* that make the call run through the stub, which asks _apiHookHandle for  *)
(* the real function, calls it and passes its results on.  Hooking and     *)
(* deleting go on while threads are anywhere in between.                   *)
(***************************************************************************)
EXTENDS Integers, Sequences, SequencesExt

CONSTANTS
  Threads,       \* threads that make system calls
  Libraries,     \* the module's export tables: [libname, stubcount, vstubcount,
                 \* entrytable], the table holding NIDs and then addresses
  HookNames,     \* what is typed: [library, nid, byname, means], means being the
                 \* function that goes by it, 0 for none
  Patched,       \* functions replaced for good by apiHookByNid at start-up
  APIHOOK_MAXIDS,
  MaxHooks       \* bound on hooks made

VARIABLES
  table,      \* system call -> its function, a slot's stub, or a patch
  hooks,      \* g_apihooks: slot -> [func, sleep, name, asked]; func 0 is free
  shell,      \* the shell thread inside apiHookGenericByName or ...ByNid
  pc, slot, func, ran, result,   \* each thread's call
  stranded,   \* history: threads on their way in when their hook was deleted
  made        \* number of hooks made

vars == <<table, hooks, shell, pc, slot, func, ran, result, stranded, made>>

Slots == 1 .. APIHOOK_MAXIDS
Free == [func |-> 0, sleep |-> FALSE, name |-> 0, asked |-> FALSE]
Stub(i) == <<"stub", i>>
Fn(f) == <<"fn", f>>
Patch == <<"patch", 0>>

(* The functions a library exports: the first stubcount addresses.         *)
Functions == UNION {{l.entrytable[l.stubcount + l.vstubcount + i] : i \in 1 .. l.stubcount} :
                      l \in ToSet(Libraries)}

\* What the constants are assumed to be: tables of NIDs and addresses, no
\* function at address 0, and names that mean what stands at their NID's place.
HookAssumption ==
  /\ APIHOOK_MAXIDS \in Nat /\ MaxHooks \in Nat
  /\ Libraries \in Seq([libname : STRING, stubcount : Nat, vstubcount : Nat,
                        entrytable : Seq(Nat)])
  /\ \A l \in ToSet(Libraries) : Len(l.entrytable) = 2 * (l.stubcount + l.vstubcount)
  /\ 0 \notin Functions
  /\ \A name \in HookNames :
       /\ name.byname \in BOOLEAN
       /\ \A l \in ToSet(Libraries) : \A i \in 1 .. l.stubcount :
            l.libname = name.library /\ l.entrytable[i] = name.nid
              => name.means = l.entrytable[l.stubcount + l.vstubcount + i]

Nothing == [id |-> 0, func |-> 0]

Init == /\ table = [f \in Functions |-> IF f \in Patched THEN Patch ELSE Fn(f)]
        /\ hooks = [i \in Slots |-> Free]
        /\ shell = Nothing
        /\ pc = [t \in Threads |-> "idle"]
        /\ slot = [t \in Threads |-> 0] /\ func = [t \in Threads |-> 0]
        /\ ran = [t \in Threads |-> 0]
        /\ result = [t \in Threads |-> <<0, 0>>] /\ stranded = {}
        /\ made = 0

(* libsFindExportByNid: the first library of that name; the address stands *)
(* stubcount + vstubcount places behind the NID.                           *)
libsFindExportByNid(libname, nid) ==
  LET hit == SelectInSeq(Libraries, LAMBDA l : l.libname = libname)
  IN IF hit = 0 THEN 0
     ELSE LET l == Libraries[hit]
              i == SelectInSeq(SubSeq(l.entrytable, 1, l.stubcount), LAMBDA n : n = nid)
          IN IF i = 0 THEN 0 ELSE l.entrytable[l.stubcount + l.vstubcount + i]

(* find_free_hook: the first slot without a function, 0 when there is none.*)
find_free_hook == SelectInSeq([i \in Slots |-> hooks[i].func], LAMBDA f : f = 0)

(* find_syscall_addr: the place in the table that holds the function now.  *)
find_syscall_addr(addr) == addr \in Functions /\ table[addr] = Fn(addr)

(* apiHookGenericByName and apiHookGenericByNid up to the filled slot; a   *)
(* hook asked for by NID is made without sleep.                            *)
apiHookGeneric(name, sleep) ==
  LET id == find_free_hook
      addr == libsFindExportByNid(name.library, name.nid)
  IN /\ shell = Nothing /\ made < MaxHooks
     /\ made' = made + 1
     /\ IF id # 0 /\ addr # 0 /\ find_syscall_addr(addr)
          THEN /\ hooks' = [hooks EXCEPT ![id] =
                     [func |-> addr, sleep |-> sleep /\ name.byname,
                      name |-> name.means, asked |-> sleep]]
               /\ shell' = [id |-> id, func |-> addr]
          ELSE UNCHANGED <<hooks, shell>>
     /\ UNCHANGED <<table, pc, slot, func, ran, result, stranded>>

(* apiHookAddr, with interrupts off: the stub is in the table.             *)
apiHookAddr ==
  /\ shell # Nothing
  /\ table' = [table EXCEPT ![shell.func] = Stub(shell.id)]
  /\ shell' = Nothing
  /\ UNCHANGED <<hooks, pc, slot, func, ran, result, stranded, made>>

Inside(i) == {t \in Threads : pc[t] = "entry" /\ slot[t] = i}

(* apiHookGenericDelete, with interrupts off: the function goes back into  *)
(* the table and the slot is free, whoever is on its way in.               *)
apiHookGenericDelete(i) ==
  /\ shell = Nothing
  /\ hooks[i].func # 0
  /\ table' = [table EXCEPT ![hooks[i].func] = Fn(hooks[i].func)]
  /\ hooks' = [hooks EXCEPT ![i].func = 0]
  /\ stranded' = stranded \cup Inside(i)
  /\ UNCHANGED <<shell, pc, slot, func, ran, result, made>>

-----------------------------------------------------------------------------
(* What the function leaves in $v0 and $v1.                                *)
Returned(f) == <<f, f + 10>>

(* The gateway takes the call where the table points: to the function, or  *)
(* to a stub.  A patched function runs its patch.                          *)
Syscall(t, f) ==
  /\ pc[t] = "idle"
  /\ table[f] # Patch
  /\ func' = [func EXCEPT ![t] = f]
  /\ IF table[f][1] = "stub"
       THEN /\ pc' = [pc EXCEPT ![t] = "entry"]
            /\ slot' = [slot EXCEPT ![t] = table[f][2]]
            /\ ran' = [ran EXCEPT ![t] = 0]
            /\ UNCHANGED result
       ELSE /\ pc' = [pc EXCEPT ![t] = "done"]
            /\ slot' = [slot EXCEPT ![t] = 0]
            /\ ran' = [ran EXCEPT ![t] = f]
            /\ result' = [result EXCEPT ![t] = Returned(f)]
  /\ UNCHANGED <<table, hooks, shell, stranded, made>>

\* Mutant of _apiHookHandle.
FirstSlot(t) ==
  /\ pc[t] = "entry"
  /\ LET f == hooks[1].func
     IN IF f = 0
          THEN /\ pc' = [pc EXCEPT ![t] = "done"]
               /\ result' = [result EXCEPT ![t] = <<0, 0>>]
               /\ UNCHANGED ran
          ELSE /\ pc' = [pc EXCEPT ![t] = "handled"]
               /\ ran' = [ran EXCEPT ![t] = f]
               /\ UNCHANGED result
  /\ UNCHANGED <<table, hooks, shell, slot, func, stranded, made>>

(* _apiHookHandle: the slot's function is read with interrupts off; its    *)
(* sleep flag later, without.  No function means that nothing is called.   *)
_apiHookHandle(t) ==
  /\ pc[t] = "entry"
  /\ LET f == hooks[slot[t]].func
     IN IF f = 0
          THEN /\ pc' = [pc EXCEPT ![t] = "done"]
               /\ result' = [result EXCEPT ![t] = <<0, 0>>]
               /\ UNCHANGED ran
          ELSE /\ pc' = [pc EXCEPT ![t] = "handled"]
               /\ ran' = [ran EXCEPT ![t] = f]
               /\ UNCHANGED result
  /\ UNCHANGED <<table, hooks, shell, slot, func, stranded, made>>

(* The end of _apiHookHandle: the thread is put to sleep or goes on.       *)
Sleep(t) ==
  /\ pc[t] = "handled"
  /\ pc' = [pc EXCEPT ![t] = IF hooks[slot[t]].sleep THEN "asleep" ELSE "calling"]
  /\ UNCHANGED <<table, hooks, shell, slot, func, ran, result, stranded, made>>

(* thwake                                                                  *)
Wake(t) ==
  /\ pc[t] \in {"asleep", "asleep2"}
  /\ pc' = [pc EXCEPT ![t] = IF pc[t] = "asleep" THEN "calling" ELSE "restore"]
  /\ UNCHANGED <<table, hooks, shell, slot, func, ran, result, stranded, made>>

(* The stub calls the function _apiHookHandle returned and saves $v0, $v1. *)
Call(t) ==
  /\ pc[t] = "calling"
  /\ result' = [result EXCEPT ![t] = Returned(ran[t])]
  /\ pc' = [pc EXCEPT ![t] = "return"]
  /\ UNCHANGED <<table, hooks, shell, slot, func, ran, stranded, made>>

\* Mutant of _apiHookReturn.
NeedsHook(t) ==
  /\ pc[t] = "return" /\ hooks[slot[t]].func # 0
  /\ pc' = [pc EXCEPT ![t] = IF hooks[slot[t]].sleep THEN "asleep2" ELSE "restore"]
  /\ UNCHANGED <<table, hooks, shell, slot, func, ran, result, stranded, made>>

(* _apiHookReturn: it prints, and sleeps, if the slot has a function.      *)
_apiHookReturn(t) ==
  /\ pc[t] = "return"
  /\ pc' = [pc EXCEPT ![t] = IF hooks[slot[t]].func # 0 /\ hooks[slot[t]].sleep
                               THEN "asleep2" ELSE "restore"]
  /\ UNCHANGED <<table, hooks, shell, slot, func, ran, result, stranded, made>>

(* The stub loads $v0 and $v1 again, both from where $v0 was saved.        *)
Restore(t) ==
  /\ pc[t] = "restore"
  /\ result' = [result EXCEPT ![t] = <<@[1], @[1]>>]
  /\ pc' = [pc EXCEPT ![t] = "done"]
  /\ UNCHANGED <<table, hooks, shell, slot, func, ran, stranded, made>>

(* The caller has its result and goes on.                                  *)
Done(t) ==
  /\ pc[t] = "done"
  /\ pc' = [pc EXCEPT ![t] = "idle"]
  /\ slot' = [slot EXCEPT ![t] = 0] /\ func' = [func EXCEPT ![t] = 0]
  /\ ran' = [ran EXCEPT ![t] = 0] /\ result' = [result EXCEPT ![t] = <<0, 0>>]
  /\ stranded' = stranded \ {t}
  /\ UNCHANGED <<table, hooks, shell, made>>

Thread(t) ==
  \/ \E f \in Functions : Syscall(t, f)
  \/ _apiHookHandle(t) \/ Sleep(t) \/ Call(t) \/ _apiHookReturn(t) \/ Restore(t) \/ Done(t)

Next ==
  \/ \E name \in HookNames, sleep \in BOOLEAN : apiHookGeneric(name, sleep)
  \/ apiHookAddr
  \/ \E i \in Slots : apiHookGenericDelete(i)
  \/ \E t \in Threads : Thread(t) \/ Wake(t)

Spec == Init /\ [][Next]_vars

(* Threads run and whoever watches a hook wakes what it put to sleep.      *)
FairSpec == Spec /\ \A t \in Threads : WF_vars(Thread(t)) /\ WF_vars(Wake(t))

-----------------------------------------------------------------------------
TypeOK ==
  /\ \A f \in Functions : table[f] \in {Fn(f), Patch} \cup {Stub(i) : i \in Slots}
  /\ \A i \in Slots : hooks[i].func \in Functions \cup {0}
  /\ pc \in [Threads -> {"idle", "entry", "handled", "asleep", "calling", "return",
                         "asleep2", "restore", "done"}]

(* A stub in the table is the stub of a slot that leads to this very       *)
(* function, and each function has at most one: whatever was hooked and    *)
(* deleted in whatever order, no system call is left on a stub that is     *)
(* free or another function's, and freeing all slots restores the table.   *)
HookLeadsHome ==
  /\ \A f \in Functions, i \in Slots : table[f] = Stub(i) => hooks[i].func = f
  /\ \A i, j \in Slots : (i # j /\ hooks[i].func # 0) => hooks[i].func # hooks[j].func

(* A hook is on the function that the library and the NID or name stand    *)
(* for, in an export table where variables stand among the functions.      *)
HookedAsNamed == \A i \in Slots : hooks[i].func # 0 => hooks[i].func = hooks[i].name

(* A call that comes back has run its function, hooked or not, unless its  *)
(* hook was deleted while the thread was on its way in.                    *)
RunsOwnFunction == \A t \in Threads : pc[t] = "done" => (ran[t] = func[t] \/ t \in stranded)

(* The caller of a function with a 32 bit result gets it.                  *)
WordPassed == \A t \in Threads : (pc[t] = "done" /\ ran[t] = func[t])
                                   => result[t][1] = Returned(func[t])[1]

(* What the caller of a system call may rely on while hooks come and go:   *)
(* _apiHookEntry, apiHookGeneric: a hook is on the function that library   *)
(* and NID stand for, with variables among the exports; its stub leads     *)
(* back to that function, which has at most one; and a call that comes     *)
(* back has run its function, hooked or not, and brings its 32 bit result, *)
(* unless its hook was deleted while the thread was on its way in.         *)
HooksTransparent ==
  TypeOK /\ HookLeadsHome /\ HookedAsNamed /\ RunsOwnFunction /\ WordPassed

(* Every call comes back, through hooks that come, go and put it to sleep. *)
CallsReturn == \A t \in Threads : pc[t] # "idle" ~> pc[t] = "idle"
=============================================================================
