------------------------------- MODULE Symbols -------------------------------
(***************************************************************************)
(* Symbol files (psplink/symbols.c): symload puts a file into a list, and  *)
(* names and addresses are looked up in the file that goes with a module,  *)
(* wherever the module was loaded, for address expressions, for the        *)
(* disassembler and for the command symbyname.  A file is                  *)
(* [mod, good, syms], a symbol [name, addr, size].  The 64 KB of memory    *)
(* for the files are taken to be enough.                                   *)
(***************************************************************************)
EXTENDS Integers, Sequences, FiniteSetsExt

CONSTANTS
  SymFiles,      \* the files symload may be given
  Bases,         \* addresses at which modules may be loaded
  Size,          \* size of a module
  AbsFrom,       \* addresses from here on are not relative to a module
  Again,         \* more than one file of a module may be loaded
  MaxLoads       \* bound on symload

\* What the constants are assumed to be.
SymbolsAssumption ==
  /\ Bases \subseteq Nat /\ Size \in Nat /\ AbsFrom \in Nat \ {0} /\ MaxLoads \in Nat
  /\ \A b \in Bases : b >= AbsFrom /\ \A c \in Bases \ {b} : b + Size <= c \/ c + Size <= b
  /\ \A f \in SymFiles : /\ f.good \in BOOLEAN
                         /\ f.syms \in Seq([name : STRING, addr : Nat, size : Nat])

VARIABLES
  base,          \* where each module is loaded, 0 when it is not
  files,         \* the list at g_pHead
  loads

vars == <<base, files, loads>>

Mods == {f.mod : f \in SymFiles}

-----------------------------------------------------------------------------
(* Modules come and go; an executable is always at its own address.        *)
Init == base = [m \in Mods |-> 0] /\ files = <<>> /\ loads = 0

Fits(syms, b) ==
  \A i \in DOMAIN syms :
    syms[i].addr >= AbsFrom => b <= syms[i].addr /\ syms[i].addr < b + Size

LoadModule(m, b) ==
  /\ base[m] = 0 /\ \A n \in Mods : base[n] # b
  /\ \A f \in SymFiles : f.mod = m => Fits(f.syms, b)
  /\ base' = [base EXCEPT ![m] = b]
  /\ UNCHANGED <<files, loads>>

UnloadModule(m) ==
  base[m] # 0 /\ base' = [base EXCEPT ![m] = 0] /\ UNCHANGED <<files, loads>>

(* symbolLoadSymbols: a file that turns out bad is taken off the list.     *)
symbolLoadSymbols(f) ==
  /\ loads < MaxLoads /\ loads' = loads + 1
  /\ Again \/ \A i \in DOMAIN files : files[i].mod # f.mod
  /\ files' = IF f.good THEN Append(files, f) ELSE files
  /\ UNCHANGED base

Next == \/ \E m \in Mods, b \in Bases : LoadModule(m, b)
        \/ \E m \in Mods : UnloadModule(m)
        \/ \E f \in SymFiles : symbolLoadSymbols(f)

Spec == Init /\ [][Next]_vars

-----------------------------------------------------------------------------
(* find_symbolfile: the symbols of the first file of that module.          *)
find_symbolfile(m) ==
  LET of == {i \in DOMAIN files : files[i].mod = m}
  IN IF of = {} THEN <<>> ELSE files[Min(of)].syms

(* The address of a symbol of a module at b.                               *)
Bottom(e, b) == IF e.addr >= AbsFrom THEN e.addr ELSE e.addr + b

\* Mutant of Top.
LastReachesOn(syms, i, b) ==
  Bottom(syms[i], b) + syms[i].size + IF i = Len(syms) THEN 1 ELSE 0

(* A symbol without a size is taken to reach up to the next.               *)
Top(syms, i, b) ==
  IF syms[i].size = 0 /\ i < Len(syms) THEN syms[i + 1].addr
  ELSE Bottom(syms[i], b) + syms[i].size

(* The symbols around an address, by index.                                *)
Around(syms, addr, b) ==
  {i \in DOMAIN syms : Bottom(syms[i], b) <= addr /\ addr < Top(syms, i, b)}

(* symbolFindByAddress: the first such symbol of the module the address is *)
(* in and where the module is, as a set of at most one [sym, base].        *)
symbolFindByAddress(addr) ==
  {[sym |-> find_symbolfile(m)[Min(Around(find_symbolfile(m), addr, base[m]))],
    base |-> base[m]] :
     m \in {n \in Mods : /\ base[n] # 0 /\ base[n] <= addr /\ addr < base[n] + Size
                         /\ Around(find_symbolfile(n), addr, base[n]) # {}}}

(* symbolFindByName: the address of module:name, or 0.                     *)
symbolFindByName(m, name) ==
  LET syms == find_symbolfile(m)
      same == {i \in DOMAIN syms : syms[i].name = name}
  IN IF base[m] = 0 \/ same = {} THEN 0 ELSE Bottom(syms[Min(same)], base[m])

(* symbolFindNameByAddressEx: what the disassembler shows, name+offset.    *)
symbolFindNameByAddressEx(addr) ==
  LET Rel(r) == IF r.base <= r.sym.addr THEN r.sym.addr - r.base ELSE r.sym.addr
      Start(r) == r.base + Rel(r)
  IN {[name |-> r.sym.name, off |-> IF Start(r) < addr THEN addr - Start(r) ELSE 0] :
        r \in symbolFindByAddress(addr)}

-----------------------------------------------------------------------------
(* What a file is expected to be: no two symbols of a module have the same *)
(* name; those with a size lie apart, inside the module, and one without   *)
(* does not reach up to the next, wherever the module can be loaded.       *)
Apart(syms, b) ==
  /\ \A i \in DOMAIN syms : Bottom(syms[i], b) + syms[i].size <= b + Size
  /\ \A i, j \in DOMAIN syms :
       i # j /\ syms[i].size > 0 /\ syms[j].size > 0 =>
         \/ Bottom(syms[i], b) + syms[i].size <= Bottom(syms[j], b)
         \/ Bottom(syms[j], b) + syms[j].size <= Bottom(syms[i], b)
  /\ \A i \in 1 .. Len(syms) - 1 : syms[i].size = 0 => Top(syms, i, b) <= Bottom(syms[i], b)

FilesInOrder ==
  \A f \in SymFiles : f.good =>
    /\ \A i, j \in DOMAIN f.syms : f.syms[i].name = f.syms[j].name => i = j
    /\ \A b \in Bases : Fits(f.syms, b) => Apart(f.syms, b)

-----------------------------------------------------------------------------
(* The list holds good files only, in as many as were loaded.              *)
TypeOK ==
  /\ \A m \in Mods : base[m] \in Bases \cup {0}
  /\ Len(files) <= loads /\ \A i \in DOMAIN files : files[i].good

Addresses == UNION {b .. b + Size - 1 : b \in Bases}

(* The manual: "PSPLINK will ensure they are fixed up to the correct       *)
(* address before giving you the value no matter where your module was     *)
(* actually loaded".  The address of a symbol with a size leads back to    *)
(* it, and so does every address in it.                                    *)
NamesLeadBack ==
  \A m \in Mods : LET syms == find_symbolfile(m) IN
    \A i \in {j \in DOMAIN syms : base[m] # 0 /\ syms[j].size > 0} :
      \A o \in 0 .. syms[i].size - 1 :
        LET a == symbolFindByName(m, syms[i].name) + o
        IN symbolFindNameByAddressEx(a) = {[name |-> syms[i].name, off |-> o]}

(* An address that is given a name is in that symbol: the offset is within *)
(* its size, and name and offset lead back to the address.                 *)
AddressesLeadBack ==
  \A a \in Addresses : \A r \in symbolFindNameByAddressEx(a) :
    \E m \in Mods : LET syms == find_symbolfile(m) IN
      \E i \in DOMAIN syms : /\ syms[i].name = r.name /\ r.off < syms[i].size
                             /\ symbolFindByName(m, r.name) + r.off = a
==============================================================================
