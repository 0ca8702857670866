--------------------------- MODULE MemoryCommands ---------------------------
(***************************************************************************)
(* The shell's memory commands (psplink/shell.c: memdump, savemem,         *)
(* loadmem, poke, peek, fill, find, copymem, disasm, memprot) over the     *)
(* table of regions of psplink/decodeaddr.c.  A byte has Base values, a    *)
(* half is two bytes and a word four, so that a value poked is cut to its  *)
(* width and spread over bytes as on the machine.  Addresses are 0..Top-1  *)
(* and wrap.  Every region of g_memareas is MEM_ATTRIB_ALL, so the         *)
(* attributes a command asks for never decide anything and are left out.   *)
(***************************************************************************)
EXTENDS Integers, Sequences, FiniteSets, SequencesExt, FiniteSetsExt

CONSTANTS
  Base,          \* values of a byte
  Top,           \* size of the address space
  g_memareas,    \* sequence of [addr, size, v1only]
  g_isv1,        \* firmware 1.0
  DumpSize,      \* MAX_MEMDUMP_SIZE
  Row,           \* bytes in a row of memdump (16)
  Typeable,      \* addresses typed
  Data,          \* values typed; -1 is one that strtoul does not take whole
  Sizes,         \* sizes and counts typed
  Patterns,      \* byte strings searched for: [pat, mask]
  FileData,      \* content of the file that loadmem reads
  Image,         \* the memory at the start
  MaxCommands    \* bound on commands typed

\* What the constants are assumed to be.
LayoutAssumption ==
  /\ Top \in Nat /\ DumpSize \in Nat \ {0} /\ Row \in Nat \ {0}
  /\ \A i \in 1 .. Len(g_memareas) :
       LET r == g_memareas[i]
       IN r.addr % 4 = 0 /\ r.size % 4 = 0 /\ r.size > 0 /\ r.addr + r.size <= Top

VARIABLES
  mem,        \* the bytes
  g_protoff,  \* memory protection is off
  dumpaddr,   \* memdump's static addr
  last,       \* the command that ran last and its arguments
  touched,    \* the bytes it read or wrote
  sources,    \* the bytes copymem read at its source
  shown,      \* what it printed: addresses, or a value
  io,         \* a file command between two calls of sceIo
  file,       \* what savemem has written
  commands    \* number of commands typed

vars == <<mem, g_protoff, dumpaddr, last, touched, sources, shown, io, file, commands>>

Addr == 0 .. Top - 1
Idle == [kind |-> "none", addr |-> 0, size |-> 0, done |-> 0]

Init == /\ mem = Image
        /\ g_protoff = FALSE
        /\ dumpaddr = 0
        /\ last = <<"none">> /\ touched = {} /\ sources = {} /\ shown = {}
        /\ io = Idle /\ file = <<>>
        /\ commands = 0

Bytes(a, n) == {(a + k) % Top : k \in 0 .. n - 1}
Region(r) == r.addr .. r.addr + r.size - 1

(* memValidate: the bytes left in the first region that holds addr; four   *)
(* where there are none and protection is off.                             *)
memValidate(addr) ==
  LET hit == SelectInSeq(g_memareas, LAMBDA r : addr \in Region(r))
      left == IF hit # 0 /\ (~g_memareas[hit].v1only \/ g_isv1)
                THEN g_memareas[hit].size - (addr - g_memareas[hit].addr) ELSE 0
  IN IF g_protoff /\ left = 0 THEN 4 ELSE left

Aligned(addr, n) == addr - (addr % n)

(* Byte k, from 0, of the value v stored with width n.                     *)
Byte(v, k) == (v \div Base^k) % Base
Stored(m, a, v, n) == [x \in Addr |-> IF x \in Bytes(a, n) THEN Byte(v, (x - a) % Top) ELSE m[x]]
LoadedAt(a, n) == FoldFunctionOnSet(+, 0, [k \in 0 .. n - 1 |-> mem[(a + k) % Top] * Base^k],
                                    0 .. n - 1)

Copying(cmd, from) == /\ io.kind = "none"
                      /\ commands < MaxCommands
                      /\ commands' = commands + 1
                      /\ last' = cmd
                      /\ sources' = from
Typed(cmd) == Copying(cmd, {})

Fails == /\ touched' = {} /\ shown' = {}
         /\ UNCHANGED mem

(* pokew, pokeh, pokeb: the address is aligned, and the values are stored  *)
(* one after the other until they or the region end; a value that is no    *)
(* number leaves its place as it is.                                       *)
poke(addr, vals, n) ==
  LET a == Aligned(addr, n)
      left == memValidate(a)
      stores == {i \in 1 .. Len(vals) : left - (i - 1) * n > 0}
      kept == {i \in stores : vals[i] >= 0}
      written == UNION {Bytes(a + (i - 1) * n, n) : i \in kept}
      after[i \in 0 .. Len(vals)] ==
        IF i = 0 THEN mem
        ELSE IF i \in kept THEN Stored(after[i - 1], (a + (i - 1) * n) % Top, vals[i], n)
                           ELSE after[i - 1]
  IN /\ Typed(<<"poke", addr, vals, n>>)
     /\ IF left >= n
          THEN /\ mem' = after[Len(vals)]
               /\ touched' = written /\ shown' = {}
          ELSE Fails
     /\ UNCHANGED <<g_protoff, dumpaddr, io, file>>

(* peekw, peekh, peekb: one aligned value.                                 *)
peek(addr, n) ==
  LET a == Aligned(addr, n)
  IN /\ Typed(<<"peek", addr, n>>)
     /\ IF memValidate(a) >= n
          THEN /\ touched' = Bytes(a, n)
               /\ shown' = {LoadedAt(a, n)}
               /\ UNCHANGED mem
          ELSE Fails
     /\ UNCHANGED <<g_protoff, dumpaddr, io, file>>

(* fillb, fillh, fillw: size bytes, cut to the region, hold whole values.  *)
fill(addr, size, val, n) ==
  LET a == Aligned(addr, n)
      items == Min({size, memValidate(a)}) \div n
      written == Bytes(a, items * n)
  IN /\ Typed(<<"fill", addr, size, val, n>>)
     /\ IF val >= 0
          THEN /\ mem' = [x \in Addr |-> IF x \in written
                                           THEN Byte(val, ((x - a) % Top) % n) ELSE mem[x]]
               /\ touched' = written /\ shown' = {}
          ELSE Fails
     /\ UNCHANGED <<g_protoff, dumpaddr, io, file>>

(* memcmp_mask: the data is masked, the pattern is not.                    *)
memcmp_mask(a, p) ==
  \A k \in 1 .. Len(p.pat) :
    (IF p.mask[k] THEN mem[(a + k - 1) % Top] ELSE 0) = p.pat[k]

(* memmem_mask: the first place in len bytes from a, as an offset, or -1.  *)
memmem_mask(a, len, p) ==
  LET fits == {i \in 0 .. len - Len(p.pat) : memcmp_mask((a + i) % Top, p)}
  IN IF fits = {} THEN -1 ELSE Min(fits)

(* findstr, findw, findh, findhex: the search is taken up again one byte   *)
(* behind each match until what is left is used up.                        *)
find(addr, size, p) ==
  LET len == Min({size, memValidate(addr)})
      hits[curr \in Nat] ==
        LET i == memmem_mask(addr + curr, len - curr, p)
        IN IF i < 0 THEN {}
           ELSE {addr + curr + i} \cup
                (IF len - (curr + i + 1) > 0 THEN hits[curr + i + 1] ELSE {})
  IN /\ Typed(<<"find", addr, size, p>>)
     /\ shown' = hits[0]
     /\ touched' = Bytes(addr, len)
     /\ UNCHANGED <<mem, g_protoff, dumpaddr, io, file>>

\* Mutant of copymem.
TrustsSource(src, dest, size) ==
  LET n == Min({size, memValidate(dest)})
  IN /\ Copying(<<"copymem", src, dest, size>>, Bytes(src, n))
     /\ mem' = [x \in Addr |-> IF x \in Bytes(dest, n) THEN mem[(src + (x - dest)) % Top]
                                                       ELSE mem[x]]
     /\ touched' = Bytes(dest, n) /\ shown' = {}
     /\ UNCHANGED <<g_protoff, dumpaddr, io, file>>

(* copymem: memmove of what fits at both ends.                             *)
copymem(src, dest, size) ==
  LET n == Min({size, memValidate(src), memValidate(dest)})
  IN /\ Copying(<<"copymem", src, dest, size>>, Bytes(src, n))
     /\ mem' = [x \in Addr |-> IF x \in Bytes(dest, n) THEN mem[(src + (x - dest)) % Top]
                                                       ELSE mem[x]]
     /\ touched' = Bytes(dest, n) /\ shown' = {}
     /\ UNCHANGED <<g_protoff, dumpaddr, io, file>>

(* print_memdump: at most DumpSize bytes are read, and whole rows of them  *)
(* printed.                                                                *)
print_memdump(addr, size) ==
  LET n == Min({size, DumpSize})
  IN /\ touched' = Bytes(addr, n)
     /\ shown' = Bytes(addr, n - (n % Row))

(* memdump: an address, '-', or nothing, which goes on behind the last     *)
(* dump and fails while the static address is 0.                           *)
memdump(arg) ==
  LET addr == CASE arg = <<"-">>    -> (dumpaddr - DumpSize) % Top
                [] arg = <<"next">> -> (dumpaddr + DumpSize) % Top
                [] OTHER            -> arg[2]
      refused == arg = <<"next">> /\ dumpaddr = 0
  IN /\ Typed(<<"memdump">> \o arg)
     /\ dumpaddr' = IF refused THEN dumpaddr ELSE addr
     /\ IF refused THEN Fails ELSE print_memdump(addr, memValidate(addr)) /\ UNCHANGED mem
     /\ UNCHANGED <<g_protoff, io, file>>

(* disasm: count instructions, as many as the region has.                  *)
disasm(addr, count) ==
  LET a == Aligned(addr, 4)
      n == Min({count, memValidate(a) \div 4})
  IN /\ Typed(<<"disasm", addr, count>>)
     /\ IF count > 0
          THEN touched' = Bytes(a, 4 * n) /\ shown' = {} /\ UNCHANGED mem
          ELSE Fails
     /\ UNCHANGED <<g_protoff, dumpaddr, io, file>>

(* memprot on, memprot off                                                 *)
memprot(off) ==
  /\ Typed(<<"memprot", off>>)
  /\ g_protoff' = off
  /\ touched' = {} /\ shown' = {}
  /\ UNCHANGED <<mem, dumpaddr, io, file>>

(* savemem addr size path, up to the opened file, which is truncated; a    *)
(* size that does not fit an int is negative.                              *)
savemem(addr, size) ==
  /\ Typed(<<"savemem", addr, size>>)
  /\ \E opened \in BOOLEAN :
       /\ io' = IF opened THEN [kind |-> "save", addr |-> addr, done |-> 0,
                                size |-> Min({size, memValidate(addr)})]
                          ELSE Idle
       /\ file' = IF opened THEN <<>> ELSE file
  /\ touched' = {} /\ shown' = {}
  /\ UNCHANGED <<mem, g_protoff, dumpaddr>>

(* loadmem addr path [maxsize], without one (-1) or with one that is       *)
(* negative as an int the region is the limit.                             *)
loadmem(addr, maxsize) ==
  /\ Typed(<<"loadmem", addr, maxsize>>)
  /\ \E opened \in BOOLEAN :
       io' = IF opened THEN [kind |-> "load", addr |-> addr, done |-> 0,
                             size |-> IF maxsize >= 0 THEN Min({maxsize, memValidate(addr)})
                                                      ELSE memValidate(addr)]
                       ELSE Idle
  /\ touched' = {} /\ shown' = {}
  /\ UNCHANGED <<mem, g_protoff, dumpaddr, file>>

(* One sceIoWrite of savemem's loop: a part of what is left, or a failure. *)
Write ==
  /\ io.kind = "save" /\ io.done < io.size
  /\ \/ \E ret \in 1 .. io.size - io.done :
          /\ io' = [io EXCEPT !.done = @ + ret]
          /\ file' = file \o [k \in 1 .. ret |-> mem[(io.addr + io.done + k - 1) % Top]]
          /\ touched' = touched \cup Bytes(io.addr + io.done, ret)
     \/ io' = [io EXCEPT !.size = io.done] /\ UNCHANGED <<file, touched>>
  /\ UNCHANGED <<mem, g_protoff, dumpaddr, last, sources, shown, commands>>

(* One sceIoRead of loadmem's loop: a part of what the file still has, its *)
(* end, or a failure.                                                      *)
Read ==
  /\ io.kind = "load" /\ io.done < io.size
  /\ \/ \E ret \in 1 .. Min({io.size - io.done, Len(FileData) - io.done}) :
          LET at == Bytes(io.addr + io.done, ret)
          IN /\ io' = [io EXCEPT !.done = @ + ret]
             /\ mem' = [x \in Addr |-> IF x \in at THEN FileData[((x - io.addr) % Top) + 1]
                                                   ELSE mem[x]]
             /\ touched' = touched \cup at
     \/ io' = [io EXCEPT !.size = io.done] /\ UNCHANGED <<mem, touched>>
  /\ UNCHANGED <<g_protoff, dumpaddr, last, sources, shown, file, commands>>

(* sceIoClose                                                              *)
Close ==
  /\ io.kind # "none" /\ io.done >= io.size
  /\ io' = Idle
  /\ UNCHANGED <<mem, g_protoff, dumpaddr, last, touched, sources, shown, file, commands>>

Next ==
  \/ \E a \in Typeable, n \in {1, 2, 4} :
       \/ \E vals \in BoundedSeq(Data, 2) \ {<<>>} : poke(a, vals, n)
       \/ peek(a, n)
       \/ \E s \in Sizes, v \in Data : fill(a, s, v, n)
  \/ \E a \in Typeable, s \in Sizes :
       \/ \E p \in Patterns : find(a, s, p)
       \/ \E b \in Typeable : copymem(a, b, s)
       \/ disasm(a, s)
       \/ savemem(a, s)
       \/ loadmem(a, s)
  \/ \E a \in Typeable : savemem(a, -1) \/ loadmem(a, -1)
  \/ \E arg \in {<<"-">>, <<"next">>} \cup {<<"addr", a>> : a \in Typeable} : memdump(arg)
  \/ \E off \in BOOLEAN : memprot(off)
  \/ Write \/ Read \/ Close

Spec == Init /\ [][Next]_vars

-----------------------------------------------------------------------------
TypeOK ==
  /\ mem \in [Addr -> 0 .. Base - 1]
  /\ g_protoff \in BOOLEAN /\ dumpaddr \in Addr
  /\ touched \subseteq Addr
  /\ io.done \in 0 .. Top /\ Len(file) <= Top

Visible == {r \in ToSet(g_memareas) : ~r.v1only \/ g_isv1}

Allowed(bytes) ==
  \/ \E r \in Visible : bytes \subseteq Region(r)
  \/ bytes = {}
  \/ g_protoff /\ \E a \in Addr : bytes \subseteq Bytes(a, 4)

(* Whatever address, size and list of values is typed, and whatever is     *)
(* aligned, cut short or taken in parts, a command touches bytes of one    *)
(* region that this firmware has; with protection off it may touch four    *)
(* bytes elsewhere ("Allow for a 4 byte read"), and no more.  The same     *)
(* holds of the bytes that copymem reads at its source.                    *)
InRegion == Allowed(touched) /\ Allowed(sources)

(* fill with a number leaves as many whole values as fit into the size it  *)
(* was given, cut to the region, and changes nothing else; with what is no *)
(* number it changes nothing.                                              *)
FillExact ==
  (last'[1] = "fill" /\ commands' # commands) =>
    LET n == last'[5]
        a == Aligned(last'[2], n)
        items == IF last'[4] < 0 THEN 0 ELSE Min({last'[3], memValidate(a)}) \div n
    IN \A k \in 0 .. Top - 1 :
         mem'[(a + k) % Top] = IF k < items * n THEN Byte(last'[4], k % n) ELSE mem[(a + k) % Top]

(* find prints every place of the searched bytes where the pattern stands, *)
(* overlapping matches and the one that ends on the last byte included.    *)
FindsAll ==
  last[1] = "find" =>
    LET end == last[2] + Min({last[3], memValidate(last[2])})
    IN shown = {x \in last[2] .. end - Len(last[4].pat) : memcmp_mask(x % Top, last[4])}

(* copymem leaves at dest what stood at src before, as much as fits at     *)
(* both, also when the two overlap, and changes nothing else.              *)
CopyExact ==
  (last'[1] = "copymem" /\ commands' # commands) =>
    LET a == last'[2]
        b == last'[3]
        n == Min({last'[4], memValidate(a), memValidate(b)})
    IN \A k \in 0 .. Top - 1 :
         mem'[(b + k) % Top] = IF k < n THEN mem[(a + k) % Top] ELSE mem[(b + k) % Top]

(* The file holds the bytes from the address on, in order and up to where  *)
(* the writing got, however the writes were cut.                           *)
SavedInOrder ==
  (last[1] = "savemem" /\ io.kind = "save") =>
    /\ Len(file) = io.done
    /\ \A k \in 1 .. Len(file) : file[k] = mem[(last[2] + k - 1) % Top]
=============================================================================
