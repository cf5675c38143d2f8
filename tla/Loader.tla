--------------------------------- MODULE Loader ---------------------------------
(***************************************************************************)
(* hvm_vm_load_chunk (vm.c) with the symbol store (symbol.c), the constant *)
(* pool and the debug entries, fed by the chunks of module Generator: the  *)
(* chunk is copied behind the program loaded so far, then its symbols,     *)
(* constants, relocations and debug entries are applied one after another. *)
(*                                                                         *)
(* The symbol table is a structure, used by its contract (ObjStruct,       *)
(* ResultStored): the set of what was stored in it.                        *)
(***************************************************************************)
EXTENDS Generator

CONSTANTS
  Primitives,       \* names hvm_bootstrap_primitives interns, in order and each once
  ProgramInitial,   \* HVM_PROGRAM_INITIAL_CAPACITY
  SymbolsInitial,   \* HVM_SYMBOL_TABLE_INITIAL_SIZE
  PoolInitial,      \* HVM_CONSTANT_POOL_INITIAL_SIZE
  DebugInitial      \* HVM_DEBUG_ENTRIES_INITIAL_CAPACITY

ASSUME LoaderAssumption ==
  /\ Primitives \in Seq(Names)
  /\ \A i, j \in DOMAIN Primitives : Primitives[i] = Primitives[j] => i = j
  /\ ProgramInitial \in Nat \ {0} /\ PoolInitial \in Nat \ {0}
  /\ SymbolsInitial \in Nat /\ SymbolsInitial > Len(Primitives) + 1
  /\ DebugInitial \in Nat /\ DebugInitial > 1
  \* The null pointer points to no debug entry.
  /\ NULL \notin [start : Nat, end : Nat, line : Nat, name : Names \cup {NULL}, flags : Nat]

VARIABLES
  program, program_size, program_capacity,
  store, store_size,              \* vm->symbols: the name of each id, and symbols allocated
  symbol_table,                   \* vm->symbol_table: [id, dest] of every store
  pool, pool_size,                \* vm->const_pool: constant id i is pool[i + 1]
  debug_entries, debug_capacity,  \* vm->debug_entries
  part, done, start,              \* header being applied, entries of it done, chunk's address
  loaded                          \* history: start and contents of each chunk loaded

vmVars == <<program, program_size, program_capacity, store, store_size, symbol_table,
            pool, pool_size, debug_entries, debug_capacity, part, done, start, loaded>>
vars == <<genVars, vmVars>>

\* hvm_new_vm
Init ==
  /\ GenInit
  /\ program = [a \in 0 .. ProgramInitial - 1 |-> 0]
  /\ program_size = 0 /\ program_capacity = ProgramInitial
  /\ store = Primitives /\ store_size = SymbolsInitial
  /\ symbol_table = {}
  /\ pool = <<>> /\ pool_size = PoolInitial
  /\ debug_entries = <<>> /\ debug_capacity = DebugInitial
  /\ part = "none" /\ done = 0 /\ start = 0 /\ loaded = <<>>

--------------------------------------------------------------------------------
\* while((program_size + chunk->size + 16) > program_capacity) hvm_vm_expand_program
ExpandProgram ==
  /\ pc = "chunk" /\ program_size + chunk.size + 16 > program_capacity
  /\ program_capacity' = program_capacity * 2
  /\ program' = [a \in 0 .. program_capacity * 2 - 1 |->
                   IF a < program_capacity THEN program[a] ELSE 0]
  /\ UNCHANGED <<genVars, program_size, store, store_size, symbol_table, pool, pool_size,
                 debug_entries, debug_capacity, part, done, start, loaded>>

\* hvm_vm_load_chunk, up to the headers
LoadChunk ==
  /\ pc = "chunk" /\ program_size + chunk.size + 16 <= program_capacity
  /\ program' = [a \in DOMAIN program |->
                   IF a \in program_size .. program_size + chunk.size - 1
                   THEN chunk.data[a - program_size] ELSE program[a]]
  /\ program_size' = program_size + chunk.size
  /\ start' = program_size
  /\ pc' = "loading" /\ part' = "symbols" /\ done' = 0
  /\ loaded' = Append(loaded, [start |-> program_size, placed |-> placed])
  /\ UNCHANGED <<sources, called, open, items, next, blocks, chunk, placed, program_capacity,
                 store, store_size, symbol_table, pool, pool_size, debug_entries, debug_capacity>>

Applying(p, entries) == pc = "loading" /\ part = p /\ done < Len(entries) /\ done' = done + 1

\* hvm_symbolicate: the id of a name, found or new, and the store afterwards
Interned(name) == \E i \in DOMAIN store : store[i] = name
StoreWith(name) == IF Interned(name) THEN store ELSE Append(store, name)
IdOf(name) ==
  IF Interned(name) THEN CHOOSE i \in DOMAIN store : store[i] = name ELSE Len(store) + 1
\* hvm_symbol_store_add
Symbolicate(name) ==
  /\ store' = StoreWith(name)
  /\ store_size' = IF ~Interned(name) /\ Len(store) + 1 >= store_size - 1
                   THEN store_size * 2 ELSE store_size

LoadSymbol_mNoStart ==
  /\ Applying("symbols", chunk.symbols)
  /\ LET sym == chunk.symbols[done + 1]
     IN /\ Symbolicate(sym.name)
        /\ symbol_table' = symbol_table \cup {[id |-> IdOf(sym.name), dest |-> sym.index]}
  /\ UNCHANGED <<genVars, program, program_size, program_capacity, pool, pool_size,
                 debug_entries, debug_capacity, part, start, loaded>>
LoadSymbol ==
  /\ Applying("symbols", chunk.symbols)
  /\ LET sym == chunk.symbols[done + 1]
     IN /\ Symbolicate(sym.name)
        /\ symbol_table' = symbol_table \cup {[id |-> IdOf(sym.name), dest |-> start + sym.index]}
  /\ UNCHANGED <<genVars, program, program_size, program_capacity, pool, pool_size,
                 debug_entries, debug_capacity, part, start, loaded>>

\* hvm_chunk_get_constant_object, which knows strings and symbols
ConstNull == [type |-> "null", v |-> 0]
ConstantObject(cnst) ==
  CASE cnst.type = "string" -> [type |-> "string", v |-> cnst.name]
    [] cnst.type = "symbol" -> [type |-> "symbol", v |-> IdOf(cnst.name)]
    [] OTHER -> ConstNull

\* hvm_vm_load_chunk_constants with hvm_vm_add_const and hvm_const_pool_expand
LoadConstant ==
  /\ Applying("constants", chunk.constants)
  /\ LET cnst == chunk.constants[done + 1]
     IN /\ IF cnst.type = "symbol" THEN Symbolicate(cnst.name) ELSE UNCHANGED <<store, store_size>>
        /\ pool' = Append(pool, ConstantObject(cnst))
        /\ pool_size' = IF Len(pool) >= pool_size THEN pool_size * 2 ELSE pool_size
        /\ program' = Write(program, start + cnst.index,
                            {[at |-> 0, width |-> 4, val |-> Len(pool)]})
  /\ UNCHANGED <<genVars, program_size, program_capacity, symbol_table,
                 debug_entries, debug_capacity, part, start, loaded>>

\* hvm_vm_load_chunk_relocations.  The addition to a literal is that to an address;
\* the four high bytes stay as they are, since addresses are below 2^32.
LowWord(a) == program[a] + 2 ^ 8 * program[a + 1] + 2 ^ 16 * program[a + 2]
                + 2 ^ 24 * program[a + 3]
Relocated(reloc) ==
  Write(program, start + reloc,
        {[at |-> 0, width |-> 4, val |-> LowWord(start + reloc) + start]})
LoadRelocation ==
  /\ Applying("relocs", chunk.relocs)
  /\ program' = Relocated(chunk.relocs[done + 1])
  /\ UNCHANGED <<genVars, program_size, program_capacity, store, store_size, symbol_table,
                 pool, pool_size, debug_entries, debug_capacity, part, start, loaded>>

\* hvm_vm_load_chunk_debug_entries
Shifted(de) == [de EXCEPT !.start = (@ + start) % Space, !.end = (@ + start) % Space]
LoadDebugEntry ==
  /\ Applying("debug", chunk.debug_entries)
  /\ debug_capacity' = IF Len(debug_entries) >= debug_capacity - 1
                       THEN debug_capacity * 2 ELSE debug_capacity
  /\ debug_entries' = Append(debug_entries, Shifted(chunk.debug_entries[done + 1]))
  /\ UNCHANGED <<genVars, program, program_size, program_capacity, store, store_size,
                 symbol_table, pool, pool_size, part, start, loaded>>

\* A header is done; after the last the next chunk may be built, by a new hvm_gen.
NextPart ==
  /\ pc = "loading" /\ done' = 0
  /\ \/ part = "symbols" /\ done = Len(chunk.symbols) /\ part' = "constants"
     \/ part = "constants" /\ done = Len(chunk.constants) /\ part' = "relocs"
     \/ part = "relocs" /\ done = Len(chunk.relocs) /\ part' = "debug"
  /\ UNCHANGED <<genVars, program, program_size, program_capacity, store, store_size,
                 symbol_table, pool, pool_size, debug_entries, debug_capacity, start, loaded>>
Loaded ==
  /\ pc = "loading" /\ part = "debug" /\ done = Len(chunk.debug_entries)
  /\ part' = "none" /\ done' = 0
  /\ sources' = Tail(sources)
  /\ pc' = IF Len(sources) = 1 THEN "idle" ELSE "build"
  /\ called' = 0 /\ open' = <<0>> /\ items' = <<>> /\ next' = 0
  /\ UNCHANGED <<blocks, chunk, placed, program, program_size, program_capacity, store,
                 store_size, symbol_table, pool, pool_size, debug_entries, debug_capacity,
                 start, loaded>>

Next ==
  \/ Generate /\ UNCHANGED vmVars
  \/ ExpandProgram \/ LoadChunk \/ LoadSymbol \/ LoadConstant \/ LoadRelocation
  \/ LoadDebugEntry \/ NextPart \/ Loaded

Spec == Init /\ [][Next]_vars

--------------------------------------------------------------------------------
(* How the interpreter reads an instruction, after vm-dispatch.include.c *)

\* The offsets of its registers, in the order of the builder's arguments
RegsAt(instr) ==
  CASE instr \in OpsF \cup {"jump", "goto"} -> <<>>
    [] instr \in OpsA2 \cup {"invokeprimitive"} -> <<1, 2>>
    [] instr \in OpsA3 -> <<1, 2, 3>>
    [] instr = "call" -> <<12>>
    [] instr = "catch" -> <<9>>
    [] instr \in {"callsymbolic", "callprimitive"} -> <<8>>
    [] instr = "invokeaddress" -> <<4, 5>>
    [] OTHER -> <<1>>
\* Those of its destination or literal and of its constant's id
DestAt == [jump |-> 1, goto |-> 1, catch |-> 1, if |-> 2, litinteger |-> 2, call |-> 4]
ConstAt == [setsymbol |-> 2, setstring |-> 2, callsymbolic |-> 4, callprimitive |-> 4]
\* Where the next instruction begins
Size(instr) ==
  CASE instr \in OpsF -> 1
    [] instr \in OpsA2 \cup {"invokeprimitive"} -> 3
    [] instr \in OpsA3 -> 4
    [] instr = "jump" -> 5 [] instr = "goto" -> 9
    [] instr \in {"if", "litinteger", "catch"} -> 10
    [] instr = "call" -> 13
    [] instr \in {"callsymbolic", "callprimitive"} -> 9
    [] instr = "invokeaddress" -> 6
    [] instr \in {"setsymbol", "setstring"} -> 6
    [] OTHER -> 2

Holds(a, width, v) == \A k \in 0 .. width - 1 : program[a + k] = Byte(v, k)

\* find_debug_entry
FindDebugEntry(ip) ==
  LET found == {i \in DOMAIN debug_entries :
                  debug_entries[i].start <= ip /\ ip <= debug_entries[i].end}
  IN IF found = {} THEN NULL ELSE debug_entries[CHOOSE i \in found : \A j \in found : i <= j]

--------------------------------------------------------------------------------
\* Type invariant.
TypeOK ==
  /\ pc \in {"build", "process", "end", "chunk", "loading", "idle", "exited"}
  /\ part \in {"none", "symbols", "constants", "relocs", "debug"}
  /\ called \in Nat /\ next \in 0 .. Len(items) /\ done \in Nat /\ start \in Nat
  /\ open \in Seq(0 .. Len(items))
  /\ chunk.size \in Nat /\ chunk.capacity \in Nat
  /\ chunk.data \in [0 .. chunk.capacity - 1 -> 0 .. 255]
  /\ program_size \in Nat /\ program_capacity \in Nat
  /\ program \in [0 .. program_capacity - 1 -> 0 .. 255]
  /\ store \in Seq(Names) /\ symbol_table \subseteq [id : Nat, dest : Nat]
  /\ \A i \in DOMAIN debug_entries :
       debug_entries[i].start \in 0 .. Space - 1 /\ debug_entries[i].end \in 0 .. Space - 1

\* Every write is inside what is allocated: instructions, patches of labels and
\* relocations in the chunk and the program, entries in the arrays that grow.
InBounds ==
  /\ chunk.size <= chunk.capacity
  /\ \A i \in DOMAIN blocks : \A j \in DOMAIN blocks[i].uses :
       blocks[i].uses[j].idx + 8 <= chunk.capacity
  /\ \A i \in DOMAIN chunk.relocs : chunk.relocs[i] + 8 <= chunk.size
  /\ \A i \in DOMAIN chunk.constants : chunk.constants[i].index + 4 <= chunk.size
  /\ program_size <= program_capacity
  /\ Len(store) < store_size /\ Len(pool) <= pool_size
  /\ Len(debug_entries) <= debug_capacity

\* What was placed in a loaded chunk, and the labels its i-th entry can mean.
Settled == pc # "loading"
Ops(l) == {i \in DOMAIN l.placed : l.placed[i].what = "op"}
Meant(l, i) ==
  {j \in DOMAIN l.placed : /\ l.placed[j].what = "label"
                           /\ l.placed[j].block = l.placed[i].block
                           /\ l.placed[j].item.name = l.placed[i].item.name}

\* The destination the i-th entry asked for, in the program
DestHolds(l, i) ==
  LET p == l.placed[i]
      a == l.start + p.at + DestAt[Instr(p.item.b)]
  IN IF p.item.b \in Labelled
     THEN \A j \in Meant(l, i) : Meant(l, i) = {j} => Holds(a, 8, l.start + l.placed[j].at)
     ELSE Holds(a, IF p.item.b = "jump" THEN 4 ELSE 8,
                IF p.item.b \in {"jump", "litinteger"} THEN p.item.n ELSE l.start + p.item.n)
ConstHolds(l, i) ==
  LET p == l.placed[i]
  IN \E id \in DOMAIN pool :
       /\ Holds(l.start + p.at + ConstAt[Instr(p.item.b)], 4, id - 1)
       /\ IF p.item.b = "set_string" THEN pool[id] = [type |-> "string", v |-> p.item.name]
          ELSE pool[id].type = "symbol" /\ store[pool[id].v] = p.item.name

\* The interpreter reads the i-th entry as what the builder was asked for, and goes
\* on at the next one.
Decodes(l, i) ==
  LET p == l.placed[i]
      instr == Instr(p.item.b)
  IN /\ program[l.start + p.at] = Opcode[instr]
     /\ \A k \in DOMAIN RegsAt(instr) : program[l.start + p.at + RegsAt(instr)[k]] = p.item.regs[k]
     /\ instr \in DOMAIN DestAt => DestHolds(l, i)
     /\ instr \in DOMAIN ConstAt => ConstHolds(l, i)
     /\ \A j \in Ops(l) : (j > i /\ \A k \in Ops(l) : k > i => j <= k) =>
                            l.placed[j].at = p.at + Size(instr)

\* A call by a label that is defined further down is patched in the wrong place.
ForwardCall(l) ==
  \E i \in Ops(l) : l.placed[i].item.b = "call_label" /\ \A j \in Meant(l, i) : j > i

\* Once its chunk is loaded every instruction is read by the interpreter as it was
\* asked for, whatever chunks came before: labels and destinations are relocated,
\* constants are the VM's.  hvm_gen_if, hvm_gen_set_integer and calls by a label
\* further down are the exceptions.
InstructionsDecode ==
  Settled => \A m \in DOMAIN loaded : LET l == loaded[m] IN
    ForwardCall(l) \/ \A i \in Ops(l) :
                        l.placed[i].item.b \in {"if", "set_integer"} \/ Decodes(l, i)

\* The symbol table sends each subroutine's name to every place it was defined at and
\* to no other, and no name has two ids.
SymbolsResolve ==
  Settled =>
    /\ \A i, j \in DOMAIN store : store[i] = store[j] => i = j
    /\ \A e \in symbol_table : \E m \in DOMAIN loaded : \E i \in DOMAIN loaded[m].placed :
         LET p == loaded[m].placed[i]
         IN p.item.b = "sub" /\ p.item.name = store[e.id] /\ loaded[m].start + p.at = e.dest
    /\ \A m \in DOMAIN loaded : \A i \in DOMAIN loaded[m].placed :
         LET p == loaded[m].placed[i]
         IN p.item.b = "sub" =>
              \E e \in symbol_table : store[e.id] = p.item.name /\ e.dest = loaded[m].start + p.at

\* A backtrace finds for every instruction the debug entry in force where it was
\* built, the innermost block's first.  An entry that ends before address 0 of the
\* program covers all of it: then no more can be said.
CoversAll == \E i \in DOMAIN debug_entries : debug_entries[i].end = Space - 1
DebugFound ==
  (Settled /\ ~CoversAll) => \A m \in DOMAIN loaded : LET l == loaded[m] IN
    \A i \in Ops(l) :
      LET want == l.placed[i].debug
          got == FindDebugEntry(l.start + l.placed[i].at)
      IN IF want = NULL THEN got = NULL
         ELSE /\ got # NULL
              /\ got.line = want.line /\ got.name = want.name /\ got.flags = want.flags

\* generator.h, "Generate a CALL to a subroutine with the label `name` in the chunk.
\* The address is resolved at chunk compile time."
CallLabelsResolve ==
  Settled => \A m \in DOMAIN loaded : \A i \in Ops(loaded[m]) :
    loaded[m].placed[i].item.b = "call_label" => DestHolds(loaded[m], i)
================================================================================
