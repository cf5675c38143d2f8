------------------------------ MODULE LoaderProofs ------------------------------
(***************************************************************************)
(* Theorems about Loader, for every program, set of names and initial      *)
(* capacity: its types, that nothing is written outside what is allocated, *)
(* that the symbol table leads to every subroutine that was loaded and the *)
(* debug entries to every instruction, and that the interpreter reads      *)
(* every instruction as it was asked for.                                  *)
(***************************************************************************)
EXTENDS Loader, GeneratorProofs

--------------------------------------------------------------------------------
(* The inductive invariant *)

\* vm->program: a chunk that is being loaded is inside it.
Programmed ==
  /\ program_size \in Nat /\ program_capacity \in Nat /\ program_size <= program_capacity
  /\ program \in [0 .. program_capacity - 1 -> 0 .. 255]
  /\ start \in Nat
  /\ pc = "loading" => start + chunk.size <= program_size
\* vm->symbols has one free place at least.
Stored ==
  /\ store \in Seq(Names) /\ store_size \in Nat /\ Len(store) + 1 < store_size
  /\ symbol_table \subseteq [id : Nat, dest : Nat]
ConstantObjects == [type : {"null", "string", "symbol"}, v : Nat \cup Names \cup {NULL}]
Pooled ==
  /\ pool \in Seq(ConstantObjects) /\ pool_size \in Nat \ {0} /\ Len(pool) <= pool_size
LoadedEntry == [start : 0 .. Space - 1, end : 0 .. Space - 1, line : Nat, name : Names \cup {NULL},
                flags : Nat]
Debugged ==
  /\ debug_entries \in Seq(LoadedEntry) /\ debug_capacity \in Nat \ {0}
  /\ Len(debug_entries) <= debug_capacity
Parted ==
  /\ part \in {"none", "symbols", "constants", "relocs", "debug"} /\ done \in Nat
LInv == GenInv /\ Programmed /\ Stored /\ Pooled /\ Debugged /\ Parted

LEMMA InvGivesTypes ==
  ASSUME LInv
  PROVE  TypeOK
  <1>1. /\ pc \in {"build", "process", "end", "chunk", "loading", "idle", "exited"}
        /\ part \in {"none", "symbols", "constants", "relocs", "debug"}
        /\ called \in Nat /\ done \in Nat /\ start \in Nat /\ open \in Seq(0 .. Len(items))
    BY DEF LInv, GenInv, Built, Stages, Parted, Programmed
  <1>2. next \in 0 .. Len(items)
    BY DEF LInv, GenInv, Built
  <1>3. /\ chunk.size \in Nat /\ chunk.capacity \in Nat
        /\ chunk.data \in [0 .. chunk.capacity - 1 -> 0 .. 255]
    BY DEF LInv, GenInv, IsChunk
  <1>4. /\ program_size \in Nat /\ program_capacity \in Nat
        /\ program \in [0 .. program_capacity - 1 -> 0 .. 255]
        /\ store \in Seq(Names) /\ symbol_table \subseteq [id : Nat, dest : Nat]
    BY DEF LInv, Programmed, Stored
  <1>5. ASSUME NEW i \in DOMAIN debug_entries
        PROVE  debug_entries[i].start \in 0 .. Space - 1 /\ debug_entries[i].end \in 0 .. Space - 1
    <2>1. debug_entries \in Seq(LoadedEntry)
      BY DEF LInv, Debugged
    <2>2. debug_entries[i] \in LoadedEntry
      BY <2>1, Elements
    <2> QED
      BY <2>2 DEF LoadedEntry
  <1> QED
    BY <1>1, <1>2, <1>3, <1>4, <1>5 DEF TypeOK

LEMMA InvGivesBounds ==
  ASSUME LInv
  PROVE  InBounds
  <1>1. IsChunk(chunk) /\ blocks \in Seq(OpenBlock(chunk.capacity))
    BY DEF LInv, GenInv, Opened
  <1>2. chunk.size <= chunk.capacity
    BY <1>1 DEF IsChunk
  <1>3. ASSUME NEW i \in DOMAIN blocks, NEW j \in DOMAIN blocks[i].uses
        PROVE  blocks[i].uses[j].idx + 8 <= chunk.capacity
    <2>1. blocks[i] \in OpenBlock(chunk.capacity)
      BY <1>1, Elements
    <2>2. blocks[i].uses \in Seq(Uses(chunk.capacity))
      BY <2>1 DEF OpenBlock
    <2>3. blocks[i].uses[j] \in Uses(chunk.capacity)
      BY <2>2, Elements
    <2> QED
      BY <2>3 DEF Uses, Within
  <1>4. ASSUME NEW i \in DOMAIN chunk.relocs PROVE chunk.relocs[i] + 8 <= chunk.size
    <2>1. chunk.relocs \in Seq(Within(chunk.size, 8))
      BY <1>1 DEF IsChunk
    <2>2. chunk.relocs[i] \in Within(chunk.size, 8)
      BY <2>1, Elements
    <2> QED
      BY <2>2 DEF Within
  <1>5. ASSUME NEW i \in DOMAIN chunk.constants PROVE chunk.constants[i].index + 4 <= chunk.size
    <2>1. chunk.constants \in Seq(Constant(chunk.size))
      BY <1>1 DEF IsChunk
    <2>2. chunk.constants[i] \in Constant(chunk.size)
      BY <2>1, Elements
    <2> QED
      BY <2>2 DEF Constant, Within
  <1>6. /\ program_size <= program_capacity /\ Len(pool) <= pool_size
        /\ Len(debug_entries) <= debug_capacity
    BY DEF LInv, Programmed, Pooled, Debugged
  <1>7. Len(store) < store_size
    BY DEF LInv, Stored
  <1> QED
    BY <1>2, <1>3, <1>4, <1>5, <1>6, <1>7 DEF InBounds

LEMMA Initially ==
  ASSUME Init
  PROVE  LInv
  <1>1. GenInv
    BY GenInitial DEF Init
  <1>2. Programmed
    BY LoaderAssumption DEF Init, GenInit, Programmed
  <1>3. Stored
    BY LoaderAssumption DEF Init, Stored
  <1>4. Pooled /\ Debugged /\ Parted
    BY LoaderAssumption DEF Init, Pooled, Debugged, Parted
  <1> QED
    BY <1>1, <1>2, <1>3, <1>4 DEF LInv

--------------------------------------------------------------------------------
(* The steps *)

\* The generator works on a chunk that is not being loaded.
LEMMA GenerateOwnChunk ==
  ASSUME Generate
  PROVE  pc # "loading" /\ pc' # "loading"
  <1>1. \A kinds : (Building(kinds) => pc = "build") /\ (Processing(kinds) => pc = "process")
    BY DEF Building, Processing
  <1>2. \A item, marks : PushItem(item, marks) => pc' = pc
    BY DEF PushItem
  <1>3. \A chnk, blk, what : Processed(chnk, blk, what) => pc' = pc
    BY DEF Processed
  <1>4. PushBlock \/ LeaveBlock \/ SetDebugLine \/ SetDebugEntry \/ PushOp =>
          pc = "build" /\ pc' = pc
    BY <1>1, <1>2, Zenon DEF PushBlock, LeaveBlock, SetDebugLine, SetDebugEntry, PushOp
  <1>5. SetDebugFlags \/ GenChunk => pc = "build" /\ pc' \in {pc, "exited", "process"}
    BY <1>1 DEF SetDebugFlags, GenChunk
  <1>6. DebugItem \/ LabelItem \/ OpItem => pc = "process" /\ pc' = pc
    BY <1>1, <1>3, Zenon DEF DebugItem, LabelItem, OpItem
  <1>7. BlockItem \/ UnknownItem \/ EndOfItems => pc = "process" /\ pc' \in {pc, "exited", "end"}
    BY <1>1 DEF BlockItem, UnknownItem, EndOfItems
  <1>8. PatchLabel \/ CloseBlock => pc = "end" /\ pc' \in {pc, "chunk", "process"}
    BY DEF PatchLabel, CloseBlock
  <1> QED
    BY <1>4, <1>5, <1>6, <1>7, <1>8 DEF Generate

LEMMA GenerateKeeps ==
  ASSUME LInv, Generate, UNCHANGED vmVars
  PROVE  LInv'
  <1>1. GenInv'
    BY GenerateStep DEF LInv
  <1>2. Programmed' /\ Stored' /\ Pooled' /\ Debugged' /\ Parted'
    BY GenerateOwnChunk DEF LInv, vmVars, Programmed, Stored, Pooled, Debugged, Parted
  <1> QED
    BY <1>1, <1>2 DEF LInv

LEMMA ExpandProgramKeeps ==
  ASSUME LInv, ExpandProgram
  PROVE  LInv'
  <1>1. /\ pc = "chunk" /\ program_capacity' = program_capacity * 2
        /\ program' = [a \in 0 .. program_capacity * 2 - 1 |->
                         IF a < program_capacity THEN program[a] ELSE 0]
        /\ UNCHANGED <<genVars, program_size, store, store_size, symbol_table, pool, pool_size,
                       debug_entries, debug_capacity, part, done, start>>
    BY DEF ExpandProgram
  <1>2. GenInv' /\ Stored' /\ Pooled' /\ Debugged' /\ Parted'
    BY <1>1 DEF LInv, Stored, Pooled, Debugged, Parted, genVars, GenInv, Sourced, Built, Opened, IsChunk
  <1>3. program' \in [0 .. program_capacity' - 1 -> 0 .. 255]
    <2>1. /\ program_capacity \in Nat /\ program \in [0 .. program_capacity - 1 -> 0 .. 255]
      BY DEF LInv, Programmed
    <2>2. \A n \in Nat : \A f \in [0 .. n - 1 -> 0 .. 255] :
            [a \in 0 .. n * 2 - 1 |-> IF a < n THEN f[a] ELSE 0] \in [0 .. n * 2 - 1 -> 0 .. 255]
      OBVIOUS
    <2> QED
      BY <1>1, <2>1, <2>2
  <1>4. Programmed'
    BY <1>1, <1>3 DEF LInv, Programmed, genVars
  <1> QED
    BY <1>2, <1>4 DEF LInv

LEMMA LoadChunkKeeps ==
  ASSUME LInv, LoadChunk
  PROVE  LInv'
  <1>1. /\ pc = "chunk" /\ program_size + chunk.size + 16 <= program_capacity
        /\ program' = [a \in DOMAIN program |->
                         IF a \in program_size .. program_size + chunk.size - 1
                         THEN chunk.data[a - program_size] ELSE program[a]]
        /\ program_size' = program_size + chunk.size /\ start' = program_size
        /\ pc' = "loading" /\ part' = "symbols" /\ done' = 0
        /\ UNCHANGED <<sources, called, open, items, next, blocks, chunk, program_capacity,
                       store, store_size, symbol_table, pool, pool_size, debug_entries,
                       debug_capacity>>
    BY DEF LoadChunk
  <1>2. Stored' /\ Pooled' /\ Debugged' /\ Parted'
    BY <1>1 DEF LInv, Stored, Pooled, Debugged, Parted
  <1>3. GenInv'
    BY <1>1 DEF LInv, GenInv, Sourced, Built, Opened, IsChunk, Stages
  <1>4. /\ program_size \in Nat /\ program_capacity \in Nat /\ chunk.size \in Nat
        /\ chunk.capacity \in Nat /\ chunk.size <= chunk.capacity
        /\ chunk.data \in [0 .. chunk.capacity - 1 -> 0 .. 255]
        /\ program \in [0 .. program_capacity - 1 -> 0 .. 255]
    BY DEF LInv, GenInv, IsChunk, Programmed
  <1>5. program' \in [0 .. program_capacity - 1 -> 0 .. 255]
    <2>1. ASSUME NEW a \in 0 .. program_capacity - 1, a \in program_size .. program_size + chunk.size - 1
          PROVE  chunk.data[a - program_size] \in 0 .. 255
      <3>1. \A p, z, c \in Nat : \A x \in p .. p + z - 1 : z <= c => x - p \in 0 .. c - 1
        OBVIOUS
      <3>2. a - program_size \in 0 .. chunk.capacity - 1
        BY <2>1, <3>1, <1>4
      <3> QED
        BY <3>2, <1>4
    <2> QED
      BY <1>1, <1>4, <2>1
  <1>6. Programmed'
    <2>1. \A p, z, c \in Nat : p + z + 16 <= c => p + z \in Nat /\ p + z <= c
      OBVIOUS
    <2>2. program_size' \in Nat /\ program_size' <= program_capacity'
      BY <1>1, <1>4, <2>1
    <2>3. start' + chunk'.size <= program_size' /\ start' \in Nat
      BY <1>1, <1>4, <2>2
    <2>4. program_capacity' \in Nat /\ program' \in [0 .. program_capacity' - 1 -> 0 .. 255]
      BY <1>1, <1>4, <1>5
    <2> QED
      BY <2>2, <2>3, <2>4 DEF Programmed
  <1> QED
    BY <1>2, <1>3, <1>6 DEF LInv

\* hvm_symbolicate keeps a free place in the store, and gives an id in it.
LEMMA SymbolicateFacts ==
  ASSUME Stored, NEW name \in Names
  PROVE  /\ StoreWith(name) \in Seq(Names) /\ IdOf(name) \in DOMAIN StoreWith(name)
         /\ StoreWith(name)[IdOf(name)] = name /\ IdOf(name) \in Nat
         /\ Len(store) <= Len(StoreWith(name))
         /\ \A i \in DOMAIN store : i \in DOMAIN StoreWith(name) /\ StoreWith(name)[i] = store[i]
         /\ Symbolicate(name) =>
              store' = StoreWith(name) /\ store_size' \in Nat /\ Len(store') + 1 < store_size'
  <1>1. store \in Seq(Names) /\ store_size \in Nat /\ Len(store) + 1 < store_size /\ Len(store) \in Nat
    BY DEF Stored
  <1>2. CASE Interned(name)
    <2>1. StoreWith(name) = store
      BY <1>2 DEF StoreWith
    <2>2. IdOf(name) \in DOMAIN store /\ store[IdOf(name)] = name
      BY <1>2 DEF IdOf, Interned
    <2>3. IdOf(name) \in Nat
      BY <2>2, <1>1
    <2>4. Symbolicate(name) => store' = store /\ store_size' = store_size
      BY <1>2, <2>1 DEF Symbolicate
    <2> QED
      BY <1>1, <2>1, <2>2, <2>3, <2>4
  <1>3. CASE ~Interned(name)
    <2>1. StoreWith(name) = Append(store, name) /\ IdOf(name) = Len(store) + 1
      BY <1>3 DEF StoreWith, IdOf
    <2>2. Append(store, name) \in Seq(Names) /\ Len(Append(store, name)) = Len(store) + 1
      BY <1>1
    <2>3. Append(store, name)[Len(store) + 1] = name
      BY <1>1
    <2>4. \A i \in DOMAIN store : i \in DOMAIN Append(store, name) /\ Append(store, name)[i] = store[i]
      BY <1>1
    <2>5. Len(store) + 1 \in DOMAIN Append(store, name) /\ Len(store) + 1 \in Nat
      BY <1>1, <2>2
    <2>6. Symbolicate(name) => /\ store' = Append(store, name)
                               /\ store_size' = IF Len(store) + 1 >= store_size - 1
                                                THEN store_size * 2 ELSE store_size
      BY <1>3, <2>1 DEF Symbolicate
    <2>7. \A n, z \in Nat : n + 1 < z =>
            /\ (n + 1 >= z - 1 => z * 2 \in Nat /\ (n + 1) + 1 < z * 2)
            /\ (~(n + 1 >= z - 1) => (n + 1) + 1 < z)
      OBVIOUS
    <2>8. Symbolicate(name) => store_size' \in Nat /\ Len(store') + 1 < store_size'
      BY <1>1, <2>2, <2>6, <2>7
    <2>9. Len(store) <= Len(Append(store, name))
      BY <1>1, <2>2
    <2> QED
      BY <2>1, <2>2, <2>3, <2>4, <2>5, <2>6, <2>8, <2>9
  <1> QED
    BY <1>2, <1>3

LEMMA GenUnchanged ==
  ASSUME GenInv, UNCHANGED genVars
  PROVE  GenInv'
  BY DEF GenInv, genVars, Sourced, Built, Opened, IsChunk

\* The chunk's header entry that is applied next.
LEMMA NextEntry ==
  ASSUME LInv, NEW S, NEW entries \in Seq(S), NEW p, Applying(p, entries)
  PROVE  /\ done + 1 \in DOMAIN entries /\ entries[done + 1] \in S
         /\ pc = "loading" /\ part = p /\ done' = done + 1 /\ done' \in Nat
  <1>1. done \in Nat /\ pc = "loading" /\ part = p /\ done < Len(entries) /\ done' = done + 1
    BY DEF LInv, Parted, Applying
  <1>2. done + 1 \in 1 .. Len(entries)
    BY <1>1
  <1> QED
    BY <1>1, <1>2, Elements

LEMMA LoadSymbolKeeps ==
  ASSUME LInv, LoadSymbol
  PROVE  LInv'
  <1> DEFINE sym == chunk.symbols[done + 1]
  <1>1. Applying("symbols", chunk.symbols) /\ chunk.symbols \in Seq(Symbol)
    BY DEF LoadSymbol, LInv, GenInv, IsChunk
  <1>2. sym \in Symbol /\ done' \in Nat
    BY <1>1, NextEntry
  <1>3. sym.name \in Names /\ sym.index \in Nat
    BY <1>2 DEF Symbol
  <1>4. /\ Symbolicate(sym.name)
        /\ symbol_table' = symbol_table \cup {[id |-> IdOf(sym.name), dest |-> start + sym.index]}
        /\ UNCHANGED <<genVars, program, program_size, program_capacity, pool, pool_size,
                       debug_entries, debug_capacity, part, start>>
    BY DEF LoadSymbol
  <1> HIDE DEF sym
  <1>5. Stored'
    <2>1. store' \in Seq(Names) /\ store_size' \in Nat /\ Len(store') + 1 < store_size'
      BY <1>3, <1>4, SymbolicateFacts DEF LInv
    <2>2. IdOf(sym.name) \in Nat /\ start + sym.index \in Nat
      <3>1. IdOf(sym.name) \in Nat
        BY <1>3, SymbolicateFacts DEF LInv
      <3>2. start \in Nat
        BY DEF LInv, Programmed
      <3> QED
        BY <3>1, <3>2, <1>3
    <2>3. symbol_table' \subseteq [id : Nat, dest : Nat]
      <3>1. [id |-> IdOf(sym.name), dest |-> start + sym.index] \in [id : Nat, dest : Nat]
        BY <2>2
      <3>2. symbol_table \subseteq [id : Nat, dest : Nat]
        BY DEF LInv, Stored
      <3> QED
        BY <3>1, <3>2, <1>4
    <2> QED
      BY <2>1, <2>3 DEF Stored
  <1>6. GenInv'
    BY <1>4, GenUnchanged DEF LInv
  <1>7. Programmed' /\ Pooled' /\ Debugged' /\ Parted'
    BY <1>2, <1>4 DEF LInv, Programmed, Pooled, Debugged, Parted, genVars
  <1> QED
    BY <1>5, <1>6, <1>7 DEF LInv

LEMMA LoadConstantKeeps ==
  ASSUME LInv, LoadConstant
  PROVE  LInv'
  <1> DEFINE cnst == chunk.constants[done + 1]
  <1>1. /\ Applying("constants", chunk.constants) /\ chunk.constants \in Seq(Constant(chunk.size))
        /\ chunk.size \in Nat
    BY DEF LoadConstant, LInv, GenInv, IsChunk
  <1>2. cnst \in Constant(chunk.size) /\ done' \in Nat
    BY <1>1, NextEntry
  <1>3. /\ cnst.index \in Nat /\ cnst.type \in {"string", "int", "symbol"}
        /\ cnst.name \in Names \cup {NULL} /\ (cnst.type = "symbol" => cnst.name \in Names)
    BY <1>2 DEF Constant, Within
  <1>4. /\ IF cnst.type = "symbol" THEN Symbolicate(cnst.name) ELSE UNCHANGED <<store, store_size>>
        /\ pool' = Append(pool, ConstantObject(cnst))
        /\ pool_size' = IF Len(pool) >= pool_size THEN pool_size * 2 ELSE pool_size
        /\ program' = Write(program, start + cnst.index,
                            {[at |-> 0, width |-> 4, val |-> Len(pool)]})
        /\ UNCHANGED <<genVars, program_size, program_capacity, symbol_table,
                       debug_entries, debug_capacity, part, start>>
    BY DEF LoadConstant
  <1> HIDE DEF cnst
  <1>5. Stored'
    <2>1. CASE cnst.type = "symbol"
      <3>1. store' \in Seq(Names) /\ store_size' \in Nat /\ Len(store') + 1 < store_size'
        BY <2>1, <1>3, <1>4, SymbolicateFacts DEF LInv
      <3> QED
        BY <3>1, <1>4 DEF LInv, Stored
    <2>2. CASE cnst.type # "symbol"
      BY <2>2, <1>4 DEF LInv, Stored
    <2> QED
      BY <2>1, <2>2
  <1>6. pool \in Seq(ConstantObjects) /\ pool_size \in Nat \ {0} /\ Len(pool) <= pool_size
        /\ Len(pool) \in Nat
    BY DEF LInv, Pooled
  <1>7. Pooled'
    <2>1. ConstantObject(cnst) \in ConstantObjects
      <3>1. cnst.type = "symbol" => IdOf(cnst.name) \in Nat
        BY <1>3, SymbolicateFacts DEF LInv
      <3> QED
        BY <3>1, <1>3 DEF ConstantObject, ConstNull, ConstantObjects
    <2>2. pool' \in Seq(ConstantObjects) /\ Len(pool') = Len(pool) + 1
      BY <2>1, <1>4, <1>6, AppendFacts
    <2>3. \A n, z \in Nat : z # 0 /\ n <= z =>
            /\ (n >= z => z * 2 \in Nat \ {0} /\ n + 1 <= z * 2)
            /\ (~(n >= z) => n + 1 <= z)
      OBVIOUS
    <2>4. pool_size' \in Nat \ {0} /\ Len(pool') <= pool_size'
      BY <2>2, <2>3, <1>4, <1>6
    <2> QED
      BY <2>2, <2>4 DEF Pooled
  <1>8. Programmed'
    <2>1. /\ program_capacity \in Nat /\ program \in [0 .. program_capacity - 1 -> 0 .. 255]
          /\ start \in Nat
      BY DEF LInv, Programmed
    <2>2. {[at |-> 0, width |-> 4, val |-> Len(pool)]} \in SUBSET Field
      BY <1>6 DEF Field
    <2>3. start + cnst.index \in Nat
      BY <2>1, <1>3
    <2>4. program' \in [0 .. program_capacity - 1 -> 0 .. 255]
      BY <1>4, <2>1, <2>2, <2>3, WriteFacts
    <2> QED
      BY <1>4, <2>4 DEF LInv, Programmed, genVars
  <1>9. GenInv'
    BY <1>4, GenUnchanged DEF LInv
  <1>10. Debugged' /\ Parted'
    BY <1>2, <1>4 DEF LInv, Debugged, Parted
  <1> QED
    BY <1>5, <1>7, <1>8, <1>9, <1>10 DEF LInv

LEMMA LoadRelocationKeeps ==
  ASSUME LInv, LoadRelocation
  PROVE  LInv'
  <1> DEFINE reloc == chunk.relocs[done + 1]
             a == start + reloc
  <1>1. /\ Applying("relocs", chunk.relocs) /\ chunk.relocs \in Seq(Within(chunk.size, 8))
        /\ chunk.size \in Nat
    BY DEF LoadRelocation, LInv, GenInv, IsChunk
  <1>2. reloc \in Within(chunk.size, 8) /\ done' \in Nat /\ pc = "loading"
    BY <1>1, NextEntry
  <1>3. reloc \in Nat /\ reloc + 8 <= chunk.size
    BY <1>2 DEF Within
  <1>4. /\ program_capacity \in Nat /\ program_size \in Nat /\ program_size <= program_capacity
        /\ program \in [0 .. program_capacity - 1 -> 0 .. 255]
        /\ start \in Nat /\ start + chunk.size <= program_size
    BY <1>2 DEF LInv, Programmed
  <1>5. /\ program' = Relocated(reloc)
        /\ UNCHANGED <<genVars, program_size, program_capacity, store, store_size, symbol_table,
                       pool, pool_size, debug_entries, debug_capacity, part, start>>
    BY DEF LoadRelocation
  <1> HIDE DEF reloc
  <1>6. a \in Nat /\ a + 3 < program_capacity
    <2>1. \A s, r, z, p, c \in Nat : r + 8 <= z /\ s + z <= p /\ p <= c =>
            s + r \in Nat /\ (s + r) + 3 < c
      OBVIOUS
    <2> QED
      BY <1>1, <1>3, <1>4, <2>1
  <1> HIDE DEF a
  <1>7. LowWord(a) \in Nat
    <2>1. /\ a \in 0 .. program_capacity - 1 /\ a + 1 \in 0 .. program_capacity - 1
          /\ a + 2 \in 0 .. program_capacity - 1 /\ a + 3 \in 0 .. program_capacity - 1
      BY <1>4, <1>6
    <2>2. program[a] \in Nat /\ program[a + 1] \in Nat /\ program[a + 2] \in Nat /\ program[a + 3] \in Nat
      <3>1. \A x \in 0 .. program_capacity - 1 : program[x] \in 0 .. 255
        BY <1>4
      <3>2. \A x \in 0 .. program_capacity - 1 : program[x] \in Nat
        BY <3>1
      <3> QED
        BY <2>1, <3>2
    <2>3. 2 ^ 8 \in Nat /\ 2 ^ 16 \in Nat /\ 2 ^ 24 \in Nat
      BY PowerPositive
    <2>4. \A p, q \in Nat : p * q \in Nat
      OBVIOUS
    <2>5. \A w, x, y, z \in Nat : w + x + y + z \in Nat
      OBVIOUS
    <2>6. /\ 2 ^ 8 * program[a + 1] \in Nat /\ 2 ^ 16 * program[a + 2] \in Nat
          /\ 2 ^ 24 * program[a + 3] \in Nat
      BY <2>2, <2>3, <2>4, Zenon
    <2> QED
      BY <2>2, <2>5, <2>6, Zenon DEF LowWord
  <1>8. program' \in [0 .. program_capacity - 1 -> 0 .. 255]
    <2>1. LowWord(a) + start \in Nat
      BY <1>4, <1>7
    <2>2. {[at |-> 0, width |-> 4, val |-> LowWord(a) + start]} \in SUBSET Field
      BY <2>1 DEF Field
    <2>3. program' = Write(program, a, {[at |-> 0, width |-> 4, val |-> LowWord(a) + start]})
      BY <1>5, Zenon DEF Relocated, a
    <2> QED
      BY <2>2, <2>3, <1>4, <1>6, WriteFacts
  <1>9. Programmed'
    BY <1>4, <1>5, <1>8 DEF LInv, Programmed, genVars
  <1>10. GenInv'
    BY <1>5, GenUnchanged DEF LInv
  <1>11. Stored' /\ Pooled' /\ Debugged' /\ Parted'
    BY <1>2, <1>5 DEF LInv, Stored, Pooled, Debugged, Parted
  <1> QED
    BY <1>9, <1>10, <1>11 DEF LInv

LEMMA LoadDebugEntryKeeps ==
  ASSUME LInv, LoadDebugEntry
  PROVE  LInv'
  <1> DEFINE de == chunk.debug_entries[done + 1]
  <1>1. Applying("debug", chunk.debug_entries) /\ chunk.debug_entries \in Seq(DebugEntry)
    BY DEF LoadDebugEntry, LInv, GenInv, IsChunk
  <1>2. de \in DebugEntry /\ done' \in Nat
    BY <1>1, NextEntry
  <1>3. /\ debug_capacity' = IF Len(debug_entries) >= debug_capacity - 1
                             THEN debug_capacity * 2 ELSE debug_capacity
        /\ debug_entries' = Append(debug_entries, Shifted(de))
        /\ UNCHANGED <<genVars, program, program_size, program_capacity, store, store_size,
                       symbol_table, pool, pool_size, part, start>>
    BY DEF LoadDebugEntry
  <1> HIDE DEF de
  <1>4. Shifted(de) \in LoadedEntry
    <2>1. de.start \in Nat /\ de.end \in Nat /\ start \in Nat
      BY <1>2 DEF DebugEntry, LInv, Programmed
    <2>2. (de.start + start) % Space \in 0 .. Space - 1 /\ (de.end + start) % Space \in 0 .. Space - 1
      <3>1. \A n \in Nat, m \in Nat \ {0} : n % m \in 0 .. m - 1
        OBVIOUS
      <3>2. de.start + start \in Nat /\ de.end + start \in Nat /\ Space \in Nat \ {0}
        BY <2>1, GeneratorAssumption
      <3> QED
        BY <3>1, <3>2
    <2>3. de = [start |-> de.start, end |-> de.end, line |-> de.line, name |-> de.name,
                flags |-> de.flags] /\ de.line \in Nat /\ de.name \in Names \cup {NULL} /\ de.flags \in Nat
      BY <1>2 DEF DebugEntry
    <2> DEFINE s1 == (de.start + start) % Space
               e1 == (de.end + start) % Space
               d1 == [de EXCEPT !.start = s1]
    <2>4. Shifted(de) = [d1 EXCEPT !.end = e1]
      BY DEF Shifted
    <2> HIDE DEF s1, e1
    <2>5. d1 = [start |-> s1, end |-> de.end, line |-> de.line, name |-> de.name, flags |-> de.flags]
      BY <2>3
    <2> HIDE DEF d1
    <2>6. Shifted(de) = [start |-> s1, end |-> e1, line |-> de.line, name |-> de.name, flags |-> de.flags]
      BY <2>4, <2>5
    <2>7. s1 \in 0 .. Space - 1 /\ e1 \in 0 .. Space - 1
      BY <2>2 DEF s1, e1
    <2> QED
      BY <2>3, <2>6, <2>7 DEF LoadedEntry
  <1>5. Debugged'
    <2>1. /\ debug_entries \in Seq(LoadedEntry) /\ debug_capacity \in Nat \ {0}
          /\ Len(debug_entries) <= debug_capacity /\ Len(debug_entries) \in Nat
      BY DEF LInv, Debugged
    <2>2. debug_entries' \in Seq(LoadedEntry) /\ Len(debug_entries') = Len(debug_entries) + 1
      BY <1>3, <1>4, <2>1, AppendFacts
    <2>3. \A n, z \in Nat : z # 0 /\ n <= z =>
            /\ (n >= z - 1 => z * 2 \in Nat \ {0} /\ n + 1 <= z * 2)
            /\ (~(n >= z - 1) => n + 1 <= z)
      OBVIOUS
    <2>4. debug_capacity' \in Nat \ {0} /\ Len(debug_entries') <= debug_capacity'
      BY <1>3, <2>1, <2>2, <2>3
    <2> QED
      BY <2>2, <2>4 DEF Debugged
  <1>6. GenInv'
    BY <1>3, GenUnchanged DEF LInv
  <1>7. Programmed' /\ Stored' /\ Pooled' /\ Parted'
    BY <1>2, <1>3 DEF LInv, Programmed, Stored, Pooled, Parted, genVars
  <1> QED
    BY <1>5, <1>6, <1>7 DEF LInv

LEMMA NextPartKeeps ==
  ASSUME LInv, NextPart
  PROVE  LInv'
  <1>1. /\ done' = 0 /\ part' \in {"constants", "relocs", "debug"}
        /\ UNCHANGED <<genVars, program, program_size, program_capacity, store, store_size,
                       symbol_table, pool, pool_size, debug_entries, debug_capacity, start>>
    BY DEF NextPart
  <1>2. GenInv'
    BY <1>1, GenUnchanged DEF LInv
  <1>3. Programmed' /\ Stored' /\ Pooled' /\ Debugged' /\ Parted'
    BY <1>1 DEF LInv, Programmed, Stored, Pooled, Debugged, Parted, genVars
  <1> QED
    BY <1>2, <1>3 DEF LInv

LEMMA LoadedKeeps ==
  ASSUME LInv, Loaded
  PROVE  LInv'
  <1>1. /\ pc = "loading" /\ part' = "none" /\ done' = 0 /\ sources' = Tail(sources)
        /\ pc' = IF Len(sources) = 1 THEN "idle" ELSE "build"
        /\ called' = 0 /\ open' = <<0>> /\ items' = <<>> /\ next' = 0
        /\ UNCHANGED <<blocks, chunk, program, program_size, program_capacity, store, store_size,
                       symbol_table, pool, pool_size, debug_entries, debug_capacity, start>>
    BY DEF Loaded
  <1>2. Sourced'
    <2>1. sources \in Seq(Seq(Call)) /\ sources # <<>>
      BY <1>1 DEF LInv, GenInv, Sourced
    <2>2. Len(sources) \in Nat /\ Len(sources) # 0 /\ Len(Tail(sources)) = Len(sources) - 1
      BY <2>1
    <2>3. Len(<<>>) = 0
      OBVIOUS
    <2>4. Len(sources) # 1 => Tail(sources) # <<>>
      BY <2>2, <2>3
    <2>5. Tail(sources) \in Seq(Seq(Call))
      BY <2>1, HeadTail
    <2> QED
      BY <1>1, <2>4, <2>5 DEF Sourced
  <1>3. Built'
    BY <1>1 DEF Built
  <1>4. Opened' /\ IsChunk(chunk)' /\ pc' \in Stages
    BY <1>1 DEF LInv, GenInv, Opened, IsChunk, Stages
  <1>5. Programmed' /\ Stored' /\ Pooled' /\ Debugged' /\ Parted'
    BY <1>1 DEF LInv, Programmed, Stored, Pooled, Debugged, Parted
  <1> QED
    BY <1>2, <1>3, <1>4, <1>5 DEF LInv, GenInv

LEMMA Inductive == Spec => []LInv
  <1>1. Init => LInv
    BY Initially
  <1>2. LInv /\ [Next]_vars => LInv'
    <2> SUFFICES ASSUME LInv, [Next]_vars PROVE LInv'
      OBVIOUS
    <2>1. CASE Next
      BY <2>1, GenerateKeeps, ExpandProgramKeeps, LoadChunkKeeps, LoadSymbolKeeps, LoadConstantKeeps,
         LoadRelocationKeeps, LoadDebugEntryKeeps, NextPartKeeps, LoadedKeeps DEF Next
    <2>2. CASE UNCHANGED vars
      <3>1. GenInv'
        BY <2>2, GenUnchanged DEF LInv, vars
      <3>2. Programmed' /\ Stored' /\ Pooled' /\ Debugged' /\ Parted'
        BY <2>2 DEF LInv, vars, vmVars, genVars, Programmed, Stored, Pooled, Debugged, Parted
      <3> QED
        BY <3>1, <3>2 DEF LInv
    <2> QED
      BY <2>1, <2>2
  <1> QED
    BY <1>1, <1>2, PTL DEF Spec

\* Whatever is built and loaded, the state keeps its types: bytes stay bytes and
\* addresses of debug entries stay addresses.
THEOREM TypeCorrect == Spec => []TypeOK
  <1>1. LInv => TypeOK
    BY InvGivesTypes
  <1> QED
    BY <1>1, Inductive, PTL

\* Whatever is built and loaded, no instruction, patch, relocation or array entry is
\* written outside the memory allocated for it (hvm_chunk_expand_if_necessary,
\* hvm_vm_expand_program and the arrays that double).
THEOREM WritesInBounds == Spec => []InBounds
  <1>1. LInv => InBounds
    BY InvGivesBounds
  <1> QED
    BY <1>1, Inductive, PTL

--------------------------------------------------------------------------------
(* The symbol table *)

\* The chunk has a symbol for every subroutine placed in it, and no other.
Noted ==
  /\ \E S : placed \in Seq(S)
  /\ \A k \in DOMAIN chunk.symbols : \E i \in DOMAIN placed :
       /\ placed[i].item.b = "sub" /\ placed[i].item.name = chunk.symbols[k].name
       /\ placed[i].at = chunk.symbols[k].index
  /\ \A i \in DOMAIN placed : placed[i].item.b = "sub" =>
       \E k \in DOMAIN chunk.symbols :
         placed[i].item.name = chunk.symbols[k].name /\ placed[i].at = chunk.symbols[k].index

\* How a step of the generator changes either of them.
Plain == placed' = placed /\ chunk'.symbols = chunk.symbols
Fresh == placed' = <<>> /\ chunk'.symbols = <<>>
Other == \E p : placed' = Append(placed, p) /\ p.item.b # "sub" /\ chunk'.symbols = chunk.symbols
Sub == \E p, sym : /\ placed' = Append(placed, p) /\ chunk'.symbols = Append(chunk.symbols, sym)
                   /\ p.item.b = "sub" /\ p.item.name = sym.name /\ p.at = sym.index

LEMMA SymbolEffect ==
  ASSUME GenInv, Generate
  PROVE  Plain \/ Fresh \/ Other \/ Sub
  <1>0. IsChunk(chunk)
    BY DEF GenInv
  <1>1. CASE PushBlock \/ LeaveBlock \/ SetDebugLine \/ SetDebugEntry \/ PushOp
    <2>1. \A item, marks : PushItem(item, marks) => placed' = placed /\ chunk' = chunk
      BY DEF PushItem
    <2> QED
      BY <1>1, <2>1, Zenon DEF PushBlock, LeaveBlock, SetDebugLine, SetDebugEntry, PushOp, Plain
  <1>2. CASE SetDebugFlags \/ UnknownItem \/ EndOfItems
    BY <1>2 DEF SetDebugFlags, UnknownItem, EndOfItems, Plain
  <1>3. CASE GenChunk
    BY <1>3 DEF GenChunk, NewChunk, Fresh
  <1>4. CASE BlockItem
    BY <1>0, <1>4, ExpandedFacts DEF BlockItem, Plain
  <1>5. CASE CloseBlock
    <2>1. Block.entry \in Entry \cup {NULL}
      BY <1>5, BlockFacts DEF OpenBlock, CloseBlock
    <2> QED
      BY <1>0, <1>5, <2>1, ClosedFacts DEF CloseBlock, Plain
  <1>6. CASE PatchLabel
    <2>1. placed' = placed
      BY <1>6 DEF PatchLabel
    <2>2. \A d : [chunk EXCEPT !.data = d].symbols = chunk.symbols
      BY <1>0 DEF IsChunk
    <2>3. chunk' = chunk \/ \E d : chunk' = [chunk EXCEPT !.data = d]
      BY <1>6 DEF PatchLabel
    <2> QED
      BY <2>1, <2>2, <2>3 DEF Plain
  <1>7. CASE DebugItem
    <2>1. PICK chnk : /\ chunk' = chnk /\ chnk = Closed(Expanded, Block.entry)
                      /\ placed' = Append(placed, Put("debug")) /\ pc = "process"
                      /\ Current.b = "debug"
      BY <1>7 DEF DebugItem, Processed, Processing
    <2>2. Block.entry \in Entry \cup {NULL}
      BY <2>1, BlockFacts DEF OpenBlock
    <2>3. chnk.symbols = chunk.symbols
      BY <1>0, <2>1, <2>2, ExpandedFacts, ClosedFacts
    <2>4. Put("debug").item.b # "sub"
      BY <2>1 DEF Put
    <2> QED
      BY <2>1, <2>3, <2>4 DEF Other
  <1>8. CASE OpItem
    <2>1. PICK fields \in SUBSET Field, unknown \in BOOLEAN :
            /\ unknown => Current.b \in Labelled
            /\ Processed(Emit(Current.b, Current.name, fields),
                         Using(Current.b, Current.name, unknown), Put("op"))
      BY <1>8, OpItemEffect
    <2>2. placed' = Append(placed, Put("op")) /\ chunk' = Emit(Current.b, Current.name, fields)
      BY <2>1 DEF Processed
    <2>3. Current \in Items /\ Current.b \in Emitted
      BY <1>8, CurrentFacts DEF OpItem
    <2>4. chunk'.symbols = chunk.symbols
      BY <1>0, <2>2, <2>3, ItemFacts, EmitFacts
    <2>5. "sub" \notin Emitted
      BY DEF Emitted, OpsF, OpsA1, OpsA2, OpsA3, Labelled, Constants
    <2>6. Put("op").item.b # "sub"
      BY <2>3, <2>5 DEF Put
    <2> QED
      BY <2>2, <2>4, <2>6 DEF Other
  <1>9. CASE LabelItem
    <2>1. /\ placed' = Append(placed, Put("label")) /\ Current.b \in {"label", "sub"}
          /\ chunk' = IF Current.b = "label" THEN Expanded
                      ELSE [Expanded EXCEPT !.symbols =
                              Append(@, [index |-> chunk.size, name |-> Current.name])]
      BY <1>9 DEF LabelItem, Processed, Processing
    <2>2. Put("label").item = Current /\ Put("label").at = chunk.size
      BY DEF Put
    <2>3. IsChunk(Expanded) /\ Expanded.symbols = chunk.symbols
      BY <1>0, ExpandedFacts
    <2>4. CASE Current.b = "label"
      BY <2>1, <2>2, <2>3, <2>4 DEF Other
    <2>5. CASE Current.b = "sub"
      <3> DEFINE sym == [index |-> chunk.size, name |-> Current.name]
      <3>1. chunk' = [Expanded EXCEPT !.symbols = Append(Expanded.symbols, sym)]
        BY <2>1, <2>5
      <3>2. sym.index = chunk.size /\ sym.name = Current.name
        OBVIOUS
      <3> HIDE DEF sym
      <3>3. chunk'.symbols = Append(chunk.symbols, sym)
        BY <2>3, <3>1 DEF IsChunk
      <3> QED
        BY <2>1, <2>2, <2>5, <3>2, <3>3 DEF Sub
    <2> QED
      BY <2>1, <2>4, <2>5
  <1> QED
    BY <1>1, <1>2, <1>3, <1>4, <1>5, <1>6, <1>7, <1>8, <1>9 DEF Generate

LEMMA AppendElements ==
  ASSUME NEW S, NEW t \in Seq(S), NEW x
  PROVE  /\ Append(t, x) \in Seq(S \cup {x})
         /\ DOMAIN Append(t, x) = DOMAIN t \cup {Len(t) + 1}
         /\ \A i \in DOMAIN t : Append(t, x)[i] = t[i]
         /\ Append(t, x)[Len(t) + 1] = x
         /\ Len(t) + 1 \notin DOMAIN t /\ Len(Append(t, x)) = Len(t) + 1 /\ Len(t) \in Nat
  <1>1. t \in Seq(S \cup {x})
    BY SeqMonotone
  <1> QED
    BY <1>1

LEMMA NotedKept ==
  ASSUME GenInv, Noted, Generate
  PROVE  Noted'
  <1>1. PICK S : placed \in Seq(S)
    BY DEF Noted
  <1>2. chunk.symbols \in Seq(Symbol)
    BY DEF GenInv, IsChunk
  <1>3. CASE Plain
    BY <1>3 DEF Noted, Plain
  <1>4. CASE Fresh
    BY <1>4 DEF Noted, Fresh
  <1>5. CASE Other
    <2>1. PICK p : placed' = Append(placed, p) /\ p.item.b # "sub" /\ chunk'.symbols = chunk.symbols
      BY <1>5 DEF Other
    <2>2. /\ placed' \in Seq(S \cup {p}) /\ DOMAIN placed' = DOMAIN placed \cup {Len(placed) + 1}
          /\ \A i \in DOMAIN placed : placed'[i] = placed[i]
          /\ placed'[Len(placed) + 1] = p
      BY <1>1, <2>1, AppendElements
    <2>3. ASSUME NEW k \in DOMAIN chunk'.symbols
          PROVE  \E i \in DOMAIN placed' :
                   /\ placed'[i].item.b = "sub" /\ placed'[i].item.name = chunk'.symbols[k].name
                   /\ placed'[i].at = chunk'.symbols[k].index
      <3>1. PICK i \in DOMAIN placed :
              /\ placed[i].item.b = "sub" /\ placed[i].item.name = chunk.symbols[k].name
              /\ placed[i].at = chunk.symbols[k].index
        BY <2>1 DEF Noted
      <3>2. i \in DOMAIN placed' /\ placed'[i] = placed[i]
        BY <2>2
      <3> QED
        BY <3>1, <3>2, <2>1
    <2>4. ASSUME NEW i \in DOMAIN placed', placed'[i].item.b = "sub"
          PROVE  \E k \in DOMAIN chunk'.symbols :
                   placed'[i].item.name = chunk'.symbols[k].name /\ placed'[i].at = chunk'.symbols[k].index
      <3>1. i \in DOMAIN placed /\ placed'[i] = placed[i]
        BY <2>1, <2>2, <2>4
      <3> QED
        BY <3>1, <2>1, <2>4 DEF Noted
    <2> QED
      BY <2>2, <2>3, <2>4, Zenon DEF Noted
  <1>6. CASE Sub
    <2>1. PICK p, sym : /\ placed' = Append(placed, p) /\ chunk'.symbols = Append(chunk.symbols, sym)
                        /\ p.item.b = "sub" /\ p.item.name = sym.name /\ p.at = sym.index
      BY <1>6 DEF Sub
    <2>2. /\ placed' \in Seq(S \cup {p}) /\ DOMAIN placed' = DOMAIN placed \cup {Len(placed) + 1}
          /\ \A i \in DOMAIN placed : placed'[i] = placed[i]
          /\ placed'[Len(placed) + 1] = p
      BY <1>1, <2>1, AppendElements
    <2>3. /\ DOMAIN chunk'.symbols = DOMAIN chunk.symbols \cup {Len(chunk.symbols) + 1}
          /\ \A i \in DOMAIN chunk.symbols : chunk'.symbols[i] = chunk.symbols[i]
          /\ chunk'.symbols[Len(chunk.symbols) + 1] = sym
      BY <1>2, <2>1, AppendElements
    <2>4. ASSUME NEW k \in DOMAIN chunk'.symbols
          PROVE  \E i \in DOMAIN placed' :
                   /\ placed'[i].item.b = "sub" /\ placed'[i].item.name = chunk'.symbols[k].name
                   /\ placed'[i].at = chunk'.symbols[k].index
      <3>1. CASE k \in DOMAIN chunk.symbols
        <4>1. PICK i \in DOMAIN placed :
                /\ placed[i].item.b = "sub" /\ placed[i].item.name = chunk.symbols[k].name
                /\ placed[i].at = chunk.symbols[k].index
          BY <3>1 DEF Noted
        <4>2. i \in DOMAIN placed' /\ placed'[i] = placed[i] /\ chunk'.symbols[k] = chunk.symbols[k]
          BY <2>2, <2>3, <3>1
        <4> QED
          BY <4>1, <4>2
      <3>2. CASE k = Len(chunk.symbols) + 1
        BY <3>2, <2>1, <2>2, <2>3, Zenon
      <3> QED
        BY <3>1, <3>2, <2>3
    <2>5. ASSUME NEW i \in DOMAIN placed', placed'[i].item.b = "sub"
          PROVE  \E k \in DOMAIN chunk'.symbols :
                   placed'[i].item.name = chunk'.symbols[k].name /\ placed'[i].at = chunk'.symbols[k].index
      <3>1. CASE i \in DOMAIN placed
        <4>1. placed'[i] = placed[i]
          BY <3>1, <2>2
        <4>2. PICK k \in DOMAIN chunk.symbols :
                placed[i].item.name = chunk.symbols[k].name /\ placed[i].at = chunk.symbols[k].index
          BY <3>1, <4>1, <2>5 DEF Noted
        <4>3. k \in DOMAIN chunk'.symbols /\ chunk'.symbols[k] = chunk.symbols[k]
          BY <2>3
        <4> QED
          BY <4>1, <4>2, <4>3
      <3>2. CASE i = Len(placed) + 1
        BY <3>2, <2>1, <2>2, <2>3, Zenon
      <3> QED
        BY <3>1, <3>2, <2>2
    <2> QED
      BY <2>2, <2>4, <2>5, Zenon DEF Noted
  <1> QED
    BY <1>3, <1>4, <1>5, <1>6, SymbolEffect

\* A subroutine of this name was loaded to dest.
Defined(name, dest) ==
  \E m \in DOMAIN loaded : \E i \in DOMAIN loaded[m].placed :
    LET p == loaded[m].placed[i]
    IN p.item.b = "sub" /\ p.item.name = name /\ loaded[m].start + p.at = dest
\* The symbol table sends the name to dest.
Entered(name, dest) == \E e \in symbol_table : store[e.id] = name /\ e.dest = dest
\* It does so for every subroutine of the m-th chunk.
Reached(m) ==
  \A i \in DOMAIN loaded[m].placed :
    LET p == loaded[m].placed[i]
    IN p.item.b = "sub" => Entered(p.item.name, loaded[m].start + p.at)
InSymbols == pc = "loading" /\ part = "symbols"

Distinct == \A i, j \in DOMAIN store : store[i] = store[j] => i = j
Sound == \A e \in symbol_table : e.id \in DOMAIN store /\ Defined(store[e.id], e.dest)
\* All but the chunk whose symbols are being entered.
Complete == \A m \in DOMAIN loaded : (InSymbols /\ m = Len(loaded)) \/ Reached(m)
\* The chunk being loaded is the last, with the symbols entered so far.
Present ==
  /\ \E S : loaded \in Seq(S)
  /\ pc = "loading" => /\ Len(loaded) \in DOMAIN loaded
                       /\ loaded[Len(loaded)].start = start /\ loaded[Len(loaded)].placed = placed
  /\ InSymbols => \A k \in DOMAIN chunk.symbols :
                    k <= done => Entered(chunk.symbols[k].name, start + chunk.symbols[k].index)
Resolving == Noted /\ Distinct /\ Sound /\ Complete /\ Present

LEMMA ResolvingGives ==
  ASSUME Resolving
  PROVE  SymbolsResolve
  <1>1. Settled => ~InSymbols
    BY DEF Settled, InSymbols
  <1>2. Settled => \A m \in DOMAIN loaded : Reached(m)
    BY <1>1 DEF Resolving, Complete
  <1> QED
    BY <1>2, Zenon DEF SymbolsResolve, Resolving, Distinct, Sound, Defined, Reached, Entered

LEMMA ResolvingInitially ==
  ASSUME Init
  PROVE  Resolving
  <1>1. Noted
    BY DEF Init, GenInit, NewChunk, Noted
  <1>2. Distinct
    BY LoaderAssumption DEF Init, Distinct
  <1>3. Sound /\ Complete
    BY DEF Init, Sound, Complete
  <1>4. Present
    BY DEF Init, GenInit, Present, InSymbols
  <1> QED
    BY <1>1, <1>2, <1>3, <1>4 DEF Resolving

\* What neither loads a symbol nor changes what was loaded.
LEMMA ResolvingSame ==
  ASSUME Resolving, UNCHANGED <<chunk, placed, store, symbol_table, loaded, start>>,
         ~InSymbols, ~InSymbols', pc' = "loading" => pc = "loading"
  PROVE  Resolving'
  <1>1. Noted' /\ Distinct'
    BY DEF Resolving, Noted, Distinct
  <1>2. Sound'
    BY DEF Resolving, Sound, Defined
  <1>3. Complete'
    <2>1. \A m \in DOMAIN loaded : Reached(m)
      BY DEF Resolving, Complete
    <2>2. \A m \in DOMAIN loaded' : Reached(m)'
      BY <2>1 DEF Reached, Entered
    <2> QED
      BY <2>2 DEF Complete
  <1>4. Present'
    BY DEF Resolving, Present
  <1> QED
    BY <1>1, <1>2, <1>3, <1>4 DEF Resolving

LEMMA ResolvingGenerate ==
  ASSUME LInv, Resolving, Generate, UNCHANGED vmVars
  PROVE  Resolving'
  <1>1. pc # "loading" /\ pc' # "loading"
    BY GenerateOwnChunk
  <1>2. ~InSymbols /\ ~InSymbols'
    BY <1>1 DEF InSymbols
  <1>3. Noted'
    BY NotedKept DEF LInv, Resolving
  <1>4. UNCHANGED <<store, symbol_table, loaded, start>>
    BY DEF vmVars
  <1>5. Distinct'
    BY <1>4 DEF Resolving, Distinct
  <1>6. Sound'
    BY <1>4 DEF Resolving, Sound, Defined
  <1>7. Complete'
    <2>1. \A m \in DOMAIN loaded : Reached(m)
      BY <1>2 DEF Resolving, Complete
    <2>2. \A m \in DOMAIN loaded' : Reached(m)'
      BY <2>1, <1>4 DEF Reached, Entered
    <2> QED
      BY <2>2 DEF Complete
  <1>8. Present'
    BY <1>1, <1>2, <1>4 DEF Resolving, Present
  <1> QED
    BY <1>3, <1>5, <1>6, <1>7, <1>8 DEF Resolving

\* hvm_symbolicate leaves every entry of the symbol table with its name.
LEMMA EnteredKept ==
  ASSUME Sound, symbol_table \subseteq symbol_table',
         \A i \in DOMAIN store : store'[i] = store[i]
  PROVE  \A name, dest : Entered(name, dest) => Entered(name, dest)'
  <1> SUFFICES ASSUME NEW name, NEW dest, Entered(name, dest) PROVE Entered(name, dest)'
    OBVIOUS
  <1>1. PICK e \in symbol_table : store[e.id] = name /\ e.dest = dest
    BY DEF Entered
  <1>2. e.id \in DOMAIN store
    BY DEF Sound
  <1>3. e \in symbol_table' /\ store'[e.id] = name
    BY <1>1, <1>2
  <1> QED
    BY <1>1, <1>3 DEF Entered

LEMMA DistinctKept ==
  ASSUME Stored, Distinct, NEW name \in Names, store' = StoreWith(name)
  PROVE  Distinct'
  <1>1. CASE Interned(name)
    BY <1>1 DEF Distinct, StoreWith
  <1>2. CASE ~Interned(name)
    <2>1. store' = Append(store, name) /\ store \in Seq(Names)
      BY <1>2 DEF StoreWith, Stored
    <2>2. /\ DOMAIN store' = DOMAIN store \cup {Len(store) + 1}
          /\ \A i \in DOMAIN store : store'[i] = store[i]
          /\ store'[Len(store) + 1] = name
      BY <2>1, AppendElements
    <2>3. \A i \in DOMAIN store : store[i] # name
      BY <1>2 DEF Interned
    <2> QED
      BY <2>2, <2>3 DEF Distinct
  <1> QED
    BY <1>1, <1>2

LEMMA ResolvingConstant ==
  ASSUME LInv, Resolving, LoadConstant
  PROVE  Resolving'
  <1> DEFINE cnst == chunk.constants[done + 1]
  <1>1. /\ Applying("constants", chunk.constants) /\ chunk.constants \in Seq(Constant(chunk.size))
    BY DEF LoadConstant, LInv, GenInv, IsChunk
  <1>2. cnst \in Constant(chunk.size) /\ pc = "loading" /\ part = "constants"
    BY <1>1, NextEntry
  <1>3. cnst.type = "symbol" => cnst.name \in Names
    BY <1>2 DEF Constant
  <1>4. /\ IF cnst.type = "symbol" THEN Symbolicate(cnst.name) ELSE UNCHANGED <<store, store_size>>
        /\ UNCHANGED <<chunk, placed, pc, symbol_table, part, start, loaded>>
    BY DEF LoadConstant, genVars
  <1> HIDE DEF cnst
  <1>5. CASE cnst.type # "symbol"
    BY <1>2, <1>4, <1>5, ResolvingSame DEF InSymbols
  <1>6. CASE cnst.type = "symbol"
    <2>1. /\ store' = StoreWith(cnst.name)
          /\ \A i \in DOMAIN store : i \in DOMAIN store' /\ store'[i] = store[i]
      BY <1>3, <1>4, <1>6, SymbolicateFacts DEF LInv
    <2>2. Distinct'
      BY <1>3, <1>6, <2>1, DistinctKept DEF LInv, Resolving
    <2>3. Noted'
      BY <1>4 DEF Resolving, Noted
    <2>4. Sound'
      <3>1. \A e \in symbol_table : store'[e.id] = store[e.id] /\ e.id \in DOMAIN store'
        BY <2>1 DEF Resolving, Sound
      <3> QED
        BY <3>1, <1>4 DEF Resolving, Sound, Defined
    <2>5. \A name, dest : Entered(name, dest) => Entered(name, dest)'
      BY <1>4, <2>1, EnteredKept DEF Resolving
    <2>6. ~InSymbols /\ ~InSymbols'
      BY <1>2, <1>4 DEF InSymbols
    <2>7. Complete'
      <3>1. \A m \in DOMAIN loaded : Reached(m)
        BY <2>6 DEF Resolving, Complete
      <3>2. ASSUME NEW m \in DOMAIN loaded' PROVE Reached(m)'
        BY <3>1, <2>5, <1>4 DEF Reached
      <3> QED
        BY <3>2 DEF Complete
    <2>8. Present'
      BY <1>4, <2>6 DEF Resolving, Present
    <2> QED
      BY <2>2, <2>3, <2>4, <2>7, <2>8 DEF Resolving
  <1> QED
    BY <1>5, <1>6

LEMMA ResolvingSymbol ==
  ASSUME LInv, Resolving, LoadSymbol
  PROVE  Resolving'
  <1>1. Applying("symbols", chunk.symbols) /\ chunk.symbols \in Seq(Symbol)
    BY DEF LoadSymbol, LInv, GenInv, IsChunk
  <1>2. /\ done + 1 \in DOMAIN chunk.symbols /\ chunk.symbols[done + 1] \in Symbol
        /\ pc = "loading" /\ part = "symbols" /\ done' = done + 1
    BY <1>1, NextEntry
  <1>3. PICK name, idx, id, dest :
          /\ name = chunk.symbols[done + 1].name /\ idx = chunk.symbols[done + 1].index
          /\ id = IdOf(name) /\ dest = start + idx
    OBVIOUS
  <1>4. name \in Names
    BY <1>2, <1>3 DEF Symbol
  <1>5. /\ Symbolicate(name) /\ symbol_table' = symbol_table \cup {[id |-> id, dest |-> dest]}
        /\ UNCHANGED <<chunk, placed, pc, part, start, loaded>>
    BY <1>3 DEF LoadSymbol, genVars
  <1>6. /\ store' = StoreWith(name) /\ id \in DOMAIN store' /\ store'[id] = name
        /\ \A i \in DOMAIN store : i \in DOMAIN store' /\ store'[i] = store[i]
    BY <1>3, <1>4, <1>5, SymbolicateFacts DEF LInv
  <1>7. Distinct'
    BY <1>4, <1>6, DistinctKept DEF LInv, Resolving
  <1>8. Noted'
    BY <1>5 DEF Resolving, Noted
  <1>9. Sound'
    <2>1. \A n, d : Defined(n, d) => Defined(n, d)'
      BY <1>5 DEF Defined
    <2>2. ASSUME NEW e \in symbol_table PROVE e.id \in DOMAIN store' /\ Defined(store[e.id], e.dest)'
      <3>1. e.id \in DOMAIN store /\ Defined(store[e.id], e.dest)
        BY DEF Resolving, Sound
      <3>2. e.id \in DOMAIN store' /\ store'[e.id] = store[e.id]
        BY <3>1, <1>6
      <3> QED
        BY <3>1, <3>2, <1>5 DEF Defined
    <2>3. Defined(name, dest)
      <3>1. PICK i \in DOMAIN placed : /\ placed[i].item.b = "sub" /\ placed[i].item.name = name
                                       /\ placed[i].at = idx
        BY <1>2, <1>3 DEF Resolving, Noted
      <3>2. /\ Len(loaded) \in DOMAIN loaded /\ loaded[Len(loaded)].start = start
            /\ loaded[Len(loaded)].placed = placed
        BY <1>2 DEF Resolving, Present
      <3> QED
        BY <3>1, <3>2, <1>3 DEF Defined
    <2>4. ASSUME NEW e, e = [id |-> id, dest |-> dest]
          PROVE  e.id \in DOMAIN store' /\ Defined(store[e.id], e.dest)'
      <3>1. e.id = id /\ e.dest = dest
        BY <2>4
      <3>2. e.id \in DOMAIN store' /\ store'[e.id] = name
        BY <3>1, <1>6
      <3> QED
        BY <3>1, <3>2, <2>1, <2>3 DEF Defined
    <2> QED
      BY <2>2, <2>4, <1>5 DEF Sound
  <1>10. \A n, d : Entered(n, d) => Entered(n, d)'
    <2>1. symbol_table \subseteq symbol_table'
      BY <1>5
    <2> QED
      BY <2>1, <1>6, EnteredKept DEF Resolving
  <1>11. Entered(name, dest)'
    <2>1. [id |-> id, dest |-> dest] \in symbol_table'
      BY <1>5
    <2> QED
      BY <2>1, <1>6 DEF Entered
  <1>12. InSymbols /\ InSymbols'
    BY <1>2, <1>5 DEF InSymbols
  <1>13. Complete'
    <2>1. ASSUME NEW m \in DOMAIN loaded, m # Len(loaded) PROVE Reached(m)'
      <3>1. Reached(m)
        BY <2>1 DEF Resolving, Complete
      <3> QED
        BY <3>1, <1>10, <1>5 DEF Reached
    <2> QED
      BY <2>1, <1>5, <1>12 DEF Complete
  <1>14. Present'
    <2>1. ASSUME NEW k \in DOMAIN chunk.symbols, k <= done + 1
          PROVE  Entered(chunk.symbols[k].name, start + chunk.symbols[k].index)'
      <3>1. PICK n, d : n = chunk.symbols[k].name /\ d = start + chunk.symbols[k].index
        OBVIOUS
      <3>2. Entered(n, d)'
        <4>1. CASE k = done + 1
          BY <4>1, <3>1, <1>3, <1>11
        <4>2. CASE k # done + 1
          <5>1. k \in Nat /\ done \in Nat
            BY <1>1 DEF LInv, Parted
          <5>2. k <= done
            BY <5>1, <4>2, <2>1
          <5>3. Entered(n, d)
            BY <5>2, <3>1, <1>12 DEF Resolving, Present
          <5> QED
            BY <5>3, <1>10
        <4> QED
          BY <4>1, <4>2
      <3>3. n = chunk'.symbols[k].name /\ d = start' + chunk'.symbols[k].index
        BY <3>1, <1>5
      <3> QED
        BY <3>2, <3>3 DEF Entered
    <2> QED
      BY <2>1, <1>2, <1>5 DEF Resolving, Present
  <1> QED
    BY <1>7, <1>8, <1>9, <1>13, <1>14 DEF Resolving

LEMMA ResolvingNextPart ==
  ASSUME LInv, Resolving, NextPart
  PROVE  Resolving'
  <1>1. /\ pc = "loading" /\ part' # "symbols"
        /\ UNCHANGED <<pc, chunk, placed, store, symbol_table, loaded, start>>
    BY DEF NextPart, genVars
  <1>2. CASE part # "symbols"
    BY <1>1, <1>2, ResolvingSame DEF InSymbols
  <1>3. CASE part = "symbols"
    <2>1. done = Len(chunk.symbols)
      BY <1>3 DEF NextPart
    <2>2. InSymbols /\ ~InSymbols'
      BY <1>1, <1>3 DEF InSymbols
    <2>3. /\ loaded[Len(loaded)].start = start /\ loaded[Len(loaded)].placed = placed
      BY <1>1 DEF Resolving, Present
    <2>4. ASSUME NEW k \in DOMAIN chunk.symbols
          PROVE  Entered(chunk.symbols[k].name, start + chunk.symbols[k].index)
      <3>1. chunk.symbols \in Seq(Symbol)
        BY DEF LInv, GenInv, IsChunk
      <3>2. k <= done
        BY <3>1, <2>1
      <3> QED
        BY <3>2, <2>2 DEF Resolving, Present
    <2>5. Reached(Len(loaded))
      <3>1. ASSUME NEW i \in DOMAIN placed, placed[i].item.b = "sub"
            PROVE  Entered(placed[i].item.name, start + placed[i].at)
        <4>1. PICK k \in DOMAIN chunk.symbols :
                placed[i].item.name = chunk.symbols[k].name /\ placed[i].at = chunk.symbols[k].index
          BY <3>1 DEF Resolving, Noted
        <4> QED
          BY <4>1, <2>4
      <3> QED
        BY <3>1, <2>3 DEF Reached
    <2>6. \A m \in DOMAIN loaded : Reached(m)
      BY <2>5 DEF Resolving, Complete
    <2>7. Complete'
      <3>1. \A m \in DOMAIN loaded' : Reached(m)'
        BY <2>6, <1>1 DEF Reached, Entered
      <3> QED
        BY <3>1 DEF Complete
    <2>8. Noted' /\ Distinct'
      BY <1>1 DEF Resolving, Noted, Distinct
    <2>9. Sound'
      BY <1>1 DEF Resolving, Sound, Defined
    <2>10. Present'
      BY <1>1, <2>2 DEF Resolving, Present
    <2> QED
      BY <2>7, <2>8, <2>9, <2>10 DEF Resolving
  <1> QED
    BY <1>2, <1>3

LEMMA ResolvingLoadChunk ==
  ASSUME LInv, Resolving, LoadChunk
  PROVE  Resolving'
  <1> DEFINE l == [start |-> program_size, placed |-> placed]
  <1>1. /\ pc = "chunk" /\ start' = program_size /\ pc' = "loading" /\ part' = "symbols" /\ done' = 0
        /\ loaded' = Append(loaded, l)
        /\ UNCHANGED <<chunk, placed, store, symbol_table>>
    BY DEF LoadChunk
  <1>2. l.start = program_size /\ l.placed = placed
    OBVIOUS
  <1> HIDE DEF l
  <1>3. PICK S : loaded \in Seq(S)
    BY DEF Resolving, Present
  <1>4. /\ loaded' \in Seq(S \cup {l}) /\ DOMAIN loaded' = DOMAIN loaded \cup {Len(loaded) + 1}
        /\ \A m \in DOMAIN loaded : loaded'[m] = loaded[m]
        /\ loaded'[Len(loaded) + 1] = l /\ Len(loaded') = Len(loaded) + 1
    BY <1>1, <1>3, AppendElements
  <1>5. ~InSymbols /\ InSymbols'
    BY <1>1 DEF InSymbols
  <1>6. Noted' /\ Distinct'
    BY <1>1 DEF Resolving, Noted, Distinct
  <1>7. Sound'
    <2>1. ASSUME NEW name, NEW dest, Defined(name, dest) PROVE Defined(name, dest)'
      <3>1. PICK m \in DOMAIN loaded : \E i \in DOMAIN loaded[m].placed :
              /\ loaded[m].placed[i].item.b = "sub" /\ loaded[m].placed[i].item.name = name
              /\ loaded[m].start + loaded[m].placed[i].at = dest
        BY <2>1 DEF Defined
      <3>2. m \in DOMAIN loaded' /\ loaded'[m] = loaded[m]
        BY <1>4
      <3> QED
        BY <3>1, <3>2 DEF Defined
    <2> QED
      BY <2>1, <1>1 DEF Resolving, Sound
  <1>8. Complete'
    <2>1. ASSUME NEW m \in DOMAIN loaded PROVE Reached(m)'
      <3>1. Reached(m)
        BY <1>5 DEF Resolving, Complete
      <3>2. loaded'[m] = loaded[m]
        BY <1>4
      <3> QED
        BY <3>1, <3>2, <1>1 DEF Reached, Entered
    <2> QED
      BY <2>1, <1>4, <1>5 DEF Complete
  <1>9. Present'
    <2>1. /\ \E T : loaded' \in Seq(T)
          /\ Len(loaded') \in DOMAIN loaded' /\ loaded'[Len(loaded')].start = start'
          /\ loaded'[Len(loaded')].placed = placed'
      BY <1>1, <1>2, <1>4
    <2>2. chunk.symbols \in Seq(Symbol)
      BY DEF LInv, GenInv, IsChunk
    <2>3. \A k \in DOMAIN chunk'.symbols : ~(k <= done')
      BY <1>1, <2>2
    <2> QED
      BY <2>1, <2>3 DEF Present
  <1> QED
    BY <1>6, <1>7, <1>8, <1>9 DEF Resolving

LEMMA ResolvingInductive == Spec => []Resolving
  <1>1. Init => Resolving
    BY ResolvingInitially
  <1>2. LInv /\ Resolving /\ [Next]_vars => Resolving'
    <2> SUFFICES ASSUME LInv, Resolving, [Next]_vars PROVE Resolving'
      OBVIOUS
    <2>1. CASE ExpandProgram
      BY <2>1, ResolvingSame DEF ExpandProgram, genVars, InSymbols
    <2>2. CASE LoadRelocation
      BY <2>2, ResolvingSame DEF LoadRelocation, Applying, genVars, InSymbols
    <2>3. CASE LoadDebugEntry
      BY <2>3, ResolvingSame DEF LoadDebugEntry, Applying, genVars, InSymbols
    <2>4. CASE Loaded
      <3>1. /\ part = "debug" /\ pc' # "loading"
            /\ UNCHANGED <<chunk, placed, store, symbol_table, loaded, start>>
        BY <2>4 DEF Loaded
      <3> QED
        BY <3>1, ResolvingSame DEF InSymbols
    <2>5. CASE UNCHANGED vars
      <3>1. UNCHANGED <<chunk, placed, store, symbol_table, loaded, start, pc, part, done>>
        BY <2>5 DEF vars, genVars, vmVars
      <3>2. Noted' /\ Distinct'
        BY <3>1 DEF Resolving, Noted, Distinct
      <3>3. Sound'
        BY <3>1 DEF Resolving, Sound, Defined
      <3>4. Complete' /\ Present'
        BY <3>1 DEF Resolving, Complete, Present, Reached, Entered, InSymbols
      <3> QED
        BY <3>2, <3>3, <3>4 DEF Resolving
    <2> QED
      BY <2>1, <2>2, <2>3, <2>4, <2>5, ResolvingGenerate, ResolvingLoadChunk, ResolvingSymbol,
         ResolvingConstant, ResolvingNextPart DEF Next
  <1> QED
    BY <1>1, <1>2, Inductive, PTL DEF Spec

\* Between two loads the symbol table leads from the name of every subroutine in a
\* loaded chunk to each address it was loaded to and from no name anywhere else, and
\* a name has one id, whatever chunks were loaded and in whatever order
\* (hvm_symbolicate, hvm_vm_load_chunk_symbols).
THEOREM SubroutinesFound == Spec => []SymbolsResolve
  <1>1. Resolving => SymbolsResolve
    BY ResolvingGives
  <1> QED
    BY <1>1, ResolvingInductive, PTL

--------------------------------------------------------------------------------
(* The debug entries find every instruction *)

\* A debug entry that has begun and ended covers the addresses between.
Covers(de, at) == de.end # Space - 1 /\ de.start <= at /\ at <= de.end
Same(de, want) == de.line = want.line /\ de.name = want.name /\ de.flags = want.flags
\* No entry beyond the first from covers the address, and the first that does is as wanted.
NoneFrom(des, from, at) == \A k \in DOMAIN des : k > from => ~Covers(des[k], at)
FirstFrom(des, from, at, want) ==
  \E k \in DOMAIN des :
    /\ k > from /\ Covers(des[k], at) /\ Same(des[k], want)
    /\ \A m \in DOMAIN des : m > from /\ m < k => ~Covers(des[m], at)

\* A debug item still in force will cover what has been placed since.
OpenAt(j, at) == blocks[j].entry # NULL /\ blocks[j].entry.ip <= at
NoneOpen(at) == \A j \in DOMAIN blocks : ~OpenAt(j, at)
InnermostOpen(at, want) ==
  \E j \in DOMAIN blocks : /\ OpenAt(j, at) /\ Same(blocks[j].entry, want)
                           /\ \A m \in DOMAIN blocks : m > j => ~OpenAt(m, at)

\* The chunk's entries, with those still open after them from the innermost block
\* outwards, lead to the debug item an instruction was placed under.
Attributed(p) ==
  /\ p.at < chunk.size
  /\ IF p.debug = NULL THEN NoneFrom(chunk.debug_entries, 0, p.at) /\ NoneOpen(p.at)
     ELSE \/ FirstFrom(chunk.debug_entries, 0, p.at, p.debug)
          \/ NoneFrom(chunk.debug_entries, 0, p.at) /\ InnermostOpen(p.at, p.debug)
\* An entry of a chunk of this size: one closed before the first instruction ends at
\* Space - 1.
Regular(de, size) ==
  /\ de.start \in Nat /\ de.end \in Nat /\ de.start <= size
  /\ de.end = Space - 1 \/ de.end < size
Bounded ==
  /\ \A k \in DOMAIN chunk.debug_entries : Regular(chunk.debug_entries[k], chunk.size)
  /\ \A j \in DOMAIN blocks : blocks[j].entry # NULL => blocks[j].entry.ip <= chunk.size
Located ==
  /\ \E S : placed \in Seq(S)
  /\ \A i \in DOMAIN placed : placed[i].what = "op" => placed[i].at \in Nat
  /\ chunk.size < Space =>
       Bounded /\ \A i \in DOMAIN placed : placed[i].what = "op" => Attributed(placed[i])
  /\ pc \in {"chunk", "loading"} => blocks = <<>>

\* How a step of the generator changes what Located is about: it begins a chunk,
\* places an entry and opens blocks, or closes the innermost block's entry.
NoOp == placed' = placed \/ \E p : placed' = Append(placed, p) /\ p.what # "op"
NewOp ==
  \E p : /\ placed' = Append(placed, p) /\ p.what = "op" /\ p.at = chunk.size
         /\ p.debug = InForce /\ chunk.size < chunk'.size
SameEntries ==
  /\ \A j \in DOMAIN blocks : j \in DOMAIN blocks' /\ blocks'[j].entry = blocks[j].entry
  /\ \A j \in DOMAIN blocks' : j \in DOMAIN blocks \/ blocks'[j].entry = NULL
Begun == placed' = <<>> /\ chunk' = NewChunk /\ blocks' = <<NewBlock(0)>>
Carried ==
  /\ chunk'.debug_entries = chunk.debug_entries /\ chunk.size <= chunk'.size
  /\ SameEntries /\ (NoOp \/ NewOp)
Shut ==
  LET n == Len(blocks)
  IN /\ chunk'.size = chunk.size /\ NoOp /\ n \in DOMAIN blocks
     /\ \A j \in DOMAIN blocks : j < n => j \in DOMAIN blocks' /\ blocks'[j].entry = blocks[j].entry
     /\ \A j \in DOMAIN blocks' :
          j \in DOMAIN blocks /\ (j = n /\ blocks'[j].entry # NULL => blocks'[j].entry.ip = chunk.size)
     /\ IF blocks[n].entry = NULL THEN chunk'.debug_entries = chunk.debug_entries
        ELSE \E de : /\ chunk'.debug_entries = Append(chunk.debug_entries, de)
                     /\ de.start = blocks[n].entry.ip /\ de.end = DebugEnd(chunk.size)
                     /\ Same(de, blocks[n].entry)

LEMMA PutFacts ==
  ASSUME NEW what
  PROVE  /\ Put(what).what = what /\ Put(what).at = chunk.size /\ Put(what).debug = InForce
         /\ Put(what).item = Current
  BY DEF Put

LEMMA ClosedEffect ==
  ASSUME NEW c, IsChunk(c), NEW entry \in Entry, entry # NULL
  PROVE  \E de : /\ Closed(c, entry).debug_entries = Append(c.debug_entries, de)
                 /\ de.start = entry.ip /\ de.end = DebugEnd(c.size) /\ Same(de, entry)
  <1> DEFINE de == [start |-> entry.ip, end |-> DebugEnd(c.size), line |-> entry.line,
                    name |-> entry.name, flags |-> entry.flags]
  <1>1. Closed(c, entry).debug_entries = Append(c.debug_entries, de)
    BY ClosedFacts
  <1>2. /\ de.start = entry.ip /\ de.end = DebugEnd(c.size) /\ de.line = entry.line
        /\ de.name = entry.name /\ de.flags = entry.flags
    OBVIOUS
  <1> HIDE DEF de
  <1> QED
    BY <1>1, <1>2 DEF Same

\* Replacing the innermost block by one with the same entry, or by any.
LEMMA TopReplaced ==
  ASSUME NEW S, blocks \in Seq(S), blocks # <<>>, NEW blk
  PROVE  LET b == [blocks EXCEPT ![Len(blocks)] = blk]
         IN /\ DOMAIN b = DOMAIN blocks /\ b[Len(blocks)] = blk
            /\ Len(blocks) \in DOMAIN blocks /\ Len(blocks) \in Nat
            /\ \A j \in DOMAIN blocks : j # Len(blocks) => b[j] = blocks[j]
  OBVIOUS

LEMMA PoppedElements ==
  ASSUME NEW S, NEW t \in Seq(S), t # <<>>
  PROVE  /\ DOMAIN Pop(t) = 1 .. Len(t) - 1 /\ Len(t) \in Nat \ {0}
         /\ \A j \in 1 .. Len(t) - 1 : Pop(t)[j] = t[j] /\ j \in DOMAIN t /\ j < Len(t)
         /\ Len(t) \in DOMAIN t /\ \A j \in DOMAIN t : j < Len(t) => j \in 1 .. Len(t) - 1
  <1>1. Len(t) \in Nat /\ Len(t) # 0 /\ DOMAIN t = 1 .. Len(t)
    OBVIOUS
  <1>2. 1 \in 1 .. Len(t) + 1 /\ Len(t) - 1 \in 0 .. Len(t)
    BY <1>1
  <1>3. Pop(t) = [i \in 1 .. Len(t) - 1 |-> t[i]]
    BY <1>1 DEF Pop
  <1> QED
    BY <1>1, <1>3

LEMMA SameAt ==
  ASSUME NEW S, blocks \in Seq(S), blocks # <<>>, NEW blk, blk.entry = blocks[Len(blocks)].entry,
         blocks' = [blocks EXCEPT ![Len(blocks)] = blk]
  PROVE  SameEntries
  BY TopReplaced DEF SameEntries

LEMMA DebugEffect ==
  ASSUME GenInv, Generate
  PROVE  Begun \/ Carried \/ Shut
  <1>0. IsChunk(chunk) /\ chunk.size \in Nat /\ chunk.size <= chunk.size
    BY DEF GenInv, IsChunk
  <1>a. blocks \in Seq(OpenBlock(chunk.capacity))
    BY DEF GenInv, Opened
  <1>b. ASSUME blocks' = blocks PROVE SameEntries
    BY <1>b DEF SameEntries
  <1>1. CASE PushBlock \/ LeaveBlock \/ SetDebugLine \/ SetDebugEntry \/ PushOp
    <2>1. \A item, marks : PushItem(item, marks) => placed' = placed /\ chunk' = chunk /\ blocks' = blocks
      BY DEF PushItem
    <2>2. placed' = placed /\ chunk' = chunk /\ blocks' = blocks
      BY <1>1, <2>1, Zenon DEF PushBlock, LeaveBlock, SetDebugLine, SetDebugEntry, PushOp
    <2> QED
      BY <1>0, <1>b, <2>2 DEF Carried, NoOp
  <1>2. CASE SetDebugFlags \/ UnknownItem \/ EndOfItems
    <2>1. placed' = placed /\ chunk' = chunk /\ blocks' = blocks
      BY <1>2 DEF SetDebugFlags, UnknownItem, EndOfItems
    <2> QED
      BY <1>0, <1>b, <2>1 DEF Carried, NoOp
  <1>3. CASE GenChunk
    BY <1>3 DEF GenChunk, Begun
  <1>4. CASE BlockItem
    <2>1. chunk' = Expanded /\ blocks' = Append(blocks, NewBlock(next + 1)) /\ placed' = placed
      BY <1>4 DEF BlockItem
    <2>2. NewBlock(next + 1).entry = NULL
      BY DEF NewBlock
    <2>3. SameEntries
      BY <1>a, <2>1, <2>2, AppendElements DEF SameEntries
    <2>4. Expanded.debug_entries = chunk.debug_entries /\ Expanded.size = chunk.size
      BY <1>0, ExpandedFacts
    <2> QED
      BY <1>0, <2>1, <2>3, <2>4 DEF Carried, NoOp
  <1>5. CASE CloseBlock
    <2>1. /\ pc = "end" /\ chunk' = Closed(chunk, Block.entry) /\ blocks' = Pop(blocks)
          /\ placed' = placed
      BY <1>5 DEF CloseBlock
    <2>2. blocks # <<>> /\ Block \in OpenBlock(chunk.capacity) /\ Block = blocks[Len(blocks)]
      BY <2>1, BlockFacts DEF Block, Top
    <2>3. Block.entry \in Entry \cup {NULL}
      BY <2>2 DEF OpenBlock
    <2>4. chunk'.size = chunk.size
      BY <1>0, <2>1, <2>3, ClosedFacts
    <2>5. /\ \A j \in DOMAIN blocks : j < Len(blocks) =>
               j \in DOMAIN blocks' /\ blocks'[j].entry = blocks[j].entry
          /\ \A j \in DOMAIN blocks' : j \in DOMAIN blocks /\ j # Len(blocks)
          /\ Len(blocks) \in DOMAIN blocks
      BY <1>a, <2>1, <2>2, PoppedElements
    <2>6. CASE Block.entry = NULL
      <3>1. chunk' = chunk
        BY <2>1, <2>6 DEF Closed
      <3> QED
        BY <2>1, <2>2, <2>5, <2>6, <3>1 DEF Shut, NoOp
    <2>7. CASE Block.entry # NULL
      <3>1. \E de : /\ chunk'.debug_entries = Append(chunk.debug_entries, de)
                    /\ de.start = Block.entry.ip /\ de.end = DebugEnd(chunk.size)
                    /\ Same(de, Block.entry)
        BY <1>0, <2>1, <2>3, <2>7, ClosedEffect
      <3> QED
        BY <2>1, <2>2, <2>4, <2>5, <2>7, <3>1 DEF Shut, NoOp
    <2> QED
      BY <2>6, <2>7
  <1>6. CASE PatchLabel
    <2>1. /\ placed' = placed /\ pc = "end"
          /\ blocks' = [blocks EXCEPT ![Len(blocks)].uses = Tail(@)]
      BY <1>6 DEF PatchLabel
    <2>2. \A d : LET c == [chunk EXCEPT !.data = d]
                 IN c.debug_entries = chunk.debug_entries /\ c.size = chunk.size
      BY <1>0 DEF IsChunk
    <2>3. chunk' = chunk \/ \E d : chunk' = [chunk EXCEPT !.data = d]
      BY <1>6 DEF PatchLabel
    <2>4. chunk'.debug_entries = chunk.debug_entries /\ chunk'.size = chunk.size
      BY <2>2, <2>3
    <2>5. blocks # <<>> /\ Block \in OpenBlock(chunk.capacity) /\ Block = blocks[Len(blocks)]
      BY <2>1, BlockFacts DEF Block, Top
    <2>6. PICK blk : blk = [Block EXCEPT !.uses = Tail(Block.uses)]
      OBVIOUS
    <2>7. blocks' = [blocks EXCEPT ![Len(blocks)] = blk]
      BY <2>1, <2>5, <2>6
    <2>8. blk.entry = blocks[Len(blocks)].entry
      BY <2>5, <2>6 DEF OpenBlock
    <2>9. SameEntries
      BY <1>a, <2>5, <2>7, <2>8, SameAt
    <2> QED
      BY <1>0, <2>1, <2>4, <2>9 DEF Carried, NoOp
  <1>7. CASE DebugItem
    <2>1. PICK entry, blk :
            /\ entry = [ip |-> chunk.size, line |-> Current.n, name |-> Current.name,
                        flags |-> Current.flags]
            /\ blk = [Block EXCEPT !.entry = entry]
            /\ chunk' = Closed(Expanded, Block.entry)
            /\ blocks' = [blocks EXCEPT ![Len(blocks)] = blk]
            /\ placed' = Append(placed, Put("debug")) /\ pc = "process"
      BY <1>7 DEF DebugItem, Processed, Processing
    <2>2. blocks # <<>> /\ Block \in OpenBlock(chunk.capacity) /\ Block = blocks[Len(blocks)]
      BY <2>1, BlockFacts DEF Block, Top
    <2>3. Block.entry \in Entry \cup {NULL}
      BY <2>2 DEF OpenBlock
    <2>4. /\ IsChunk(Expanded) /\ Expanded.size = chunk.size
          /\ Expanded.debug_entries = chunk.debug_entries
      BY <1>0, ExpandedFacts
    <2>5. chunk'.size = chunk.size
      BY <2>1, <2>3, <2>4, ClosedFacts
    <2>6. blk.entry = entry /\ entry.ip = chunk.size
      BY <2>1, <2>2 DEF OpenBlock
    <2>7. /\ \A j \in DOMAIN blocks : j < Len(blocks) =>
               j \in DOMAIN blocks' /\ blocks'[j].entry = blocks[j].entry
          /\ \A j \in DOMAIN blocks' :
               j \in DOMAIN blocks /\ (j = Len(blocks) => blocks'[j].entry.ip = chunk.size)
          /\ Len(blocks) \in DOMAIN blocks
      BY <1>a, <2>1, <2>2, <2>6, TopReplaced
    <2>8. NoOp
      BY <2>1, PutFacts DEF NoOp
    <2>9. CASE Block.entry = NULL
      <3>1. chunk'.debug_entries = chunk.debug_entries
        BY <2>1, <2>4, <2>9 DEF Closed
      <3> QED
        BY <2>2, <2>5, <2>7, <2>8, <2>9, <3>1 DEF Shut
    <2>10. CASE Block.entry # NULL
      <3>1. \E de : /\ chunk'.debug_entries = Append(chunk.debug_entries, de)
                    /\ de.start = Block.entry.ip /\ de.end = DebugEnd(chunk.size)
                    /\ Same(de, Block.entry)
        <4>1. PICK c : c = Expanded
          OBVIOUS
        <4>2. IsChunk(c) /\ Block.entry \in Entry
          BY <2>3, <2>4, <2>10, <4>1
        <4>3. PICK de : /\ Closed(c, Block.entry).debug_entries = Append(c.debug_entries, de)
                        /\ de.start = Block.entry.ip /\ de.end = DebugEnd(c.size)
                        /\ Same(de, Block.entry)
          BY <2>10, <4>2, ClosedEffect
        <4> QED
          BY <2>1, <2>4, <4>1, <4>3
      <3> QED
        BY <2>2, <2>5, <2>7, <2>8, <2>10, <3>1 DEF Shut
    <2> QED
      BY <2>9, <2>10
  <1>8. CASE OpItem
    <2>1. PICK fields \in SUBSET Field, unknown \in BOOLEAN :
            /\ unknown => Current.b \in Labelled
            /\ Processed(Emit(Current.b, Current.name, fields),
                         Using(Current.b, Current.name, unknown), Put("op"))
      BY <1>8, OpItemEffect
    <2>2. PICK blk : blk = Using(Current.b, Current.name, unknown)
      OBVIOUS
    <2>3. /\ placed' = Append(placed, Put("op")) /\ chunk' = Emit(Current.b, Current.name, fields)
          /\ blocks' = [blocks EXCEPT ![Len(blocks)] = blk]
      BY <2>1, <2>2 DEF Processed
    <2>4. Current \in Items /\ Current.b \in Emitted /\ pc = "process"
      BY <1>8, CurrentFacts DEF OpItem, Processing
    <2>5. chunk'.debug_entries = chunk.debug_entries /\ chunk'.size = chunk.size + Length(Current.b)
      BY <1>0, <2>3, <2>4, ItemFacts, EmitFacts
    <2>6. Length(Current.b) \in 1 .. 13
      BY <2>4, LayoutFacts
    <2>7. chunk.size < chunk'.size /\ chunk.size <= chunk'.size
      BY <1>0, <2>5, <2>6
    <2>8. blocks # <<>> /\ Block \in OpenBlock(chunk.capacity) /\ Block = blocks[Len(blocks)]
      BY <2>4, BlockFacts DEF Block, Top
    <2>9. blk.entry = Block.entry
      BY <2>2, <2>8 DEF Using, OpenBlock
    <2>10. SameEntries
      BY <1>a, <2>3, <2>8, <2>9, SameAt
    <2>11. NewOp
      BY <2>3, <2>7, PutFacts DEF NewOp
    <2> QED
      BY <2>5, <2>7, <2>10, <2>11 DEF Carried
  <1>9. CASE LabelItem
    <2>1. PICK blk :
            /\ blk = [Block EXCEPT !.labels[Current.name] = chunk.size]
            /\ placed' = Append(placed, Put("label")) /\ pc = "process"
            /\ blocks' = [blocks EXCEPT ![Len(blocks)] = blk]
            /\ \/ chunk' = Expanded
               \/ \E x : chunk' = [Expanded EXCEPT !.symbols = x]
      BY <1>9 DEF LabelItem, Processed, Processing
    <2>2. blocks # <<>> /\ Block \in OpenBlock(chunk.capacity) /\ Block = blocks[Len(blocks)]
      BY <2>1, BlockFacts DEF Block, Top
    <2>3. blk.entry = Block.entry
      BY <2>1, <2>2 DEF OpenBlock
    <2>4. SameEntries
      BY <1>a, <2>1, <2>2, <2>3, SameAt
    <2>5. /\ IsChunk(Expanded) /\ Expanded.size = chunk.size
          /\ Expanded.debug_entries = chunk.debug_entries
      BY <1>0, ExpandedFacts
    <2>6. \A x : LET c == [Expanded EXCEPT !.symbols = x]
                 IN c.debug_entries = Expanded.debug_entries /\ c.size = Expanded.size
      BY <2>5 DEF IsChunk
    <2>7. chunk'.debug_entries = chunk.debug_entries /\ chunk'.size = chunk.size
      BY <2>1, <2>5, <2>6
    <2>8. NoOp
      BY <2>1, PutFacts DEF NoOp
    <2> QED
      BY <1>0, <2>4, <2>7, <2>8 DEF Carried
  <1> QED
    BY <1>1, <1>2, <1>3, <1>4, <1>5, <1>6, <1>7, <1>8, <1>9 DEF Generate

\* The debug item in force is that of the innermost block that has one.
LEMMA InForceFacts ==
  ASSUME GenInv
  PROVE  \/ InForce = NULL /\ \A j \in DOMAIN blocks : blocks[j].entry = NULL
         \/ \E j \in DOMAIN blocks :
              /\ blocks[j].entry # NULL /\ InForce = blocks[j].entry
              /\ \A m \in DOMAIN blocks : m > j => blocks[m].entry = NULL
  <1> DEFINE having == {i \in DOMAIN blocks : blocks[i].entry # NULL}
  <1>1. CASE having = {}
    BY <1>1 DEF InForce
  <1>2. CASE having # {}
    <2>1. blocks \in Seq(OpenBlock(chunk.capacity))
      BY DEF GenInv, Opened
    <2>2. Len(blocks) \in Nat /\ having \in SUBSET (0 .. Len(blocks)) /\ DOMAIN blocks \subseteq Nat
      BY <2>1
    <2>3. \E i \in having : \A j \in having : j <= i
      <3> HIDE DEF having
      <3> QED
        BY <1>2, <2>2, Greatest
    <2>4. PICK i : i \in having /\ (\A j \in having : j <= i) /\ InForce = blocks[i].entry
      BY <1>2, <2>3, Zenon DEF InForce
    <2>5. \A m \in DOMAIN blocks : m > i => blocks[m].entry = NULL
      BY <2>2, <2>4
    <2> QED
      BY <2>4, <2>5
  <1> QED
    BY <1>1, <1>2

LEMMA DebugEndFacts ==
  ASSUME NEW size \in Nat, size < Space
  PROVE  /\ DebugEnd(size) \in Nat
         /\ size = 0 => DebugEnd(size) = Space - 1
         /\ size # 0 => DebugEnd(size) = size - 1 /\ DebugEnd(size) # Space - 1
  <1>1. Space \in Nat \ {0}
    BY GeneratorAssumption
  <1>2. \A s \in Nat \ {0} : \A x \in 0 .. s - 1 : x % s = x /\ (x + s) % s = x
    OBVIOUS
  <1>3. CASE size = 0
    <2>1. Space - 1 \in 0 .. Space - 1 /\ size + Space - 1 = Space - 1
      BY <1>1, <1>3
    <2> QED
      BY <1>1, <1>2, <1>3, <2>1 DEF DebugEnd
  <1>4. CASE size # 0
    <2>1. size - 1 \in 0 .. Space - 1 /\ size + Space - 1 = (size - 1) + Space /\ size - 1 # Space - 1
      BY <1>1, <1>4
    <2> QED
      BY <1>1, <1>2, <1>4, <2>1 DEF DebugEnd
  <1> QED
    BY <1>3, <1>4

\* An entry closed now covers what is placed from its item on.
LEMMA JustClosed ==
  ASSUME NEW size \in Nat, size < Space, NEW de, de.start \in Nat, de.start <= size,
         de.end = DebugEnd(size)
  PROVE  /\ Regular(de, size)
         /\ \A at \in Nat : at < size => (Covers(de, at) <=> de.start <= at)
  <1>1. CASE size = 0
    BY <1>1, DebugEndFacts DEF Regular
  <1>2. CASE size # 0
    BY <1>2, DebugEndFacts DEF Regular, Covers
  <1> QED
    BY <1>1, <1>2

\* No entry of the chunk covers what lies beyond it.
LEMMA RegularCovers ==
  ASSUME NEW size \in Nat, NEW de, Regular(de, size), NEW at \in Nat, size <= at
  PROVE  ~Covers(de, at)
  BY DEF Regular, Covers

LEMMA AttributedCarried ==
  ASSUME GenInv, chunk'.size \in Nat, Carried, NEW p, p.at \in Nat, Attributed(p)
  PROVE  Attributed(p)'
  <1>1. chunk.size \in Nat /\ DOMAIN blocks \subseteq Nat
    BY DEF GenInv, IsChunk, Opened
  <1>2. /\ chunk'.debug_entries = chunk.debug_entries /\ chunk.size <= chunk'.size
        /\ \A j \in DOMAIN blocks : j \in DOMAIN blocks' /\ blocks'[j].entry = blocks[j].entry
        /\ \A j \in DOMAIN blocks' : j \in DOMAIN blocks \/ blocks'[j].entry = NULL
    BY DEF Carried, SameEntries
  <1>3. p.at < chunk'.size
    BY <1>1, <1>2 DEF Attributed
  <1>4. ASSUME NEW j \in DOMAIN blocks', OpenAt(j, p.at)' PROVE j \in DOMAIN blocks /\ OpenAt(j, p.at)
    BY <1>2, <1>4 DEF OpenAt
  <1>5. NoneOpen(p.at) => NoneOpen(p.at)'
    BY <1>4 DEF NoneOpen
  <1>6. ASSUME InnermostOpen(p.at, p.debug) PROVE InnermostOpen(p.at, p.debug)'
    <2>1. PICK j \in DOMAIN blocks : /\ OpenAt(j, p.at) /\ Same(blocks[j].entry, p.debug)
                                     /\ \A m \in DOMAIN blocks : m > j => ~OpenAt(m, p.at)
      BY <1>6 DEF InnermostOpen
    <2>2. j \in DOMAIN blocks' /\ OpenAt(j, p.at)' /\ Same(blocks'[j].entry, p.debug)
      BY <1>2, <2>1 DEF OpenAt
    <2>3. \A m \in DOMAIN blocks' : m > j => ~OpenAt(m, p.at)'
      BY <1>4, <2>1
    <2> QED
      BY <2>2, <2>3 DEF InnermostOpen
  <1> QED
    BY <1>2, <1>3, <1>5, <1>6 DEF Attributed

LEMMA AttributedPlaced ==
  ASSUME GenInv, Carried, Bounded, NEW p, p.at = chunk.size, p.debug = InForce,
         chunk.size < chunk'.size
  PROVE  Attributed(p)'
  <1>1. chunk.size \in Nat /\ DOMAIN blocks \subseteq Nat
    BY DEF GenInv, IsChunk, Opened
  <1>2. /\ chunk'.debug_entries = chunk.debug_entries
        /\ \A j \in DOMAIN blocks : j \in DOMAIN blocks' /\ blocks'[j].entry = blocks[j].entry
        /\ \A j \in DOMAIN blocks' : j \in DOMAIN blocks \/ blocks'[j].entry = NULL
    BY DEF Carried, SameEntries
  <1>3. NoneFrom(chunk'.debug_entries, 0, p.at)
    BY <1>1, <1>2, RegularCovers DEF Bounded, NoneFrom
  <1>4. CASE InForce = NULL /\ \A j \in DOMAIN blocks : blocks[j].entry = NULL
    <2>1. NoneOpen(p.at)'
      BY <1>2, <1>4 DEF NoneOpen, OpenAt
    <2> QED
      BY <1>3, <1>4, <2>1 DEF Attributed
  <1>5. CASE \E j \in DOMAIN blocks :
               /\ blocks[j].entry # NULL /\ InForce = blocks[j].entry
               /\ \A m \in DOMAIN blocks : m > j => blocks[m].entry = NULL
    <2>1. PICK j \in DOMAIN blocks :
            /\ blocks[j].entry # NULL /\ InForce = blocks[j].entry
            /\ \A m \in DOMAIN blocks : m > j => blocks[m].entry = NULL
      BY <1>5
    <2>2. OpenAt(j, p.at)' /\ j \in DOMAIN blocks' /\ Same(blocks'[j].entry, p.debug)
      BY <1>2, <2>1 DEF Bounded, OpenAt, Same
    <2>3. \A m \in DOMAIN blocks' : m > j => ~OpenAt(m, p.at)'
      BY <1>2, <2>1 DEF OpenAt
    <2>4. InnermostOpen(p.at, p.debug)'
      BY <2>2, <2>3 DEF InnermostOpen
    <2> QED
      BY <1>3, <2>1, <2>4 DEF Attributed
  <1> QED
    BY <1>4, <1>5, InForceFacts

LEMMA AttributedShut ==
  ASSUME GenInv, Shut, Bounded, chunk.size < Space, NEW p, p.at \in Nat, Attributed(p)
  PROVE  Attributed(p)'
  <1> DEFINE n == Len(blocks)
  <1>1. /\ chunk.size \in Nat /\ DOMAIN blocks \subseteq 1 .. n /\ n \in Nat
        /\ chunk.debug_entries \in Seq(DebugEntry)
    BY DEF GenInv, IsChunk, Opened
  <1>2. /\ chunk'.size = chunk.size /\ n \in DOMAIN blocks /\ p.at < chunk.size
        /\ \A j \in DOMAIN blocks : j < n => j \in DOMAIN blocks' /\ blocks'[j].entry = blocks[j].entry
        /\ \A j \in DOMAIN blocks' :
             j \in DOMAIN blocks /\ (j = n /\ blocks'[j].entry # NULL => blocks'[j].entry.ip = chunk.size)
    BY DEF Shut, Attributed
  <1> HIDE DEF n
  <1>3. ASSUME NEW j \in DOMAIN blocks', OpenAt(j, p.at)'
        PROVE  j \in DOMAIN blocks /\ j < n /\ OpenAt(j, p.at)
    <2>1. j # n
      BY <1>1, <1>2, <1>3 DEF OpenAt
    <2>2. j \in DOMAIN blocks /\ j < n
      BY <1>1, <1>2, <2>1
    <2> QED
      BY <1>2, <1>3, <2>2 DEF OpenAt
  <1>4. NoneOpen(p.at) => NoneOpen(p.at)'
    BY <1>3 DEF NoneOpen
  <1>5. ASSUME NEW j \in DOMAIN blocks, j < n, OpenAt(j, p.at), Same(blocks[j].entry, p.debug),
               \A m \in DOMAIN blocks : m > j => ~OpenAt(m, p.at)
        PROVE  InnermostOpen(p.at, p.debug)'
    <2>1. j \in DOMAIN blocks' /\ OpenAt(j, p.at)' /\ Same(blocks'[j].entry, p.debug)
      BY <1>2, <1>5 DEF OpenAt
    <2>2. \A m \in DOMAIN blocks' : m > j => ~OpenAt(m, p.at)'
      BY <1>3, <1>5
    <2> QED
      BY <2>1, <2>2 DEF InnermostOpen
  <1>6. CASE blocks[n].entry = NULL
    <2>1. chunk'.debug_entries = chunk.debug_entries
      BY <1>6 DEF Shut, n
    <2>2. ~OpenAt(n, p.at)
      BY <1>6 DEF OpenAt
    <2>3. InnermostOpen(p.at, p.debug) => InnermostOpen(p.at, p.debug)'
      <3> SUFFICES ASSUME InnermostOpen(p.at, p.debug) PROVE InnermostOpen(p.at, p.debug)'
        OBVIOUS
      <3>1. PICK j \in DOMAIN blocks : /\ OpenAt(j, p.at) /\ Same(blocks[j].entry, p.debug)
                                       /\ \A m \in DOMAIN blocks : m > j => ~OpenAt(m, p.at)
        BY DEF InnermostOpen
      <3>2. j < n
        BY <1>1, <2>2, <3>1
      <3> QED
        BY <1>5, <3>1, <3>2
    <2> QED
      BY <1>2, <1>4, <2>1, <2>3 DEF Attributed
  <1>7. CASE blocks[n].entry # NULL
    <2>1. PICK de : /\ chunk'.debug_entries = Append(chunk.debug_entries, de)
                    /\ de.start = blocks[n].entry.ip /\ de.end = DebugEnd(chunk.size)
                    /\ Same(de, blocks[n].entry)
      BY <1>7 DEF Shut, n
    <2>2. PICK des, last : des = chunk.debug_entries /\ last = Len(chunk.debug_entries) + 1
      OBVIOUS
    <2>3. PICK des1 : des1 = chunk'.debug_entries
      OBVIOUS
    <2>4. /\ DOMAIN des1 = DOMAIN des \cup {last} /\ \A k \in DOMAIN des : des1[k] = des[k] /\ k < last
          /\ des1[last] = de /\ DOMAIN des \subseteq Nat /\ last \in Nat /\ last > 0
      BY <1>1, <2>1, <2>2, <2>3, AppendElements
    <2>5. Covers(de, p.at) <=> OpenAt(n, p.at)
      <3>1. blocks[n].entry.ip \in Nat
        <4>1. blocks \in Seq(OpenBlock(chunk.capacity))
          BY DEF GenInv, Opened
        <4>2. blocks[n] \in OpenBlock(chunk.capacity)
          BY <1>2, <4>1, Elements
        <4> QED
          BY <1>7, <4>2 DEF OpenBlock, Entry
      <3>2. blocks[n].entry.ip <= chunk.size
        BY <1>2, <1>7 DEF Bounded
      <3> QED
        BY <1>1, <1>2, <1>7, <2>1, <3>1, <3>2, JustClosed DEF OpenAt
    <2>6. ASSUME NoneFrom(des, 0, p.at), ~OpenAt(n, p.at) PROVE NoneFrom(des1, 0, p.at)
      BY <2>4, <2>5, <2>6 DEF NoneFrom
    <2>7. CASE p.debug = NULL
      <3>1. NoneFrom(des, 0, p.at) /\ NoneOpen(p.at)
        BY <2>2, <2>7 DEF Attributed
      <3>2. ~OpenAt(n, p.at)
        BY <1>2, <3>1 DEF NoneOpen
      <3> QED
        BY <1>2, <1>4, <2>3, <2>6, <2>7, <3>1, <3>2 DEF Attributed
    <2>8. CASE p.debug # NULL /\ FirstFrom(des, 0, p.at, p.debug)
      <3>1. PICK k \in DOMAIN des : /\ k > 0 /\ Covers(des[k], p.at) /\ Same(des[k], p.debug)
                                    /\ \A m \in DOMAIN des : m > 0 /\ m < k => ~Covers(des[m], p.at)
        BY <2>8 DEF FirstFrom
      <3>2. k \in DOMAIN des1 /\ des1[k] = des[k]
        BY <2>4
      <3>3. \A m \in DOMAIN des1 : m > 0 /\ m < k => ~Covers(des1[m], p.at)
        <4>1. k < last /\ k \in Nat
          BY <2>4
        <4> QED
          BY <2>4, <3>1, <4>1
      <3>4. FirstFrom(des1, 0, p.at, p.debug)
        BY <3>1, <3>2, <3>3 DEF FirstFrom
      <3> QED
        BY <1>2, <2>3, <2>8, <3>4 DEF Attributed
    <2>9. CASE p.debug # NULL /\ NoneFrom(des, 0, p.at) /\ InnermostOpen(p.at, p.debug)
      <3>1. PICK j \in DOMAIN blocks : /\ OpenAt(j, p.at) /\ Same(blocks[j].entry, p.debug)
                                       /\ \A m \in DOMAIN blocks : m > j => ~OpenAt(m, p.at)
        BY <2>9 DEF InnermostOpen
      <3>2. CASE j = n
        <4>1. Covers(des1[last], p.at) /\ Same(des1[last], p.debug)
          BY <2>1, <2>4, <2>5, <3>1, <3>2 DEF Same
        <4>2. \A m \in DOMAIN des1 : m > 0 /\ m < last => ~Covers(des1[m], p.at)
          BY <2>4, <2>9 DEF NoneFrom
        <4>3. FirstFrom(des1, 0, p.at, p.debug)
          BY <2>4, <4>1, <4>2 DEF FirstFrom
        <4> QED
          BY <1>2, <2>3, <2>9, <4>3 DEF Attributed
      <3>3. CASE j # n
        <4>1. j < n
          BY <1>1, <3>3
        <4>2. ~OpenAt(n, p.at)
          BY <1>2, <3>1, <4>1
        <4>3. InnermostOpen(p.at, p.debug)'
          BY <1>5, <3>1, <4>1
        <4> QED
          BY <1>2, <2>3, <2>6, <2>9, <4>2, <4>3 DEF Attributed
      <3> QED
        BY <3>2, <3>3
    <2> QED
      BY <2>2, <2>7, <2>8, <2>9 DEF Attributed
  <1> QED
    BY <1>6, <1>7

LEMMA BoundedKept ==
  ASSUME GenInv, chunk'.size \in Nat, chunk.size < Space, Bounded, Carried \/ Shut
  PROVE  Bounded'
  <1>1. /\ chunk.size \in Nat /\ DOMAIN blocks \subseteq 1 .. Len(blocks) /\ Len(blocks) \in Nat
        /\ chunk.debug_entries \in Seq(DebugEntry)
    BY DEF GenInv, IsChunk, Opened
  <1>2. CASE Carried
    <2>1. /\ chunk'.debug_entries = chunk.debug_entries /\ chunk.size <= chunk'.size
          /\ \A j \in DOMAIN blocks' : j \in DOMAIN blocks \/ blocks'[j].entry = NULL
          /\ \A j \in DOMAIN blocks : blocks'[j].entry = blocks[j].entry
      BY <1>2 DEF Carried, SameEntries
    <2>2. \A de : Regular(de, chunk.size) => Regular(de, chunk'.size)
      BY <1>1, <2>1 DEF Regular
    <2>3. \A k \in DOMAIN chunk'.debug_entries : Regular(chunk'.debug_entries[k], chunk'.size)
      BY <2>1, <2>2 DEF Bounded
    <2>4. ASSUME NEW j \in DOMAIN blocks', blocks'[j].entry # NULL PROVE blocks'[j].entry.ip <= chunk'.size
      <3>1. j \in DOMAIN blocks /\ blocks'[j].entry = blocks[j].entry /\ blocks[j].entry # NULL
        BY <2>1, <2>4
      <3>2. blocks[j].entry.ip <= chunk.size
        BY <3>1 DEF Bounded
      <3>3. blocks[j].entry.ip \in Nat
        <4>1. blocks[j] \in OpenBlock(chunk.capacity)
          BY <3>1, Elements DEF GenInv, Opened
        <4> QED
          BY <3>1, <4>1 DEF OpenBlock, Entry
      <3> QED
        BY <1>1, <2>1, <3>1, <3>2, <3>3
    <2> QED
      BY <2>3, <2>4 DEF Bounded
  <1>3. CASE Shut
    <2> DEFINE n == Len(blocks)
    <2>1. /\ chunk'.size = chunk.size /\ n \in DOMAIN blocks
          /\ \A j \in DOMAIN blocks : j < n => blocks'[j].entry = blocks[j].entry
          /\ \A j \in DOMAIN blocks' :
               j \in DOMAIN blocks /\ (j = n /\ blocks'[j].entry # NULL => blocks'[j].entry.ip = chunk.size)
      BY <1>3 DEF Shut
    <2>2. ASSUME NEW j \in DOMAIN blocks', blocks'[j].entry # NULL PROVE blocks'[j].entry.ip <= chunk'.size
      <3>1. CASE j = n
        BY <1>1, <2>1, <2>2, <3>1
      <3>2. CASE j # n
        <4>1. j < n /\ j \in DOMAIN blocks
          BY <1>1, <2>1, <3>2
        <4> QED
          BY <2>1, <2>2, <4>1 DEF Bounded
      <3> QED
        BY <3>1, <3>2
    <2>3. \A k \in DOMAIN chunk'.debug_entries : Regular(chunk'.debug_entries[k], chunk'.size)
      <3>1. CASE blocks[n].entry = NULL
        BY <1>3, <2>1, <3>1 DEF Shut, Bounded
      <3>2. CASE blocks[n].entry # NULL
        <4>1. PICK de : /\ chunk'.debug_entries = Append(chunk.debug_entries, de)
                        /\ de.start = blocks[n].entry.ip /\ de.end = DebugEnd(chunk.size)
          BY <1>3, <3>2 DEF Shut
        <4>2. blocks[n].entry.ip \in Nat
          <5>1. blocks[n] \in OpenBlock(chunk.capacity)
            BY <2>1, Elements DEF GenInv, Opened
          <5> QED
            BY <3>2, <5>1 DEF OpenBlock, Entry
        <4>3. blocks[n].entry.ip <= chunk.size
          BY <2>1, <3>2 DEF Bounded
        <4>4. Regular(de, chunk.size)
          BY <1>1, <4>1, <4>2, <4>3, JustClosed
        <4>5. /\ DOMAIN chunk'.debug_entries = DOMAIN chunk.debug_entries \cup {Len(chunk.debug_entries) + 1}
              /\ \A k \in DOMAIN chunk.debug_entries : chunk'.debug_entries[k] = chunk.debug_entries[k]
              /\ chunk'.debug_entries[Len(chunk.debug_entries) + 1] = de
          BY <1>1, <4>1, AppendElements
        <4> QED
          BY <2>1, <4>4, <4>5 DEF Bounded
      <3> QED
        BY <3>1, <3>2
    <2> QED
      BY <2>2, <2>3 DEF Bounded
  <1> QED
    BY <1>2, <1>3

\* A chunk is done when its last block is.
LEMMA ChunkBlocks ==
  ASSUME GenInv, Generate
  PROVE  pc' \in {"chunk", "loading"} => blocks' = <<>>
  <1> SUFFICES ASSUME pc' \in {"chunk", "loading"} PROVE blocks' = <<>>
    OBVIOUS
  <1>0. pc' = "chunk"
    BY GenerateOwnChunk
  <1>1. \A kinds : (Building(kinds) => pc = "build") /\ (Processing(kinds) => pc = "process")
    BY DEF Building, Processing
  <1>2. \A item, marks : PushItem(item, marks) => pc' = pc
    BY DEF PushItem
  <1>3. \A chnk, blk, what : Processed(chnk, blk, what) => pc' = pc
    BY DEF Processed
  <1>4. PushBlock \/ LeaveBlock \/ SetDebugLine \/ SetDebugEntry \/ PushOp => pc' = "build"
    BY <1>1, <1>2, Zenon DEF PushBlock, LeaveBlock, SetDebugLine, SetDebugEntry, PushOp
  <1>5. SetDebugFlags \/ GenChunk => pc' \in {"build", "exited", "process"}
    BY <1>1 DEF SetDebugFlags, GenChunk
  <1>6. DebugItem \/ LabelItem \/ OpItem => pc' = "process"
    BY <1>1, <1>3, Zenon DEF DebugItem, LabelItem, OpItem
  <1>7. BlockItem \/ UnknownItem \/ EndOfItems => pc' \in {"process", "exited", "end"}
    BY <1>1 DEF BlockItem, UnknownItem, EndOfItems
  <1>8. PatchLabel => pc' = "end"
    BY DEF PatchLabel
  <1>9. CloseBlock
    BY <1>0, <1>4, <1>5, <1>6, <1>7, <1>8 DEF Generate
  <1>10. pc = "end" /\ blocks' = Pop(blocks) /\ Len(blocks) = 1
    BY <1>0, <1>9 DEF CloseBlock
  <1>11. blocks \in Seq(OpenBlock(chunk.capacity)) /\ blocks # <<>>
    BY <1>10 DEF GenInv, Opened
  <1>12. Pop(blocks) \in Seq(OpenBlock(chunk.capacity)) /\ Len(Pop(blocks)) = 0
    BY <1>10, <1>11, PopFacts
  <1> QED
    BY <1>10, <1>12

LEMMA LocatedKept ==
  ASSUME GenInv, Located, Generate
  PROVE  Located'
  <1>1. chunk.size \in Nat /\ chunk'.size \in Nat
    BY GenerateStep DEF GenInv, IsChunk
  <1>2. PICK S : placed \in Seq(S)
    BY DEF Located
  <1>3. pc' \in {"chunk", "loading"} => blocks' = <<>>
    BY ChunkBlocks
  <1>4. CASE Begun
    <2>1. placed' = <<>> /\ chunk'.debug_entries = <<>> /\ DOMAIN blocks' = {1} /\ blocks'[1].entry = NULL
      BY <1>4 DEF Begun, NewChunk, NewBlock
    <2>2. Bounded'
      BY <2>1 DEF Bounded
    <2> QED
      BY <1>3, <2>1, <2>2 DEF Located
  <1>5. CASE Carried \/ Shut
    <2>1. chunk.size <= chunk'.size
      BY <1>1, <1>5 DEF Carried, Shut
    <2>2. chunk'.size < Space => chunk.size < Space
      BY <1>1, <2>1, GeneratorAssumption
    <2>3. chunk'.size < Space => Bounded'
      BY <1>1, <1>5, <2>2, BoundedKept DEF Located
    <2>4. ASSUME NEW i \in DOMAIN placed, placed[i].what = "op", chunk'.size < Space
          PROVE  Attributed(placed[i]) /\ \A p : p = placed[i] => Attributed(p)'
      <3>1. PICK p : p = placed[i]
        OBVIOUS
      <3>2. Attributed(p) /\ p.at \in Nat /\ Bounded /\ chunk.size < Space
        BY <2>2, <2>4, <3>1 DEF Located
      <3>3. Attributed(p)'
        BY <1>1, <1>5, <3>2, AttributedCarried, AttributedShut
      <3> QED
        BY <3>1, <3>2, <3>3
    <2>5. CASE placed' = placed
      <3>1. ASSUME NEW i \in DOMAIN placed', placed'[i].what = "op", chunk'.size < Space
            PROVE  Attributed(placed[i])'
        <4>1. PICK p : p = placed[i]
          OBVIOUS
        <4>2. Attributed(p)'
          BY <2>4, <2>5, <3>1, <4>1
        <4>3. p = placed'[i]
          BY <2>5, <4>1
        <4> QED
          BY <4>2, <4>3 DEF Attributed, NoneOpen, InnermostOpen, OpenAt
      <3> QED
        BY <1>3, <2>3, <2>5, <3>1 DEF Located
    <2>6. ASSUME NEW p, placed' = Append(placed, p),
                 \/ p.what # "op"
                 \/ /\ NewOp /\ Carried /\ chunk.size < chunk'.size
                    /\ p.at = chunk.size /\ p.debug = InForce
          PROVE  Located'
      <3>1. /\ placed' \in Seq(S \cup {p}) /\ DOMAIN placed' = DOMAIN placed \cup {Len(placed) + 1}
            /\ \A i \in DOMAIN placed : placed'[i] = placed[i]
            /\ placed'[Len(placed) + 1] = p
        BY <1>2, <2>6, AppendElements
      <3>2. \A i \in DOMAIN placed' : placed'[i].what = "op" => placed'[i].at \in Nat
        BY <1>1, <2>6, <3>1 DEF Located
      <3>3. ASSUME NEW i \in DOMAIN placed', placed'[i].what = "op", chunk'.size < Space
            PROVE  Attributed(placed[i])'
        <4>1. PICK q : q = placed'[i]
          OBVIOUS
        <4>2. CASE i \in DOMAIN placed
          <5>1. Attributed(q)'
            BY <2>4, <3>1, <3>3, <4>1, <4>2
          <5> QED
            BY <4>1, <5>1 DEF Attributed, NoneOpen, InnermostOpen, OpenAt
        <4>3. CASE i = Len(placed) + 1
          <5>1. q = p /\ p.what = "op"
            BY <3>1, <3>3, <4>1, <4>3
          <5>2. Bounded
            BY <2>2, <3>3 DEF Located
          <5>3. Attributed(p)'
            BY <2>6, <5>1, <5>2, AttributedPlaced
          <5> QED
            BY <4>1, <5>1, <5>3 DEF Attributed, NoneOpen, InnermostOpen, OpenAt
        <4> QED
          BY <3>1, <4>2, <4>3
      <3> QED
        BY <1>3, <2>3, <3>1, <3>2, <3>3 DEF Located
    <2>7. CASE \E p : placed' = Append(placed, p) /\ p.what # "op"
      BY <2>6, <2>7
    <2>8. CASE Carried /\ NewOp
      BY <2>6, <2>8 DEF NewOp
    <2> QED
      BY <1>5, <2>5, <2>7, <2>8 DEF Carried, Shut, NoOp
  <1> QED
    BY <1>4, <1>5, DebugEffect

\* The debug entries of the chunk being loaded that are in the VM's array.
Applied == IF part = "debug" THEN done ELSE 0
\* A backtrace finds the debug item of an instruction of a loaded chunk; for the chunk
\* being loaded, in the VM's entries and then those of the chunk still to come.
Reported(m, p) ==
  LET a == loaded[m].start + p.at
      des == chunk.debug_entries
  IN /\ loaded[m].start \in Nat /\ p.at \in Nat
     /\ IF pc = "loading" /\ m = Len(loaded)
        THEN IF p.debug = NULL THEN NoneFrom(debug_entries, 0, a) /\ NoneFrom(des, Applied, p.at)
             ELSE \/ FirstFrom(debug_entries, 0, a, p.debug)
                  \/ NoneFrom(debug_entries, 0, a) /\ FirstFrom(des, Applied, p.at, p.debug)
        ELSE /\ a < (IF pc = "loading" THEN start ELSE program_size)
             /\ IF p.debug = NULL THEN NoneFrom(debug_entries, 0, a)
                ELSE FirstFrom(debug_entries, 0, a, p.debug)
Fits == program_size < Space /\ ~CoversAll
Behind == \A k \in DOMAIN debug_entries :
            debug_entries[k].end = Space - 1 \/ debug_entries[k].end < program_size
Debugging ==
  Fits => /\ Behind
          /\ \A m \in DOMAIN loaded : \A i \in DOMAIN loaded[m].placed :
               loaded[m].placed[i].what = "op" => Reported(m, loaded[m].placed[i])

LEMMA DebuggingGives ==
  ASSUME LInv, Debugging, program_size < Space
  PROVE  DebugFound
  <1> SUFFICES ASSUME Settled, ~CoversAll, NEW m \in DOMAIN loaded,
                      NEW i \in DOMAIN loaded[m].placed, loaded[m].placed[i].what = "op"
               PROVE  LET want == loaded[m].placed[i].debug
                          got == FindDebugEntry(loaded[m].start + loaded[m].placed[i].at)
                      IN IF want = NULL THEN got = NULL
                         ELSE /\ got # NULL
                              /\ got.line = want.line /\ got.name = want.name
                              /\ got.flags = want.flags
    BY Zenon DEF DebugFound, Ops
  <1>1. PICK p, a : p = loaded[m].placed[i] /\ a = loaded[m].start + p.at
    OBVIOUS
  <1>2. IF p.debug = NULL THEN NoneFrom(debug_entries, 0, a)
        ELSE FirstFrom(debug_entries, 0, a, p.debug)
    BY <1>1 DEF Debugging, Fits, Reported, Settled
  <1>3. debug_entries \in Seq(LoadedEntry)
    BY DEF LInv, Debugged
  <1>4. \A k \in DOMAIN debug_entries : debug_entries[k].end # Space - 1 /\ k \in Nat /\ k > 0
    BY <1>3 DEF CoversAll
  <1> DEFINE found == {k \in DOMAIN debug_entries :
                         debug_entries[k].start <= a /\ a <= debug_entries[k].end}
  <1>5. FindDebugEntry(a) = IF found = {} THEN NULL
                            ELSE debug_entries[CHOOSE k \in found : \A j \in found : k <= j]
    BY DEF FindDebugEntry
  <1>6. \A k \in DOMAIN debug_entries : k \in found <=> Covers(debug_entries[k], a)
    BY <1>4 DEF Covers
  <1>7. found \subseteq DOMAIN debug_entries
    OBVIOUS
  <1> HIDE DEF found
  <1>8. CASE p.debug = NULL
    <2>1. found = {}
      BY <1>2, <1>4, <1>6, <1>7, <1>8 DEF NoneFrom
    <2> QED
      BY <1>1, <1>5, <1>8, <2>1
  <1>9. CASE p.debug # NULL
    <2>1. PICK k \in DOMAIN debug_entries :
            /\ Covers(debug_entries[k], a) /\ Same(debug_entries[k], p.debug)
            /\ \A j \in DOMAIN debug_entries : j > 0 /\ j < k => ~Covers(debug_entries[j], a)
      BY <1>2, <1>9 DEF FirstFrom
    <2>2. k \in found /\ \A j \in found : k <= j
      BY <1>4, <1>6, <1>7, <2>1
    <2>3. (CHOOSE x \in found : \A j \in found : x <= j) = k
      <3>1. PICK c : c = CHOOSE x \in found : \A j \in found : x <= j
        OBVIOUS
      <3>2. c \in found /\ \A j \in found : c <= j
        BY <2>2, <3>1, Zenon
      <3>3. c <= k /\ k <= c /\ c \in Nat /\ k \in Nat
        BY <1>4, <1>7, <2>2, <3>2
      <3>4. c = k
        BY <3>3
      <3> QED
        BY <3>1, <3>4
    <2>4. FindDebugEntry(a) = debug_entries[k]
      BY <1>5, <2>2, <2>3
    <2>5. debug_entries[k] \in LoadedEntry
      BY <1>3, Elements
    <2>6. LoadedEntry \subseteq [start : Nat, end : Nat, line : Nat, name : Names \cup {NULL}, flags : Nat]
      BY GeneratorAssumption DEF LoadedEntry
    <2>7. debug_entries[k] # NULL
      BY <2>5, <2>6, LoaderAssumption
    <2> QED
      BY <1>1, <1>9, <2>1, <2>4, <2>7 DEF Same
  <1> QED
    BY <1>8, <1>9

LEMMA ShiftedFacts ==
  ASSUME start \in Nat, NEW size \in Nat, start + size < Space, NEW de \in DebugEntry, Regular(de, size)
  PROVE  /\ \A want : Same(de, want) => Same(Shifted(de), want)
         /\ \A a \in Nat : a < start => ~Covers(Shifted(de), a)
         /\ \A at \in Nat : Covers(Shifted(de), start + at) <=> Covers(de, at)
         /\ Shifted(de).end = Space - 1 \/ Shifted(de).end < start + size
  <1>1. Space \in Nat \ {0} /\ \A s \in Nat \ {0} : \A x \in 0 .. s - 1 : x % s = x /\ (x + s) % s = x
    BY GeneratorAssumption
  <1>2. /\ Shifted(de).start = (de.start + start) % Space /\ Shifted(de).end = (de.end + start) % Space
        /\ Shifted(de).line = de.line /\ Shifted(de).name = de.name /\ Shifted(de).flags = de.flags
    BY SMTT(30) DEF Shifted, DebugEntry
  <1>3. PICK s, e : s = de.start /\ e = de.end
    OBVIOUS
  <1>4. s \in Nat /\ e \in Nat /\ s <= size /\ (e = Space - 1 \/ e < size)
    BY <1>3 DEF Regular
  <1>5. PICK s1, e1 : s1 = Shifted(de).start /\ e1 = Shifted(de).end
    OBVIOUS
  <1>6. s1 = s + start
    <2>1. s + start \in 0 .. Space - 1
      BY <1>1, <1>4
    <2> QED
      BY <1>1, <1>2, <1>3, <1>5, <2>1
  <1>7. \A want : Same(de, want) => Same(Shifted(de), want)
    BY <1>2 DEF Same
  <1>8. CASE e < size
    <2>1. e + start \in 0 .. Space - 1
      BY <1>1, <1>4, <1>8
    <2>2. e1 = e + start
      BY <1>1, <1>2, <1>3, <1>5, <2>1
    <2>3. e1 # Space - 1 /\ e # Space - 1 /\ e1 < start + size
      BY <1>1, <1>4, <1>8, <2>2
    <2> QED
      BY <1>3, <1>4, <1>5, <1>6, <1>7, <2>2, <2>3 DEF Covers
  <1>9. CASE e = Space - 1
    <2>1. CASE start = 0
      <3>1. e + start \in 0 .. Space - 1 /\ e + start = Space - 1
        BY <1>1, <1>9, <2>1
      <3>2. e1 = Space - 1
        BY <1>1, <1>2, <1>3, <1>5, <3>1
      <3> QED
        BY <1>3, <1>5, <1>7, <1>9, <3>2 DEF Covers
    <2>2. CASE start # 0
      <3>1. start - 1 \in 0 .. Space - 1 /\ e + start = (start - 1) + Space
        BY <1>1, <1>9, <2>2
      <3>2. e1 = start - 1
        BY <1>1, <1>2, <1>3, <1>5, <3>1
      <3>3. e1 < start /\ e1 < start + size /\ s1 >= start
        BY <1>4, <1>6, <3>2
      <3> QED
        BY <1>3, <1>4, <1>5, <1>6, <1>7, <1>9, <3>2, <3>3 DEF Covers
    <2> QED
      BY <2>1, <2>2
  <1> QED
    BY <1>4, <1>8, <1>9

\* What adds no debug entry and loads no chunk.
LEMMA DebuggingSame ==
  ASSUME Debugging, UNCHANGED <<loaded, debug_entries, program_size, start>>,
         pc' = "loading" <=> pc = "loading",
         pc = "loading" => chunk' = chunk /\ Applied' = Applied
  PROVE  Debugging'
  <1>1. Fits' => Fits
    BY DEF Fits, CoversAll
  <1>2. Behind => Behind'
    BY DEF Behind
  <1>3. ASSUME NEW m, NEW p, Reported(m, p) PROVE Reported(m, p)'
    <2>1. CASE pc = "loading"
      BY <1>3, <2>1 DEF Reported
    <2>2. CASE pc # "loading"
      BY <1>3, <2>2 DEF Reported
    <2> QED
      BY <2>1, <2>2
  <1>4. ASSUME Fits, NEW m \in DOMAIN loaded', NEW i \in DOMAIN loaded'[m].placed,
               loaded'[m].placed[i].what = "op"
        PROVE  Reported(m, loaded[m].placed[i])'
    <2>1. PICK p : p = loaded[m].placed[i]
      OBVIOUS
    <2>2. Reported(m, p)
      BY <1>4, <2>1 DEF Debugging
    <2>3. Reported(m, p)'
      BY <1>3, <2>2
    <2> QED
      BY <2>1, <2>3 DEF Reported
  <1> QED
    BY <1>1, <1>2, <1>4 DEF Debugging

\* Every step but the generator's leaves the chunk and what was placed alone.
LEMMA LocatedSame ==
  ASSUME Located, UNCHANGED <<chunk, placed, blocks>>,
         pc' \in {"chunk", "loading"} => pc \in {"chunk", "loading"}
  PROVE  Located'
  <1>1. Bounded => Bounded'
    BY DEF Bounded
  <1>2. \A p : Attributed(p) => Attributed(p)'
    BY DEF Attributed, NoneOpen, InnermostOpen, OpenAt
  <1>3. ASSUME chunk.size < Space, NEW i \in DOMAIN placed', placed'[i].what = "op"
        PROVE  Attributed(placed[i])'
    <2>1. PICK p : p = placed[i]
      OBVIOUS
    <2>2. Attributed(p)'
      BY <1>2, <1>3, <2>1 DEF Located
    <2> QED
      BY <2>1, <2>2 DEF Attributed, NoneOpen, InnermostOpen, OpenAt
  <1> QED
    BY <1>1, <1>3 DEF Located

LEMMA DebuggingLoadChunk ==
  ASSUME LInv, Present, Located, Debugging, LoadChunk
  PROVE  Debugging'
  <1> DEFINE l == [start |-> program_size, placed |-> placed]
  <1>1. /\ pc = "chunk" /\ start' = program_size /\ pc' = "loading" /\ part' = "symbols" /\ done' = 0
        /\ program_size' = program_size + chunk.size
        /\ loaded' = Append(loaded, l)
        /\ UNCHANGED <<chunk, placed, blocks, debug_entries>>
    BY DEF LoadChunk
  <1>2. l.start = program_size /\ l.placed = placed
    OBVIOUS
  <1> HIDE DEF l
  <1>3. PICK S : loaded \in Seq(S)
    BY DEF Present
  <1>4. /\ DOMAIN loaded' = DOMAIN loaded \cup {Len(loaded) + 1}
        /\ \A m \in DOMAIN loaded : loaded'[m] = loaded[m]
        /\ loaded'[Len(loaded) + 1] = l /\ Len(loaded') = Len(loaded) + 1
        /\ Len(loaded) + 1 \notin DOMAIN loaded
    BY <1>1, <1>3, AppendElements
  <1>5. program_size \in Nat /\ chunk.size \in Nat /\ Space \in Nat
    BY GeneratorAssumption DEF LInv, Programmed, GenInv, IsChunk
  <1>6. SUFFICES ASSUME Fits' PROVE Behind' /\ \A m \in DOMAIN loaded' : \A i \in DOMAIN loaded'[m].placed :
                                      loaded'[m].placed[i].what = "op" => Reported(m, loaded[m].placed[i])'
    BY DEF Debugging
  <1>7. Fits /\ chunk.size < Space /\ program_size <= program_size'
    BY <1>1, <1>5, <1>6 DEF Fits, CoversAll
  <1>8. Behind
    BY <1>7 DEF Debugging
  <1>a. \A k \in DOMAIN debug_entries : debug_entries[k].end \in Nat
    <2>1. debug_entries \in Seq(LoadedEntry)
      BY DEF LInv, Debugged
    <2>2. \A k \in DOMAIN debug_entries : debug_entries[k] \in LoadedEntry
      BY <2>1, Elements
    <2> QED
      BY <2>2 DEF LoadedEntry
  <1>9. Behind'
    BY <1>1, <1>5, <1>7, <1>8, <1>a DEF Behind
  <1>10. Applied' = 0
    BY <1>1 DEF Applied
  <1>11. ASSUME NEW m \in DOMAIN loaded, NEW i \in DOMAIN loaded[m].placed, loaded[m].placed[i].what = "op"
         PROVE  Reported(m, loaded[m].placed[i])'
    <2>1. PICK p : p = loaded[m].placed[i]
      OBVIOUS
    <2>2. Reported(m, p)
      BY <1>7, <1>11, <2>1 DEF Debugging
    <2>3. loaded'[m] = loaded[m] /\ m # Len(loaded')
      BY <1>4
    <2>4. Reported(m, p)'
      BY <1>1, <2>2, <2>3 DEF Reported
    <2> QED
      BY <2>1, <2>3, <2>4 DEF Reported
  <1>12. ASSUME NEW i \in DOMAIN placed, placed[i].what = "op", NEW m, m = Len(loaded) + 1
         PROVE  \A p : p = placed[i] => Reported(m, p)'
    <2>1. PICK p, a : p = placed[i] /\ a = program_size + p.at
      OBVIOUS
    <2>2. Attributed(p) /\ p.at \in Nat /\ blocks = <<>> /\ Bounded
      BY <1>1, <1>7, <1>12, <2>1 DEF Located
    <2>3. NoneFrom(debug_entries, 0, a)
      <3>1. ASSUME NEW k \in DOMAIN debug_entries PROVE ~Covers(debug_entries[k], a)
        <4>1. debug_entries[k].end = Space - 1 \/ debug_entries[k].end < a
          BY <1>5, <1>8, <1>a, <2>1, <2>2 DEF Behind
        <4>2. a \in Nat
          BY <1>5, <2>1, <2>2
        <4> QED
          BY <1>a, <4>1, <4>2 DEF Covers
      <3> QED
        BY <3>1 DEF NoneFrom
    <2>4. IF p.debug = NULL THEN NoneFrom(chunk.debug_entries, 0, p.at)
          ELSE FirstFrom(chunk.debug_entries, 0, p.at, p.debug)
      <3>1. ~InnermostOpen(p.at, p.debug)
        BY <2>2 DEF InnermostOpen
      <3> QED
        BY <2>2, <3>1 DEF Attributed
    <2>5. loaded'[m].start = program_size /\ m = Len(loaded')
      BY <1>2, <1>4, <1>12
    <2>6. Reported(m, p)'
      BY <1>1, <1>5, <1>10, <2>1, <2>2, <2>3, <2>4, <2>5 DEF Reported
    <2> QED
      BY <2>1, <2>6
  <1>13. ASSUME NEW m \in DOMAIN loaded', NEW i \in DOMAIN loaded'[m].placed,
                loaded'[m].placed[i].what = "op"
         PROVE  Reported(m, loaded[m].placed[i])'
    <2>1. CASE m \in DOMAIN loaded
      BY <1>4, <1>11, <1>13, <2>1
    <2>2. CASE m = Len(loaded) + 1
      <3>1. PICK p : p = loaded'[m].placed[i]
        OBVIOUS
      <3>2. loaded'[m].placed = placed
        BY <1>2, <1>4, <2>2
      <3>3. Reported(m, p)'
        BY <1>12, <1>13, <2>2, <3>1, <3>2
      <3> QED
        BY <3>1, <3>3 DEF Reported
    <2> QED
      BY <1>4, <2>1, <2>2
  <1> QED
    BY <1>9, <1>13

LEMMA DebuggingEntry ==
  ASSUME LInv, Present, Located, Debugging, LoadDebugEntry
  PROVE  Debugging'
  <1>1. PICK de, e : de = chunk.debug_entries[done + 1] /\ e = Shifted(de)
    OBVIOUS
  <1>2. /\ Applying("debug", chunk.debug_entries) /\ chunk.debug_entries \in Seq(DebugEntry)
    BY DEF LoadDebugEntry, LInv, GenInv, IsChunk
  <1>3. /\ done + 1 \in DOMAIN chunk.debug_entries /\ de \in DebugEntry
        /\ pc = "loading" /\ part = "debug" /\ done' = done + 1 /\ done \in Nat
    BY <1>1, <1>2, NextEntry DEF LInv, Parted
  <1>4. /\ debug_entries' = Append(debug_entries, e)
        /\ UNCHANGED <<chunk, pc, part, start, loaded, program_size>>
    BY <1>1 DEF LoadDebugEntry, genVars
  <1>5. PICK last, es : last = Len(debug_entries) + 1 /\ es = debug_entries'
    OBVIOUS
  <1>6. debug_entries \in Seq(LoadedEntry)
    BY DEF LInv, Debugged
  <1>7. /\ DOMAIN es = DOMAIN debug_entries \cup {last}
        /\ \A k \in DOMAIN debug_entries : es[k] = debug_entries[k] /\ k < last /\ k \in Nat
        /\ es[last] = e /\ last \in Nat /\ last > 0
    BY <1>4, <1>5, <1>6, AppendElements
  <1>8. Applied = done /\ Applied' = done + 1
    BY <1>3, <1>4 DEF Applied
  <1>9. SUFFICES ASSUME Fits' PROVE Behind' /\ \A m \in DOMAIN loaded' : \A i \in DOMAIN loaded'[m].placed :
                                      loaded'[m].placed[i].what = "op" => Reported(m, loaded[m].placed[i])'
    BY DEF Debugging
  <1>10. Fits
    <2>1. CoversAll => CoversAll'
      BY <1>5, <1>7 DEF CoversAll
    <2> QED
      BY <1>4, <1>9, <2>1 DEF Fits
  <1>11. /\ start \in Nat /\ chunk.size \in Nat /\ start + chunk.size <= program_size
         /\ program_size \in Nat /\ Space \in Nat /\ program_size < Space
    BY <1>3, <1>10, GeneratorAssumption DEF LInv, Programmed, GenInv, IsChunk, Fits
  <1>12. chunk.size < Space /\ start + chunk.size < Space
    BY <1>11
  <1>13. Regular(de, chunk.size)
    BY <1>1, <1>3, <1>12 DEF Located, Bounded
  <1>14. /\ \A want : Same(de, want) => Same(e, want)
         /\ \A a \in Nat : a < start => ~Covers(e, a)
         /\ \A at \in Nat : Covers(e, start + at) <=> Covers(de, at)
         /\ e.end = Space - 1 \/ e.end < start + chunk.size
    BY <1>1, <1>3, <1>11, <1>12, <1>13, ShiftedFacts
  <1>15. Behind'
    <2>1. e.end = Space - 1 \/ e.end < program_size
      <3>1. de.end \in Nat
        BY <1>3 DEF DebugEntry
      <3>2. e.end \in Nat
        BY <1>1, <1>3, <3>1, <1>11, GeneratorAssumption DEF Shifted, DebugEntry
      <3> QED
        BY <1>11, <1>14, <3>2
    <2>2. Behind
      BY <1>10 DEF Debugging
    <2> QED
      BY <1>4, <1>5, <1>7, <2>1, <2>2 DEF Behind
  <1>16. ASSUME NEW a, NEW want, FirstFrom(debug_entries, 0, a, want) PROVE FirstFrom(es, 0, a, want)
    <2>1. PICK k \in DOMAIN debug_entries :
            /\ k > 0 /\ Covers(debug_entries[k], a) /\ Same(debug_entries[k], want)
            /\ \A m \in DOMAIN debug_entries : m > 0 /\ m < k => ~Covers(debug_entries[m], a)
      BY <1>16 DEF FirstFrom
    <2>2. k \in DOMAIN es /\ es[k] = debug_entries[k] /\ k < last /\ k \in Nat
      BY <1>7
    <2>3. \A m \in DOMAIN es : m > 0 /\ m < k => ~Covers(es[m], a)
      BY <1>7, <2>1, <2>2
    <2> QED
      BY <2>1, <2>2, <2>3 DEF FirstFrom
  <1>17. ASSUME NEW a, NoneFrom(debug_entries, 0, a), ~Covers(e, a) PROVE NoneFrom(es, 0, a)
    BY <1>7, <1>17 DEF NoneFrom
  <1>18. ASSUME NEW m \in DOMAIN loaded', NEW i \in DOMAIN loaded'[m].placed,
                loaded'[m].placed[i].what = "op"
         PROVE  Reported(m, loaded[m].placed[i])'
    <2>1. PICK p, a : p = loaded[m].placed[i] /\ a = loaded[m].start + p.at
      OBVIOUS
    <2>2. Reported(m, p)
      BY <1>4, <1>10, <1>18, <2>1 DEF Debugging
    <2>3. loaded[m].start \in Nat /\ p.at \in Nat /\ a \in Nat
      BY <2>1, <2>2 DEF Reported
    <2>4. CASE m # Len(loaded)
      <3>1. /\ a < start
            /\ IF p.debug = NULL THEN NoneFrom(debug_entries, 0, a)
               ELSE FirstFrom(debug_entries, 0, a, p.debug)
        BY <1>3, <2>1, <2>2, <2>4 DEF Reported
      <3>2. IF p.debug = NULL THEN NoneFrom(es, 0, a) ELSE FirstFrom(es, 0, a, p.debug)
        BY <1>14, <1>16, <1>17, <2>3, <3>1
      <3>3. Reported(m, p)'
        BY <1>3, <1>4, <1>5, <2>1, <2>3, <2>4, <3>1, <3>2 DEF Reported
      <3> QED
        BY <1>4, <2>1, <3>3 DEF Reported
    <2>5. CASE m = Len(loaded)
      <3>1. a = start + p.at
        BY <1>3, <2>1, <2>5 DEF Present
      <3>2. PICK des : des = chunk.debug_entries
        OBVIOUS
      <3>3. DOMAIN des \subseteq Nat /\ done + 1 \in DOMAIN des /\ des[done + 1] = de
        BY <1>1, <1>2, <1>3, <3>2
      <3>4. \A k \in DOMAIN des : k > done <=> (k = done + 1 \/ k > done + 1)
        BY <1>3, <3>3
      <3>5. Covers(e, a) <=> Covers(de, p.at)
        BY <1>14, <2>3, <3>1
      <3>6. CASE p.debug = NULL
        <4>1. NoneFrom(debug_entries, 0, a) /\ NoneFrom(des, done, p.at)
          BY <1>3, <1>8, <2>1, <2>2, <2>5, <3>2, <3>6 DEF Reported
        <4>2. ~Covers(e, a) /\ NoneFrom(des, done + 1, p.at)
          BY <3>3, <3>4, <3>5, <4>1 DEF NoneFrom
        <4>3. NoneFrom(es, 0, a)
          BY <1>17, <4>1, <4>2
        <4>4. Reported(m, p)'
          BY <1>3, <1>4, <1>5, <1>8, <2>1, <2>3, <2>5, <3>2, <3>6, <4>2, <4>3 DEF Reported
        <4> QED
          BY <1>4, <2>1, <4>4 DEF Reported
      <3>7. CASE p.debug # NULL
        <4>1. \/ FirstFrom(debug_entries, 0, a, p.debug)
              \/ NoneFrom(debug_entries, 0, a) /\ FirstFrom(des, done, p.at, p.debug)
          BY <1>3, <1>8, <2>1, <2>2, <2>5, <3>2, <3>7 DEF Reported
        <4>2. \/ FirstFrom(es, 0, a, p.debug)
              \/ NoneFrom(es, 0, a) /\ FirstFrom(des, done + 1, p.at, p.debug)
          <5>1. CASE FirstFrom(debug_entries, 0, a, p.debug)
            BY <1>16, <5>1
          <5>2. CASE NoneFrom(debug_entries, 0, a) /\ FirstFrom(des, done, p.at, p.debug)
            <6>1. PICK k \in DOMAIN des :
                    /\ k > done /\ Covers(des[k], p.at) /\ Same(des[k], p.debug)
                    /\ \A j \in DOMAIN des : j > done /\ j < k => ~Covers(des[j], p.at)
              BY <5>2 DEF FirstFrom
            <6>2. CASE k = done + 1
              <7>1. Covers(es[last], a) /\ Same(es[last], p.debug)
                BY <1>7, <1>14, <3>3, <3>5, <6>1, <6>2
              <7>2. \A j \in DOMAIN es : j > 0 /\ j < last => ~Covers(es[j], a)
                BY <1>7, <5>2 DEF NoneFrom
              <7> QED
                BY <1>7, <7>1, <7>2 DEF FirstFrom
            <6>3. CASE k # done + 1
              <7>1. k > done + 1 /\ done + 1 < k
                BY <1>3, <3>3, <3>4, <6>1, <6>3
              <7>2. ~Covers(e, a)
                BY <1>3, <3>3, <3>4, <3>5, <6>1, <7>1
              <7>3. FirstFrom(des, done + 1, p.at, p.debug)
                BY <3>4, <6>1, <7>1 DEF FirstFrom
              <7> QED
                BY <1>17, <5>2, <7>2, <7>3
            <6> QED
              BY <6>2, <6>3
          <5> QED
            BY <4>1, <5>1, <5>2
        <4>3. Reported(m, p)'
          BY <1>3, <1>4, <1>5, <1>8, <2>1, <2>3, <2>5, <3>2, <3>7, <4>2 DEF Reported
        <4> QED
          BY <1>4, <2>1, <4>3 DEF Reported
      <3> QED
        BY <3>6, <3>7
    <2> QED
      BY <2>4, <2>5
  <1> QED
    BY <1>15, <1>18

LEMMA DebuggingLoaded ==
  ASSUME LInv, Present, Located, Debugging, Loaded
  PROVE  Debugging'
  <1>1. /\ pc = "loading" /\ part = "debug" /\ done = Len(chunk.debug_entries) /\ pc' # "loading"
        /\ UNCHANGED <<chunk, start, loaded, program_size, debug_entries>>
    BY DEF Loaded
  <1>2. Applied = Len(chunk.debug_entries)
    BY <1>1 DEF Applied
  <1>3. chunk.debug_entries \in Seq(DebugEntry)
    BY DEF LInv, GenInv, IsChunk
  <1>4. SUFFICES ASSUME Fits PROVE Behind' /\ \A m \in DOMAIN loaded' : \A i \in DOMAIN loaded'[m].placed :
                                      loaded'[m].placed[i].what = "op" => Reported(m, loaded[m].placed[i])'
    BY <1>1 DEF Debugging, Fits, CoversAll
  <1>5. Behind'
    BY <1>1, <1>4 DEF Debugging, Behind
  <1>6. /\ start \in Nat /\ chunk.size \in Nat /\ start + chunk.size <= program_size
        /\ program_size \in Nat /\ Space \in Nat /\ program_size < Space
    BY <1>1, <1>4, GeneratorAssumption DEF LInv, Programmed, GenInv, IsChunk, Fits
  <1>7. ASSUME NEW m \in DOMAIN loaded', NEW i \in DOMAIN loaded'[m].placed,
               loaded'[m].placed[i].what = "op"
        PROVE  Reported(m, loaded[m].placed[i])'
    <2>1. PICK p, a : p = loaded[m].placed[i] /\ a = loaded[m].start + p.at
      OBVIOUS
    <2>2. Reported(m, p)
      BY <1>1, <1>4, <1>7, <2>1 DEF Debugging
    <2>3. loaded[m].start \in Nat /\ p.at \in Nat /\ a \in Nat
      BY <2>1, <2>2 DEF Reported
    <2>4. a < program_size
      <3>1. CASE m # Len(loaded)
        <4>1. a < start
          BY <1>1, <2>1, <2>2, <3>1 DEF Reported
        <4> QED
          BY <1>6, <2>3, <4>1
      <3>2. CASE m = Len(loaded)
        <4>1. loaded[m].start = start /\ loaded[m].placed = placed
          BY <1>1, <3>2 DEF Present
        <4>2. chunk.size < Space
          BY <1>6
        <4>3. Attributed(p)
          BY <1>1, <1>7, <2>1, <4>1, <4>2 DEF Located
        <4> QED
          BY <1>6, <2>1, <2>3, <4>1, <4>3 DEF Attributed
      <3> QED
        BY <3>1, <3>2
    <2>5. IF p.debug = NULL THEN NoneFrom(debug_entries, 0, a)
          ELSE FirstFrom(debug_entries, 0, a, p.debug)
      <3>1. \A want : ~FirstFrom(chunk.debug_entries, Applied, p.at, want)
        BY <1>2, <1>3 DEF FirstFrom
      <3> QED
        BY <1>1, <2>1, <2>2, <3>1 DEF Reported
    <2>6. Reported(m, p)'
      BY <1>1, <2>1, <2>3, <2>4, <2>5 DEF Reported
    <2> QED
      BY <1>1, <2>1, <2>6 DEF Reported
  <1> QED
    BY <1>5, <1>7

LEMMA DebuggingInductive == Spec => [](Located /\ Debugging)
  <1>1. Init => Located /\ Debugging
    <2>1. Init => Located
      BY DEF Init, GenInit, NewChunk, Located, Bounded
    <2>2. Init => Debugging
      BY DEF Init, Debugging, Behind
    <2> QED
      BY <2>1, <2>2
  <1>2. LInv /\ Resolving /\ Located /\ Debugging /\ [Next]_vars => Located' /\ Debugging'
    <2> SUFFICES ASSUME LInv, Resolving, Located, Debugging, [Next]_vars PROVE Located' /\ Debugging'
      OBVIOUS
    <2>1. CASE Generate /\ UNCHANGED vmVars
      <3>1. Located'
        BY <2>1, LocatedKept DEF LInv
      <3>2. pc # "loading" /\ pc' # "loading"
        BY <2>1, GenerateOwnChunk
      <3>3. Debugging'
        BY <2>1, <3>2, DebuggingSame DEF vmVars
      <3> QED
        BY <3>1, <3>3
    <2>2. CASE ExpandProgram \/ LoadSymbol \/ LoadConstant \/ LoadRelocation \/ UNCHANGED vars
      <3>1. /\ UNCHANGED <<chunk, placed, blocks, pc, loaded, debug_entries, program_size, start, part>>
            /\ part = "debug" => done' = done
        BY <2>2 DEF ExpandProgram, LoadSymbol, LoadConstant, LoadRelocation, Applying, vars, genVars, vmVars
      <3>2. Applied' = Applied
        BY <3>1 DEF Applied
      <3> QED
        BY <3>1, <3>2, DebuggingSame, LocatedSame
    <2>3. CASE NextPart
      <3>1. /\ UNCHANGED <<chunk, placed, blocks, pc, loaded, debug_entries, program_size, start>>
            /\ done' = 0 /\ part # "debug"
        BY <2>3 DEF NextPart, genVars
      <3>2. Applied' = Applied
        BY <3>1 DEF Applied
      <3> QED
        BY <3>1, <3>2, DebuggingSame, LocatedSame
    <2>4. CASE LoadChunk
      <3>1. UNCHANGED <<chunk, placed, blocks>> /\ pc = "chunk"
        BY <2>4 DEF LoadChunk
      <3> QED
        BY <2>4, <3>1, LocatedSame, DebuggingLoadChunk DEF Resolving
    <2>5. CASE LoadDebugEntry
      <3>1. UNCHANGED <<chunk, placed, blocks, pc>>
        BY <2>5 DEF LoadDebugEntry, genVars
      <3> QED
        BY <2>5, <3>1, LocatedSame, DebuggingEntry DEF Resolving
    <2>6. CASE Loaded
      <3>1. UNCHANGED <<chunk, placed, blocks>> /\ pc = "loading"
        BY <2>6 DEF Loaded
      <3> QED
        BY <2>6, <3>1, LocatedSame, DebuggingLoaded DEF Resolving
    <2> QED
      BY <2>1, <2>2, <2>3, <2>4, <2>5, <2>6 DEF Next
  <1> QED
    BY <1>1, <1>2, Inductive, ResolvingInductive, PTL DEF Spec

\* As long as the program is smaller than the address space, a backtrace finds for every
\* instruction the debug entry in force where it was built, whatever blocks are nested
\* in each other and whatever chunks were loaded before (hvm_gen_process_block,
\* hvm_vm_load_chunk_debug_entries, find_debug_entry).
THEOREM EntriesFound == Spec => [](program_size < Space => DebugFound)
  <1>1. LInv /\ Debugging => (program_size < Space => DebugFound)
    BY DebuggingGives
  <1> QED
    BY <1>1, Inductive, DebuggingInductive, PTL

--------------------------------------------------------------------------------
(* Where the generator and the interpreter have the parts of an instruction *)

Wide(b) == IF b = "jump" THEN 4 ELSE 8
\* The registers' offsets and the destination's, by the type of the item.
RegPlaces(type) ==
  CASE type \in {"F", "D1", "E"} -> <<>>
    [] type \in {"A1", "D3", "G", "H"} -> <<1>>
    [] type \in {"A2", "INVOKEPRIMITIVE"} -> <<1, 2>>
    [] type = "A3" -> <<1, 2, 3>>
    [] type = "D2" -> <<9>> [] type = "CALL" -> <<12>> [] type = "CALLSYMBOLIC" -> <<8>>
    [] type = "INVOKEADDRESS" -> <<4, 5>>
DestTypes == {"D1", "D2", "D3", "E", "G", "CALL"}
DestPlace(type) == CASE type \in {"D1", "D2", "E"} -> 1 [] type \in {"D3", "G"} -> 2 [] type = "CALL" -> 4

LEMMA DestTable ==
  /\ DOMAIN DestAt = {"jump", "goto", "catch", "if", "litinteger", "call"}
  /\ DestAt["jump"] = 1 /\ DestAt["goto"] = 1 /\ DestAt["catch"] = 1
  /\ DestAt["if"] = 2 /\ DestAt["litinteger"] = 2 /\ DestAt["call"] = 4
  BY DEF DestAt
LEMMA ConstTable ==
  /\ DOMAIN ConstAt = {"setsymbol", "setstring", "callsymbolic", "callprimitive"}
  /\ ConstAt["setsymbol"] = 2 /\ ConstAt["setstring"] = 2
  /\ ConstAt["callsymbolic"] = 4 /\ ConstAt["callprimitive"] = 4
  BY DEF ConstAt

\* What both sides say of a builder's instruction
Row(b) ==
  /\ RegsAt(Instr(b)) = RegPlaces(ItemType(b))
  /\ Size(Instr(b)) = Length(b)
  /\ Instr(b) \in DOMAIN DestAt <=> ItemType(b) \in DestTypes
  /\ Instr(b) \in DOMAIN DestAt => DestAt[Instr(b)] = DestPlace(ItemType(b))
  /\ b = "jump" <=> ItemType(b) = "E"
  /\ Instr(b) \in DOMAIN ConstAt <=> b \in Constants
  /\ Instr(b) \in DOMAIN ConstAt => ConstAt[Instr(b)] = ConstantAt(b)
  /\ ItemType(b) \in {"H", "CALLSYMBOLIC"} <=> b \in Constants

LEMMA PlainRows ==
  ASSUME NEW b \in OpsF \cup OpsA1 \cup OpsA2 \cup OpsA3
  PROVE  Row(b) /\ Instr(b) = b /\ ItemType(b) \in {"F", "A1", "A2", "A3"}
  <1>1. Instr(b) = b
    BY DEF OpsF, OpsA1, OpsA2, OpsA3, Instr
  <1>2. b \notin DOMAIN DestAt /\ b \notin DOMAIN ConstAt /\ b # "jump" /\ b \notin Constants
    BY DestTable, ConstTable DEF OpsF, OpsA1, OpsA2, OpsA3, Constants
  <1>3. CASE b \in OpsF
    <2>1. ItemType(b) = "F"
      BY <1>3 DEF OpsF, OpsA1, OpsA2, OpsA3, ItemType
    <2>2. RegsAt(b) = <<>> /\ Size(b) = 1
      BY <1>3 DEF OpsF, OpsA1, OpsA2, OpsA3, RegsAt, Size
    <2>3. RegPlaces("F") = <<>> /\ Length(b) = 1
      BY <2>1 DEF RegPlaces, Length
    <2> QED
      BY <1>1, <1>2, <2>1, <2>2, <2>3 DEF Row, DestTypes
  <1>4. CASE b \in OpsA1
    <2>1. ItemType(b) = "A1"
      BY <1>4 DEF OpsF, OpsA1, OpsA2, OpsA3, ItemType
    <2>2. RegsAt(b) = <<1>> /\ Size(b) = 2
      BY <1>4 DEF OpsF, OpsA1, OpsA2, OpsA3, RegsAt, Size
    <2>3. RegPlaces("A1") = <<1>> /\ Length(b) = 2
      BY <2>1 DEF RegPlaces, Length
    <2> QED
      BY <1>1, <1>2, <2>1, <2>2, <2>3 DEF Row, DestTypes
  <1>5. CASE b \in OpsA2
    <2>1. ItemType(b) = "A2"
      BY <1>5 DEF OpsF, OpsA1, OpsA2, OpsA3, ItemType
    <2>2. RegsAt(b) = <<1, 2>> /\ Size(b) = 3
      BY <1>5 DEF OpsF, OpsA1, OpsA2, OpsA3, RegsAt, Size
    <2>3. RegPlaces("A2") = <<1, 2>> /\ Length(b) = 3
      BY <2>1 DEF RegPlaces, Length
    <2> QED
      BY <1>1, <1>2, <2>1, <2>2, <2>3 DEF Row, DestTypes
  <1>6. CASE b \in OpsA3
    <2>1. ItemType(b) = "A3"
      BY <1>6 DEF OpsF, OpsA1, OpsA2, OpsA3, ItemType
    <2>2. RegsAt(b) = <<1, 2, 3>> /\ Size(b) = 4
      BY <1>6 DEF OpsF, OpsA1, OpsA2, OpsA3, RegsAt, Size
    <2>3. RegPlaces("A3") = <<1, 2, 3>> /\ Length(b) = 4
      BY <2>1 DEF RegPlaces, Length
    <2> QED
      BY <1>1, <1>2, <2>1, <2>2, <2>3 DEF Row, DestTypes
  <1> QED
    BY <1>3, <1>4, <1>5, <1>6

LEMMA OtherTypes ==
  /\ ItemType("jump") = "E" /\ Instr("jump") = "jump"
  /\ ItemType("goto") = "D1" /\ Instr("goto") = "goto"
  /\ ItemType("goto_label") = "D1" /\ Instr("goto_label") = "goto"
  /\ ItemType("catch_label") = "D2" /\ Instr("catch_label") = "catch"
  /\ ItemType("if_label") = "D3" /\ Instr("if_label") = "if"
  /\ ItemType("litinteger") = "G" /\ Instr("litinteger") = "litinteger"
  /\ ItemType("litinteger_label") = "G" /\ Instr("litinteger_label") = "litinteger"
  /\ ItemType("call") = "CALL" /\ Instr("call") = "call"
  /\ ItemType("call_label") = "CALL" /\ Instr("call_label") = "call"
  /\ ItemType("set_symbol") = "H" /\ Instr("set_symbol") = "setsymbol"
  /\ ItemType("set_string") = "H" /\ Instr("set_string") = "setstring"
  /\ ItemType("set_integer") = "H" /\ Instr("set_integer") = "setstring"
  /\ ItemType("callsymbolic") = "CALLSYMBOLIC" /\ Instr("callsymbolic") = "callsymbolic"
  /\ ItemType("callprimitive") = "CALLSYMBOLIC" /\ Instr("callprimitive") = "callprimitive"
  /\ ItemType("invokeaddress") = "INVOKEADDRESS" /\ Instr("invokeaddress") = "invokeaddress"
  /\ ItemType("invokeprimitive") = "INVOKEPRIMITIVE" /\ Instr("invokeprimitive") = "invokeprimitive"
  <1>1. ItemType("jump") = "E" /\ Instr("jump") = "jump"
    BY DEF OpsF, OpsA1, OpsA2, OpsA3, ItemType, Instr
  <1>2. ItemType("goto") = "D1" /\ Instr("goto") = "goto"
    BY DEF OpsF, OpsA1, OpsA2, OpsA3, ItemType, Instr
  <1>3. ItemType("goto_label") = "D1" /\ Instr("goto_label") = "goto"
    BY DEF OpsF, OpsA1, OpsA2, OpsA3, ItemType, Instr
  <1>4. ItemType("catch_label") = "D2" /\ Instr("catch_label") = "catch"
    BY DEF OpsF, OpsA1, OpsA2, OpsA3, ItemType, Instr
  <1>5. ItemType("if_label") = "D3" /\ Instr("if_label") = "if"
    BY DEF OpsF, OpsA1, OpsA2, OpsA3, ItemType, Instr
  <1>6. ItemType("litinteger") = "G" /\ Instr("litinteger") = "litinteger"
    BY DEF OpsF, OpsA1, OpsA2, OpsA3, ItemType, Instr
  <1>7. ItemType("litinteger_label") = "G" /\ Instr("litinteger_label") = "litinteger"
    BY DEF OpsF, OpsA1, OpsA2, OpsA3, ItemType, Instr
  <1>8. ItemType("call") = "CALL" /\ Instr("call") = "call"
    BY DEF OpsF, OpsA1, OpsA2, OpsA3, ItemType, Instr
  <1>9. ItemType("call_label") = "CALL" /\ Instr("call_label") = "call"
    BY DEF OpsF, OpsA1, OpsA2, OpsA3, ItemType, Instr
  <1>10. ItemType("set_symbol") = "H" /\ Instr("set_symbol") = "setsymbol"
    BY DEF OpsF, OpsA1, OpsA2, OpsA3, ItemType, Instr
  <1>11. ItemType("set_string") = "H" /\ Instr("set_string") = "setstring"
    BY DEF OpsF, OpsA1, OpsA2, OpsA3, ItemType, Instr
  <1>12. ItemType("set_integer") = "H" /\ Instr("set_integer") = "setstring"
    BY DEF OpsF, OpsA1, OpsA2, OpsA3, ItemType, Instr
  <1>13. ItemType("callsymbolic") = "CALLSYMBOLIC" /\ Instr("callsymbolic") = "callsymbolic"
    BY DEF OpsF, OpsA1, OpsA2, OpsA3, ItemType, Instr
  <1>14. ItemType("callprimitive") = "CALLSYMBOLIC" /\ Instr("callprimitive") = "callprimitive"
    BY DEF OpsF, OpsA1, OpsA2, OpsA3, ItemType, Instr
  <1>15. ItemType("invokeaddress") = "INVOKEADDRESS" /\ Instr("invokeaddress") = "invokeaddress"
    BY DEF OpsF, OpsA1, OpsA2, OpsA3, ItemType, Instr
  <1>16. ItemType("invokeprimitive") = "INVOKEPRIMITIVE" /\ Instr("invokeprimitive") = "invokeprimitive"
    BY DEF OpsF, OpsA1, OpsA2, OpsA3, ItemType, Instr
  <1> QED
    BY <1>1, <1>2, <1>3, <1>4, <1>5, <1>6, <1>7, <1>8, <1>9, <1>10, <1>11, <1>12, <1>13, <1>14, <1>15, <1>16

LEMMA OtherInstructions ==
  /\ RegsAt("jump") = <<>> /\ Size("jump") = 5
  /\ RegsAt("goto") = <<>> /\ Size("goto") = 9
  /\ RegsAt("catch") = <<9>> /\ Size("catch") = 10
  /\ RegsAt("if") = <<1>> /\ Size("if") = 10
  /\ RegsAt("litinteger") = <<1>> /\ Size("litinteger") = 10
  /\ RegsAt("call") = <<12>> /\ Size("call") = 13
  /\ RegsAt("setsymbol") = <<1>> /\ Size("setsymbol") = 6
  /\ RegsAt("setstring") = <<1>> /\ Size("setstring") = 6
  /\ RegsAt("callsymbolic") = <<8>> /\ Size("callsymbolic") = 9
  /\ RegsAt("callprimitive") = <<8>> /\ Size("callprimitive") = 9
  /\ RegsAt("invokeaddress") = <<4, 5>> /\ Size("invokeaddress") = 6
  /\ RegsAt("invokeprimitive") = <<1, 2>> /\ Size("invokeprimitive") = 3
  <1>1. RegsAt("jump") = <<>> /\ Size("jump") = 5
    BY DEF OpsF, OpsA1, OpsA2, OpsA3, RegsAt, Size
  <1>2. RegsAt("goto") = <<>> /\ Size("goto") = 9
    BY DEF OpsF, OpsA1, OpsA2, OpsA3, RegsAt, Size
  <1>3. RegsAt("catch") = <<9>> /\ Size("catch") = 10
    BY DEF OpsF, OpsA1, OpsA2, OpsA3, RegsAt, Size
  <1>4. RegsAt("if") = <<1>> /\ Size("if") = 10
    BY DEF OpsF, OpsA1, OpsA2, OpsA3, RegsAt, Size
  <1>5. RegsAt("litinteger") = <<1>> /\ Size("litinteger") = 10
    BY DEF OpsF, OpsA1, OpsA2, OpsA3, RegsAt, Size
  <1>6. RegsAt("call") = <<12>> /\ Size("call") = 13
    BY DEF OpsF, OpsA1, OpsA2, OpsA3, RegsAt, Size
  <1>7. RegsAt("setsymbol") = <<1>> /\ Size("setsymbol") = 6
    BY DEF OpsF, OpsA1, OpsA2, OpsA3, RegsAt, Size
  <1>8. RegsAt("setstring") = <<1>> /\ Size("setstring") = 6
    BY DEF OpsF, OpsA1, OpsA2, OpsA3, RegsAt, Size
  <1>9. RegsAt("callsymbolic") = <<8>> /\ Size("callsymbolic") = 9
    BY DEF OpsF, OpsA1, OpsA2, OpsA3, RegsAt, Size
  <1>10. RegsAt("callprimitive") = <<8>> /\ Size("callprimitive") = 9
    BY DEF OpsF, OpsA1, OpsA2, OpsA3, RegsAt, Size
  <1>11. RegsAt("invokeaddress") = <<4, 5>> /\ Size("invokeaddress") = 6
    BY DEF OpsF, OpsA1, OpsA2, OpsA3, RegsAt, Size
  <1>12. RegsAt("invokeprimitive") = <<1, 2>> /\ Size("invokeprimitive") = 3
    BY DEF OpsF, OpsA1, OpsA2, OpsA3, RegsAt, Size
  <1> QED
    BY <1>1, <1>2, <1>3, <1>4, <1>5, <1>6, <1>7, <1>8, <1>9, <1>10, <1>11, <1>12

LEMMA OtherPlaces ==
  /\ RegPlaces("E") = <<>>
  /\ RegPlaces("D1") = <<>>
  /\ RegPlaces("D2") = <<9>>
  /\ RegPlaces("D3") = <<1>>
  /\ RegPlaces("G") = <<1>>
  /\ RegPlaces("CALL") = <<12>>
  /\ RegPlaces("H") = <<1>>
  /\ RegPlaces("CALLSYMBOLIC") = <<8>>
  /\ RegPlaces("INVOKEADDRESS") = <<4, 5>>
  /\ RegPlaces("INVOKEPRIMITIVE") = <<1, 2>>
  <1>1. RegPlaces("E") = <<>>
    BY DEF RegPlaces
  <1>2. RegPlaces("D1") = <<>>
    BY DEF RegPlaces
  <1>3. RegPlaces("D2") = <<9>>
    BY DEF RegPlaces
  <1>4. RegPlaces("D3") = <<1>>
    BY DEF RegPlaces
  <1>5. RegPlaces("G") = <<1>>
    BY DEF RegPlaces
  <1>6. RegPlaces("CALL") = <<12>>
    BY DEF RegPlaces
  <1>7. RegPlaces("H") = <<1>>
    BY DEF RegPlaces
  <1>8. RegPlaces("CALLSYMBOLIC") = <<8>>
    BY DEF RegPlaces
  <1>9. RegPlaces("INVOKEADDRESS") = <<4, 5>>
    BY DEF RegPlaces
  <1>10. RegPlaces("INVOKEPRIMITIVE") = <<1, 2>>
    BY DEF RegPlaces
  <1> QED
    BY <1>1, <1>2, <1>3, <1>4, <1>5, <1>6, <1>7, <1>8, <1>9, <1>10

LEMMA Lengths ==
  ASSUME NEW b
  PROVE  /\ ItemType(b) = "E" => Length(b) = 5
         /\ ItemType(b) = "D1" => Length(b) = 9
         /\ ItemType(b) = "D2" => Length(b) = 10
         /\ ItemType(b) = "D3" => Length(b) = 10
         /\ ItemType(b) = "G" => Length(b) = 10
         /\ ItemType(b) = "CALL" => Length(b) = 13
         /\ ItemType(b) = "H" => Length(b) = 6
         /\ ItemType(b) = "CALLSYMBOLIC" => Length(b) = 9
         /\ ItemType(b) = "INVOKEADDRESS" => Length(b) = 6
         /\ ItemType(b) = "INVOKEPRIMITIVE" => Length(b) = 3
  <1>1. ItemType(b) = "E" => Length(b) = 5
    BY DEF Length, TagSize
  <1>2. ItemType(b) = "D1" => Length(b) = 9
    BY DEF Length, TagSize
  <1>3. ItemType(b) = "D2" => Length(b) = 10
    BY DEF Length, TagSize
  <1>4. ItemType(b) = "D3" => Length(b) = 10
    BY DEF Length, TagSize
  <1>5. ItemType(b) = "G" => Length(b) = 10
    BY DEF Length, TagSize
  <1>6. ItemType(b) = "CALL" => Length(b) = 13
    BY DEF Length, TagSize
  <1>7. ItemType(b) = "H" => Length(b) = 6
    BY DEF Length, TagSize
  <1>8. ItemType(b) = "CALLSYMBOLIC" => Length(b) = 9
    BY DEF Length, TagSize
  <1>9. ItemType(b) = "INVOKEADDRESS" => Length(b) = 6
    BY DEF Length, TagSize
  <1>10. ItemType(b) = "INVOKEPRIMITIVE" => Length(b) = 3
    BY DEF Length, TagSize
  <1> QED
    BY <1>1, <1>2, <1>3, <1>4, <1>5, <1>6, <1>7, <1>8, <1>9, <1>10

Others ==
  {"jump", "goto", "goto_label", "catch_label", "if_label", "litinteger", "litinteger_label",
   "call", "call_label", "set_symbol", "set_string", "set_integer", "callsymbolic",
   "callprimitive", "invokeaddress", "invokeprimitive"}
LEMMA OtherRows ==
  ASSUME NEW b \in Others
  PROVE  Row(b)
  <1>1. Row("jump")
    <2>1. RegsAt("jump") = RegPlaces("E") /\ Size("jump") = Length("jump")
      BY OtherTypes, OtherInstructions, OtherPlaces, Lengths
    <2> QED
      BY <2>1, OtherTypes, DestTable, ConstTable DEF Row, DestTypes, DestPlace, Constants, ConstantAt, TagSize
  <1>2. Row("goto")
    <2>1. RegsAt("goto") = RegPlaces("D1") /\ Size("goto") = Length("goto")
      BY OtherTypes, OtherInstructions, OtherPlaces, Lengths
    <2> QED
      BY <2>1, OtherTypes, DestTable, ConstTable DEF Row, DestTypes, DestPlace, Constants, ConstantAt, TagSize
  <1>3. Row("goto_label")
    <2>1. RegsAt("goto") = RegPlaces("D1") /\ Size("goto") = Length("goto_label")
      BY OtherTypes, OtherInstructions, OtherPlaces, Lengths
    <2> QED
      BY <2>1, OtherTypes, DestTable, ConstTable DEF Row, DestTypes, DestPlace, Constants, ConstantAt, TagSize
  <1>4. Row("catch_label")
    <2>1. RegsAt("catch") = RegPlaces("D2") /\ Size("catch") = Length("catch_label")
      BY OtherTypes, OtherInstructions, OtherPlaces, Lengths
    <2> QED
      BY <2>1, OtherTypes, DestTable, ConstTable DEF Row, DestTypes, DestPlace, Constants, ConstantAt, TagSize
  <1>5. Row("if_label")
    <2>1. RegsAt("if") = RegPlaces("D3") /\ Size("if") = Length("if_label")
      BY OtherTypes, OtherInstructions, OtherPlaces, Lengths
    <2> QED
      BY <2>1, OtherTypes, DestTable, ConstTable DEF Row, DestTypes, DestPlace, Constants, ConstantAt, TagSize
  <1>6. Row("litinteger")
    <2>1. RegsAt("litinteger") = RegPlaces("G") /\ Size("litinteger") = Length("litinteger")
      BY OtherTypes, OtherInstructions, OtherPlaces, Lengths
    <2> QED
      BY <2>1, OtherTypes, DestTable, ConstTable DEF Row, DestTypes, DestPlace, Constants, ConstantAt, TagSize
  <1>7. Row("litinteger_label")
    <2>1. RegsAt("litinteger") = RegPlaces("G") /\ Size("litinteger") = Length("litinteger_label")
      BY OtherTypes, OtherInstructions, OtherPlaces, Lengths
    <2> QED
      BY <2>1, OtherTypes, DestTable, ConstTable DEF Row, DestTypes, DestPlace, Constants, ConstantAt, TagSize
  <1>8. Row("call")
    <2>1. RegsAt("call") = RegPlaces("CALL") /\ Size("call") = Length("call")
      BY OtherTypes, OtherInstructions, OtherPlaces, Lengths
    <2> QED
      BY <2>1, OtherTypes, DestTable, ConstTable DEF Row, DestTypes, DestPlace, Constants, ConstantAt, TagSize
  <1>9. Row("call_label")
    <2>1. RegsAt("call") = RegPlaces("CALL") /\ Size("call") = Length("call_label")
      BY OtherTypes, OtherInstructions, OtherPlaces, Lengths
    <2> QED
      BY <2>1, OtherTypes, DestTable, ConstTable DEF Row, DestTypes, DestPlace, Constants, ConstantAt, TagSize
  <1>10. Row("set_symbol")
    <2>1. RegsAt("setsymbol") = RegPlaces("H") /\ Size("setsymbol") = Length("set_symbol")
      BY OtherTypes, OtherInstructions, OtherPlaces, Lengths
    <2> QED
      BY <2>1, OtherTypes, DestTable, ConstTable DEF Row, DestTypes, DestPlace, Constants, ConstantAt, TagSize
  <1>11. Row("set_string")
    <2>1. RegsAt("setstring") = RegPlaces("H") /\ Size("setstring") = Length("set_string")
      BY OtherTypes, OtherInstructions, OtherPlaces, Lengths
    <2> QED
      BY <2>1, OtherTypes, DestTable, ConstTable DEF Row, DestTypes, DestPlace, Constants, ConstantAt, TagSize
  <1>12. Row("set_integer")
    <2>1. RegsAt("setstring") = RegPlaces("H") /\ Size("setstring") = Length("set_integer")
      BY OtherTypes, OtherInstructions, OtherPlaces, Lengths
    <2> QED
      BY <2>1, OtherTypes, DestTable, ConstTable DEF Row, DestTypes, DestPlace, Constants, ConstantAt, TagSize
  <1>13. Row("callsymbolic")
    <2>1. RegsAt("callsymbolic") = RegPlaces("CALLSYMBOLIC") /\ Size("callsymbolic") = Length("callsymbolic")
      BY OtherTypes, OtherInstructions, OtherPlaces, Lengths
    <2> QED
      BY <2>1, OtherTypes, DestTable, ConstTable DEF Row, DestTypes, DestPlace, Constants, ConstantAt, TagSize
  <1>14. Row("callprimitive")
    <2>1. RegsAt("callprimitive") = RegPlaces("CALLSYMBOLIC") /\ Size("callprimitive") = Length("callprimitive")
      BY OtherTypes, OtherInstructions, OtherPlaces, Lengths
    <2> QED
      BY <2>1, OtherTypes, DestTable, ConstTable DEF Row, DestTypes, DestPlace, Constants, ConstantAt, TagSize
  <1>15. Row("invokeaddress")
    <2>1. RegsAt("invokeaddress") = RegPlaces("INVOKEADDRESS") /\ Size("invokeaddress") = Length("invokeaddress")
      BY OtherTypes, OtherInstructions, OtherPlaces, Lengths
    <2> QED
      BY <2>1, OtherTypes, DestTable, ConstTable DEF Row, DestTypes, DestPlace, Constants, ConstantAt, TagSize
  <1>16. Row("invokeprimitive")
    <2>1. RegsAt("invokeprimitive") = RegPlaces("INVOKEPRIMITIVE") /\ Size("invokeprimitive") = Length("invokeprimitive")
      BY OtherTypes, OtherInstructions, OtherPlaces, Lengths
    <2> QED
      BY <2>1, OtherTypes, DestTable, ConstTable DEF Row, DestTypes, DestPlace, Constants, ConstantAt, TagSize
  <1> QED
    BY <1>1, <1>2, <1>3, <1>4, <1>5, <1>6, <1>7, <1>8, <1>9, <1>10, <1>11, <1>12, <1>13, <1>14, <1>15, <1>16 DEF Others

LEMMA Rows ==
  ASSUME NEW b \in Emitted, b # "if"
  PROVE  Row(b)
  <1>1. b \in OpsF \cup OpsA1 \cup OpsA2 \cup OpsA3 \/ b \in Others
    BY DEF Emitted, Labelled, Constants, Others
  <1> QED
    BY <1>1, PlainRows, OtherRows

\* The address to be relocated is the destination that the interpreter reads.
LEMMA Relocations ==
  ASSUME NEW b \in Emitted, b # "if"
  PROVE  /\ Relocation(b) # 0 => b # "jump" /\ Instr(b) \in DOMAIN DestAt /\ DestAt[Instr(b)] = Relocation(b)
         /\ b \in Labelled => Instr(b) \in DOMAIN DestAt /\ Relocation(b) # 0
         /\ b \in Labelled \ {"call_label"} => UseAt(b) = Relocation(b)
         /\ Instr(b) \in DOMAIN DestAt => b \in Labelled \cup {"jump", "goto", "litinteger", "call"}
         /\ Relocation("jump") = 0 /\ Relocation("litinteger") = 0
         /\ Relocation("goto") # 0 /\ Relocation("call") # 0
         /\ b \in Labelled => b # "jump"
  <1>1. CASE b \in OpsF \cup OpsA1 \cup OpsA2 \cup OpsA3
    <2>1. ItemType(b) \in {"F", "A1", "A2", "A3"} /\ Instr(b) = b /\ b # "litinteger_label"
      BY <1>1, PlainRows DEF OpsF, OpsA1, OpsA2, OpsA3
    <2>2. b \notin Labelled /\ b \notin {"jump", "goto", "litinteger", "call"}
      BY <1>1 DEF OpsF, OpsA1, OpsA2, OpsA3, Labelled
    <2>3. Relocation(b) = 0
      BY <2>1 DEF Relocation
    <2>4. Instr(b) \notin DOMAIN DestAt
      BY <2>1, PlainRows, <1>1 DEF Row, DestTypes
    <2>5. Relocation("jump") = 0 /\ Relocation("litinteger") = 0 /\ Relocation("goto") # 0 /\ Relocation("call") # 0
      BY OtherTypes DEF Relocation, TagSize
    <2> QED
      BY <2>2, <2>3, <2>4, <2>5
  <1>2. CASE b \in Others
    <2>1. /\ Relocation("jump") = 0 /\ Relocation("goto") = 1 /\ Relocation("goto_label") = 1
          /\ Relocation("catch_label") = 1 /\ Relocation("if_label") = 2
          /\ Relocation("litinteger") = 0 /\ Relocation("litinteger_label") = 2
          /\ Relocation("call") = 4 /\ Relocation("call_label") = 4
      BY OtherTypes DEF Relocation, TagSize
    <2>2. /\ Relocation("set_symbol") = 0 /\ Relocation("set_string") = 0 /\ Relocation("set_integer") = 0
          /\ Relocation("callsymbolic") = 0 /\ Relocation("callprimitive") = 0
          /\ Relocation("invokeaddress") = 0 /\ Relocation("invokeprimitive") = 0
      BY OtherTypes DEF Relocation, TagSize
    <2>3. /\ UseAt("goto_label") = 1 /\ UseAt("catch_label") = 1 /\ UseAt("if_label") = 2
          /\ UseAt("litinteger_label") = 2
      BY DEF UseAt
    <2>4. b \in Labelled \cup {"jump", "goto", "litinteger", "call"} \/ (Relocation(b) = 0 /\ Instr(b) \notin DOMAIN DestAt)
      <3> DEFINE F(x) == Relocation(x) = 0 /\ Instr(x) \notin DOMAIN DestAt
      <3>1. F("set_symbol") /\ F("set_string") /\ F("set_integer")
        BY <2>2, OtherTypes, DestTable
      <3>2. F("callsymbolic") /\ F("callprimitive") /\ F("invokeaddress") /\ F("invokeprimitive")
        BY <2>2, OtherTypes, DestTable
      <3> HIDE DEF F
      <3>3. b \in Labelled \cup {"jump", "goto", "litinteger", "call"} \/ F(b)
        BY <1>2, <3>1, <3>2 DEF Others, Labelled
      <3> QED
        BY <3>3 DEF F
    <2>5. b \in Labelled => /\ Instr(b) \in DOMAIN DestAt /\ Relocation(b) # 0 /\ b # "jump"
                            /\ DestAt[Instr(b)] = Relocation(b)
      BY <2>1, OtherTypes, DestTable DEF Labelled
    <2>6. b \in Labelled \ {"call_label"} => UseAt(b) = Relocation(b)
      BY <2>1, <2>3 DEF Labelled
    <2>7. b \in {"jump", "goto", "litinteger", "call"} =>
            (Relocation(b) # 0 => b # "jump" /\ Instr(b) \in DOMAIN DestAt /\ DestAt[Instr(b)] = Relocation(b))
      BY <2>1, OtherTypes, DestTable
    <2> QED
      BY <2>1, <2>4, <2>5, <2>6, <2>7
  <1> QED
    BY <1>1, <1>2 DEF Emitted, Labelled, Constants, Others

--------------------------------------------------------------------------------
(* The fields of an instruction *)

\* They do not overlap, and are inside the instruction.
Spread(fields) ==
  \A f, g \in fields : f = g \/ f.at + f.width <= g.at \/ g.at + g.width <= f.at
Inside(fields, length) ==
  \A f \in fields : f.at \in Nat /\ f.width \in Nat /\ f.at + f.width <= length
\* They are the opcode, the registers and the destination.
Registered(fields, regs, places) ==
  \A k \in DOMAIN places : [at |-> places[k], width |-> 1, val |-> regs[k]] \in fields
Laid(type, fields, item, dest) ==
  /\ Spread(fields)
  /\ \A f \in fields : f.at \in Nat /\ f.width \in Nat
  /\ [at |-> 0, width |-> 1, val |-> Opcode[Instr(item.b)]] \in fields
  /\ Registered(fields, item.regs, RegPlaces(type))
  /\ type \in DestTypes =>
       [at |-> DestPlace(type), width |-> IF type = "E" THEN 4 ELSE 8, val |-> dest] \in fields

LEMMA Layout ==
  ASSUME NEW item, item.b \in Emitted, NEW dest, NEW sub
  PROVE  /\ Laid(ItemType(item.b), Fields(item, dest, sub), item, dest)
         /\ Inside(Fields(item, dest, sub), Length(item.b))
  <1> DEFINE fields == Fields(item, dest, sub)
             op == [at |-> 0, width |-> 1, val |-> Opcode[Instr(item.b)]]
  <1>1. CASE ItemType(item.b) = "F"
    <2>1. fields = {op}
      BY <1>1 DEF Fields, TagSize
    <2> HIDE DEF fields
    <2>2. Length(item.b) = 1 /\ RegPlaces("F") = <<>>
      BY <1>1 DEF Length, TagSize, RegPlaces
    <2>3. Spread(fields)
      BY <2>1 DEF Spread
    <2>4. Inside(fields, Length(item.b))
      BY <2>1, <2>2 DEF Inside
    <2>5. op \in fields
      BY <2>1
    <2>6. Registered(fields, item.regs, RegPlaces("F"))
      BY <2>2 DEF Registered
    <2> QED
      BY <1>1, <2>3, <2>4, <2>5, <2>6 DEF Laid, Inside, fields, DestTypes
  <1>2. CASE ItemType(item.b) = "A1"
    <2>1. fields = {op,
                    [at |-> 1, width |-> 1, val |-> item.regs[1]]}
      BY <1>2 DEF Fields, TagSize
    <2> HIDE DEF fields
    <2>2. Length(item.b) = 2 /\ RegPlaces("A1") = <<1>>
      BY <1>2 DEF Length, TagSize, RegPlaces
    <2>3. Spread(fields)
      BY <2>1 DEF Spread
    <2>4. Inside(fields, Length(item.b))
      BY <2>1, <2>2 DEF Inside
    <2>5. op \in fields
      BY <2>1
    <2>6. Registered(fields, item.regs, RegPlaces("A1"))
      BY <2>1, <2>2 DEF Registered
    <2> QED
      BY <1>2, <2>3, <2>4, <2>5, <2>6 DEF Laid, Inside, fields, DestTypes
  <1>3. CASE ItemType(item.b) = "A2"
    <2>1. fields = {op,
                    [at |-> 1, width |-> 1, val |-> item.regs[1]],
                    [at |-> 2, width |-> 1, val |-> item.regs[2]]}
      BY <1>3 DEF Fields, TagSize
    <2> HIDE DEF fields
    <2>2. Length(item.b) = 3 /\ RegPlaces("A2") = <<1, 2>>
      BY <1>3 DEF Length, TagSize, RegPlaces
    <2>3. Spread(fields)
      BY <2>1 DEF Spread
    <2>4. Inside(fields, Length(item.b))
      BY <2>1, <2>2 DEF Inside
    <2>5. op \in fields
      BY <2>1
    <2>6. Registered(fields, item.regs, RegPlaces("A2"))
      BY <2>1, <2>2 DEF Registered
    <2> QED
      BY <1>3, <2>3, <2>4, <2>5, <2>6 DEF Laid, Inside, fields, DestTypes
  <1>4. CASE ItemType(item.b) = "A3"
    <2>1. fields = {op,
                    [at |-> 1, width |-> 1, val |-> item.regs[1]],
                    [at |-> 2, width |-> 1, val |-> item.regs[2]],
                    [at |-> 3, width |-> 1, val |-> item.regs[3]]}
      BY <1>4 DEF Fields, TagSize
    <2> HIDE DEF fields
    <2>2. Length(item.b) = 4 /\ RegPlaces("A3") = <<1, 2, 3>>
      BY <1>4 DEF Length, TagSize, RegPlaces
    <2>3. Spread(fields)
      BY <2>1 DEF Spread
    <2>4. Inside(fields, Length(item.b))
      BY <2>1, <2>2 DEF Inside
    <2>5. op \in fields
      BY <2>1
    <2>6. Registered(fields, item.regs, RegPlaces("A3"))
      BY <2>1, <2>2 DEF Registered
    <2> QED
      BY <1>4, <2>3, <2>4, <2>5, <2>6 DEF Laid, Inside, fields, DestTypes
  <1>5. CASE ItemType(item.b) = "D1"
    <2>1. fields = {op,
                    [at |-> 1, width |-> 8, val |-> dest]}
      BY <1>5 DEF Fields, TagSize
    <2> HIDE DEF fields
    <2>2. Length(item.b) = 9 /\ RegPlaces("D1") = <<>>
      BY <1>5 DEF Length, TagSize, RegPlaces
    <2>3. Spread(fields)
      BY <2>1 DEF Spread
    <2>4. Inside(fields, Length(item.b))
      BY <2>1, <2>2 DEF Inside
    <2>5. op \in fields
      BY <2>1
    <2>6. Registered(fields, item.regs, RegPlaces("D1"))
      BY <2>2 DEF Registered
    <2>7. [at |-> DestPlace("D1"), width |-> 8, val |-> dest] \in fields
      BY <2>1 DEF DestPlace
    <2> QED
      BY <1>5, <2>3, <2>4, <2>5, <2>6, <2>7 DEF Laid, Inside, fields, DestTypes
  <1>6. CASE ItemType(item.b) = "D2"
    <2>1. fields = {op,
                    [at |-> 1, width |-> 8, val |-> dest],
                    [at |-> 9, width |-> 1, val |-> item.regs[1]]}
      BY <1>6 DEF Fields, TagSize
    <2> HIDE DEF fields
    <2>2. Length(item.b) = 10 /\ RegPlaces("D2") = <<9>>
      BY <1>6 DEF Length, TagSize, RegPlaces
    <2>3. Spread(fields)
      BY <2>1 DEF Spread
    <2>4. Inside(fields, Length(item.b))
      BY <2>1, <2>2 DEF Inside
    <2>5. op \in fields
      BY <2>1
    <2>6. Registered(fields, item.regs, RegPlaces("D2"))
      BY <2>1, <2>2 DEF Registered
    <2>7. [at |-> DestPlace("D2"), width |-> 8, val |-> dest] \in fields
      BY <2>1 DEF DestPlace
    <2> QED
      BY <1>6, <2>3, <2>4, <2>5, <2>6, <2>7 DEF Laid, Inside, fields, DestTypes
  <1>7. CASE ItemType(item.b) = "D3"
    <2>1. fields = {op,
                    [at |-> 1, width |-> 1, val |-> item.regs[1]],
                    [at |-> 2, width |-> 8, val |-> dest]}
      BY <1>7 DEF Fields, TagSize
    <2> HIDE DEF fields
    <2>2. Length(item.b) = 10 /\ RegPlaces("D3") = <<1>>
      BY <1>7 DEF Length, TagSize, RegPlaces
    <2>3. Spread(fields)
      BY <2>1 DEF Spread
    <2>4. Inside(fields, Length(item.b))
      BY <2>1, <2>2 DEF Inside
    <2>5. op \in fields
      BY <2>1
    <2>6. Registered(fields, item.regs, RegPlaces("D3"))
      BY <2>1, <2>2 DEF Registered
    <2>7. [at |-> DestPlace("D3"), width |-> 8, val |-> dest] \in fields
      BY <2>1 DEF DestPlace
    <2> QED
      BY <1>7, <2>3, <2>4, <2>5, <2>6, <2>7 DEF Laid, Inside, fields, DestTypes
  <1>8. CASE ItemType(item.b) = "E"
    <2>1. fields = {op,
                    [at |-> 1, width |-> 4, val |-> dest]}
      BY <1>8 DEF Fields, TagSize
    <2> HIDE DEF fields
    <2>2. Length(item.b) = 5 /\ RegPlaces("E") = <<>>
      BY <1>8 DEF Length, TagSize, RegPlaces
    <2>3. Spread(fields)
      BY <2>1 DEF Spread
    <2>4. Inside(fields, Length(item.b))
      BY <2>1, <2>2 DEF Inside
    <2>5. op \in fields
      BY <2>1
    <2>6. Registered(fields, item.regs, RegPlaces("E"))
      BY <2>2 DEF Registered
    <2>7. [at |-> DestPlace("E"), width |-> 4, val |-> dest] \in fields
      BY <2>1 DEF DestPlace
    <2> QED
      BY <1>8, <2>3, <2>4, <2>5, <2>6, <2>7 DEF Laid, Inside, fields, DestTypes
  <1>9. CASE ItemType(item.b) = "G"
    <2>1. fields = {op,
                    [at |-> 1, width |-> 1, val |-> item.regs[1]],
                    [at |-> 2, width |-> 8, val |-> dest]}
      BY <1>9 DEF Fields, TagSize
    <2> HIDE DEF fields
    <2>2. Length(item.b) = 10 /\ RegPlaces("G") = <<1>>
      BY <1>9 DEF Length, TagSize, RegPlaces
    <2>3. Spread(fields)
      BY <2>1 DEF Spread
    <2>4. Inside(fields, Length(item.b))
      BY <2>1, <2>2 DEF Inside
    <2>5. op \in fields
      BY <2>1
    <2>6. Registered(fields, item.regs, RegPlaces("G"))
      BY <2>1, <2>2 DEF Registered
    <2>7. [at |-> DestPlace("G"), width |-> 8, val |-> dest] \in fields
      BY <2>1 DEF DestPlace
    <2> QED
      BY <1>9, <2>3, <2>4, <2>5, <2>6, <2>7 DEF Laid, Inside, fields, DestTypes
  <1>10. CASE ItemType(item.b) = "H"
    <2>1. fields = {op,
                    [at |-> 1, width |-> 1, val |-> item.regs[1]],
                    [at |-> 2, width |-> 4, val |-> sub]}
      BY <1>10 DEF Fields, TagSize
    <2> HIDE DEF fields
    <2>2. Length(item.b) = 6 /\ RegPlaces("H") = <<1>>
      BY <1>10 DEF Length, TagSize, RegPlaces
    <2>3. Spread(fields)
      BY <2>1 DEF Spread
    <2>4. Inside(fields, Length(item.b))
      BY <2>1, <2>2 DEF Inside
    <2>5. op \in fields
      BY <2>1
    <2>6. Registered(fields, item.regs, RegPlaces("H"))
      BY <2>1, <2>2 DEF Registered
    <2> QED
      BY <1>10, <2>3, <2>4, <2>5, <2>6 DEF Laid, Inside, fields, DestTypes
  <1>11. CASE ItemType(item.b) = "CALL"
    <2>1. fields = {op,
                    [at |-> 1, width |-> 3, val |-> 0],
                    [at |-> 4, width |-> 8, val |-> dest],
                    [at |-> 12, width |-> 1, val |-> item.regs[1]]}
      BY <1>11 DEF Fields, TagSize
    <2> HIDE DEF fields
    <2>2. Length(item.b) = 13 /\ RegPlaces("CALL") = <<12>>
      BY <1>11 DEF Length, TagSize, RegPlaces
    <2>3. Spread(fields)
      BY <2>1 DEF Spread
    <2>4. Inside(fields, Length(item.b))
      BY <2>1, <2>2 DEF Inside
    <2>5. op \in fields
      BY <2>1
    <2>6. Registered(fields, item.regs, RegPlaces("CALL"))
      BY <2>1, <2>2 DEF Registered
    <2>7. [at |-> DestPlace("CALL"), width |-> 8, val |-> dest] \in fields
      BY <2>1 DEF DestPlace
    <2> QED
      BY <1>11, <2>3, <2>4, <2>5, <2>6, <2>7 DEF Laid, Inside, fields, DestTypes
  <1>12. CASE ItemType(item.b) = "CALLSYMBOLIC"
    <2>1. fields = {op,
                    [at |-> 1, width |-> 3, val |-> 0],
                    [at |-> 4, width |-> 4, val |-> sub],
                    [at |-> 8, width |-> 1, val |-> item.regs[1]]}
      BY <1>12 DEF Fields, TagSize
    <2> HIDE DEF fields
    <2>2. Length(item.b) = 9 /\ RegPlaces("CALLSYMBOLIC") = <<8>>
      BY <1>12 DEF Length, TagSize, RegPlaces
    <2>3. Spread(fields)
      BY <2>1 DEF Spread
    <2>4. Inside(fields, Length(item.b))
      BY <2>1, <2>2 DEF Inside
    <2>5. op \in fields
      BY <2>1
    <2>6. Registered(fields, item.regs, RegPlaces("CALLSYMBOLIC"))
      BY <2>1, <2>2 DEF Registered
    <2> QED
      BY <1>12, <2>3, <2>4, <2>5, <2>6 DEF Laid, Inside, fields, DestTypes
  <1>13. CASE ItemType(item.b) = "INVOKEADDRESS"
    <2>1. fields = {op,
                    [at |-> 1, width |-> 3, val |-> 0],
                    [at |-> 4, width |-> 1, val |-> item.regs[1]],
                    [at |-> 5, width |-> 1, val |-> item.regs[2]]}
      BY <1>13 DEF Fields, TagSize
    <2> HIDE DEF fields
    <2>2. Length(item.b) = 6 /\ RegPlaces("INVOKEADDRESS") = <<4, 5>>
      BY <1>13 DEF Length, TagSize, RegPlaces
    <2>3. Spread(fields)
      BY <2>1 DEF Spread
    <2>4. Inside(fields, Length(item.b))
      BY <2>1, <2>2 DEF Inside
    <2>5. op \in fields
      BY <2>1
    <2>6. Registered(fields, item.regs, RegPlaces("INVOKEADDRESS"))
      BY <2>1, <2>2 DEF Registered
    <2> QED
      BY <1>13, <2>3, <2>4, <2>5, <2>6 DEF Laid, Inside, fields, DestTypes
  <1>14. CASE ItemType(item.b) = "INVOKEPRIMITIVE"
    <2>1. fields = {op,
                    [at |-> 1, width |-> 1, val |-> item.regs[1]],
                    [at |-> 2, width |-> 1, val |-> item.regs[2]]}
      BY <1>14 DEF Fields, TagSize
    <2> HIDE DEF fields
    <2>2. Length(item.b) = 3 /\ RegPlaces("INVOKEPRIMITIVE") = <<1, 2>>
      BY <1>14 DEF Length, TagSize, RegPlaces
    <2>3. Spread(fields)
      BY <2>1 DEF Spread
    <2>4. Inside(fields, Length(item.b))
      BY <2>1, <2>2 DEF Inside
    <2>5. op \in fields
      BY <2>1
    <2>6. Registered(fields, item.regs, RegPlaces("INVOKEPRIMITIVE"))
      BY <2>1, <2>2 DEF Registered
    <2> QED
      BY <1>14, <2>3, <2>4, <2>5, <2>6 DEF Laid, Inside, fields, DestTypes
  <1> QED
    BY TypeFacts, <1>1, <1>2, <1>3, <1>4, <1>5, <1>6, <1>7, <1>8, <1>9, <1>10, <1>11, <1>12, <1>13, <1>14

--------------------------------------------------------------------------------
(* What Write leaves and what it writes *)

LEMMA WriteElsewhere ==
  ASSUME NEW data, NEW at \in Nat, NEW fields, NEW a \in DOMAIN data, a \in Nat,
         \A f \in fields : f.at \in Nat /\ f.width \in Nat,
         \A f \in fields : a < at + f.at \/ at + f.at + f.width <= a
  PROVE  Write(data, at, fields)[a] = data[a]
  <1> DEFINE here == {f \in fields : a \in at + f.at .. at + f.at + f.width - 1}
  <1>1. Write(data, at, fields)[a] =
          IF here = {} THEN data[a] ELSE LET f == CHOOSE f \in here : TRUE IN Byte(f.val, a - at - f.at)
    BY DEF Write
  <1>2. \A p, w \in Nat : a < at + p \/ at + p + w <= a => ~(a \in at + p .. at + p + w - 1)
    OBVIOUS
  <1>3. \A f \in fields : ~(a \in at + f.at .. at + f.at + f.width - 1)
    BY <1>2
  <1>4. here = {}
    BY <1>3
  <1> HIDE DEF here
  <1> QED
    BY <1>1, <1>4

LEMMA WriteField ==
  ASSUME NEW data, NEW at \in Nat, NEW fields,
         \A g \in fields : g.at \in Nat /\ g.width \in Nat,
         Spread(fields), NEW f \in fields,
         NEW k \in Nat, k < f.width, at + f.at + k \in DOMAIN data
  PROVE  Write(data, at, fields)[at + f.at + k] = Byte(f.val, k)
  <1>1. PICK p \in Nat : p = f.at
    OBVIOUS
  <1>2. PICK w \in Nat : w = f.width
    OBVIOUS
  <1> DEFINE a == at + f.at + k
             here == {g \in fields : a \in at + g.at .. at + g.at + g.width - 1}
  <1>3. Write(data, at, fields)[a] =
          IF here = {} THEN data[a] ELSE LET g == CHOOSE g \in here : TRUE IN Byte(g.val, a - at - g.at)
    BY DEF Write
  <1>4. a \in Nat /\ a = at + p + k /\ k < w
    BY <1>1, <1>2
  <1>5. a \in at + p .. at + p + w - 1 /\ a - at - p = k
    BY <1>4
  <1>6. f \in here
    BY <1>1, <1>2, <1>5
  <1>7. \A q, v \in Nat : a \in at + q .. at + q + v - 1 => ~(p + w <= q) /\ ~(q + v <= p)
    BY <1>4
  <1>8. \A g \in here : g = f
    <2> SUFFICES ASSUME NEW g \in here PROVE g = f
      OBVIOUS
    <2>1. g \in fields /\ a \in at + g.at .. at + g.at + g.width - 1
      OBVIOUS
    <2> HIDE DEF here, a
    <2>2. ~(f.at + f.width <= g.at) /\ ~(g.at + g.width <= f.at)
      BY <2>1, <1>7, <1>1, <1>2
    <2> QED
      BY <2>1, <2>2 DEF Spread
  <1> HIDE DEF here
  <1>9. (CHOOSE g \in here : TRUE) = f /\ here # {}
    BY <1>6, <1>8
  <1>10. Write(data, at, fields)[a] = Byte(f.val, a - at - f.at)
    BY <1>3, <1>9
  <1>11. a - at - f.at = k
    BY <1>1, <1>5
  <1> HIDE DEF a
  <1>12. Write(data, at, fields)[a] = Byte(f.val, k)
    BY <1>10, <1>11
  <1> QED
    BY <1>12 DEF a

LEMMA WriteDomain ==
  ASSUME NEW data, NEW at, NEW fields
  PROVE  DOMAIN Write(data, at, fields) = DOMAIN data
  BY DEF Write

\* One field at the address itself, as in a patch, a relocation or a constant.
WriteAt(data, at, width, val) == Write(data, at, {[at |-> 0, width |-> width, val |-> val]})
LEMMA WriteOne ==
  ASSUME NEW data, NEW at \in Nat, NEW width \in Nat, NEW val
  PROVE  LET one == WriteAt(data, at, width, val)
         IN /\ DOMAIN one = DOMAIN data
            /\ \A k \in Nat : k < width /\ at + k \in DOMAIN data => one[at + k] = Byte(val, k)
            /\ \A a \in Nat : a \in DOMAIN data /\ (a < at \/ at + width <= a) => one[a] = data[a]
  <1> DEFINE f == [at |-> 0, width |-> width, val |-> val]
             one == Write(data, at, {f})
  <1>1. f.at = 0 /\ f.width = width /\ f.val = val
    OBVIOUS
  <1> HIDE DEF f
  <1>2. Spread({f}) /\ \A g \in {f} : g.at \in Nat /\ g.width \in Nat
    BY <1>1 DEF Spread
  <1>3. ASSUME NEW k \in Nat, k < width, at + k \in DOMAIN data PROVE one[at + k] = Byte(val, k)
    <2>1. at + f.at + k = at + k /\ k < f.width
      BY <1>1, <1>3
    <2>2. one[at + f.at + k] = Byte(f.val, k)
      BY <1>2, <1>3, <2>1, WriteField
    <2> QED
      BY <2>1, <2>2, <1>1
  <1>4. ASSUME NEW a \in Nat, a \in DOMAIN data, a < at \/ at + width <= a PROVE one[a] = data[a]
    <2>1. \A g \in {f} : a < at + g.at \/ at + g.at + g.width <= a
      BY <1>1, <1>4
    <2> QED
      BY <1>2, <1>4, <2>1, WriteElsewhere
  <1>5. DOMAIN one = DOMAIN data
    BY WriteDomain
  <1>6. one = WriteAt(data, at, width, val)
    BY DEF WriteAt, f
  <1> HIDE DEF one
  <1> QED
    BY <1>3, <1>4, <1>5, <1>6

--------------------------------------------------------------------------------
(* The interpreter reads what was built *)

\* The chunk under construction, as one that was loaded to address 0.
Now == [start |-> 0, placed |-> placed]
End(p) == p.at + Length(p.item.b)

\* The instructions placed are one behind the other, inside the chunk's size.
Shaped(l, size) ==
  /\ \E S : l.placed \in Seq(S)
  /\ \A i \in DOMAIN l.placed : l.placed[i].at \in Nat /\ l.placed[i].item \in Items
  /\ \A i \in Ops(l) : l.placed[i].item.b \in Emitted /\ End(l.placed[i]) <= size
  /\ \A i, j \in Ops(l) : i < j => End(l.placed[i]) <= l.placed[j].at
  /\ \A i, j \in Ops(l) :
       (j > i /\ \A k \in Ops(l) : k > i => j <= k) => l.placed[j].at = End(l.placed[i])
\* The next one will be right behind the last one.
Compact(l, size) == \A i \in Ops(l) : (\A k \in Ops(l) : k <= i) => size = End(l.placed[i])

\* The i-th entry's address to be relocated is one of the first n in the list, and its
\* constant: each is in its list, and once.
Moved(l, i, relocs, n) ==
  LET b == l.placed[i].item.b
  IN /\ Relocation(b) # 0
     /\ \E r \in DOMAIN relocs : r <= n /\ relocs[r] = l.placed[i].at + Relocation(b)
Asked(cnst, p) ==
  /\ p.item.b \in Constants /\ cnst.index = p.at + ConstantAt(p.item.b)
  /\ cnst.type = ConstantType(p.item.b) /\ cnst.name = p.item.name
Linked(l, i, constants, n) == \E r \in DOMAIN constants : r <= n /\ Asked(constants[r], l.placed[i])
Listed(l, relocs) ==
  /\ \A r \in DOMAIN relocs : \E i \in Ops(l) :
       LET b == l.placed[i].item.b
       IN Relocation(b) # 0 /\ relocs[r] = l.placed[i].at + Relocation(b)
  /\ \A i \in Ops(l) : Relocation(l.placed[i].item.b) # 0 => Moved(l, i, relocs, Len(relocs))
  /\ \A r, s \in DOMAIN relocs : relocs[r] = relocs[s] => r = s
Collected(l, constants) ==
  /\ \A r \in DOMAIN constants : \E i \in Ops(l) : Asked(constants[r], l.placed[i])
  /\ \A i \in Ops(l) : l.placed[i].item.b \in Constants => Linked(l, i, constants, Len(constants))
  /\ \A r, s \in DOMAIN constants : constants[r].index = constants[s].index => r = s

\* A block has its own number, that of everything placed in it.
Numbered(l, bs, n) ==
  /\ \A k \in DOMAIN bs : bs[k].id <= n
  /\ \A k, m \in DOMAIN bs : bs[k].id = bs[m].id => k = m
  /\ \A i \in DOMAIN l.placed : l.placed[i].block \in Nat /\ l.placed[i].block <= n
\* Its labels are those placed in it.
IsLabel(l, j, id, name) ==
  l.placed[j].what = "label" /\ l.placed[j].block = id /\ l.placed[j].item.name = name
Labelling(l, bs) ==
  \A k \in DOMAIN bs : \A name \in Names :
    IF bs[k].labels[name] = NULL THEN \A j \in DOMAIN l.placed : ~IsLabel(l, j, bs[k].id, name)
    ELSE \E j \in DOMAIN l.placed : IsLabel(l, j, bs[k].id, name) /\ l.placed[j].at = bs[k].labels[name]
\* Its uses to be patched are of instructions in it, before any label they can mean.
UseOf(use, p) ==
  p.item.b \in Labelled /\ p.item.name = use.name /\ use.idx = p.at + UseAt(p.item.b)
Pending(l, bs) ==
  \A k \in DOMAIN bs : \A u \in DOMAIN bs[k].uses : \E i \in Ops(l) :
    /\ l.placed[i].block = bs[k].id /\ UseOf(bs[k].uses[u], l.placed[i])
    /\ \A j \in Meant(l, i) : j > i

\* The bytes of an instruction at base are its opcode, its registers and v at its
\* destination.
Part(d, base, p, at, width, v) == \A k \in Nat : k < width => d[base + p.at + at + k] = Byte(v, k)
Legible(d, base, p) ==
  LET instr == Instr(p.item.b)
  IN /\ d[base + p.at] = Opcode[instr]
     /\ \A k \in DOMAIN RegsAt(instr) : d[base + p.at + RegsAt(instr)[k]] = p.item.regs[k]
Wanted(l, i) ==
  IF l.placed[i].item.b \in Labelled THEN {l.placed[j].at : j \in Meant(l, i)} ELSE {l.placed[i].item.n}
Aimed(d, l, i, by) ==
  LET p == l.placed[i]
  IN \E v \in Wanted(l, i) : Part(d, l.start, p, DestAt[Instr(p.item.b)], Wide(p.item.b), v + by)
\* A label is not known yet: it will be patched, or no label can follow in one of the
\* blocks alive.
Awaited(bs, p) ==
  \E k \in DOMAIN bs : \E u \in DOMAIN bs[k].uses : bs[k].id = p.block /\ UseOf(bs[k].uses[u], p)
Lost(l, bs, alive, i) == Meant(l, i) = {} /\ \A k \in alive : bs[k].id # l.placed[i].block
Encoded(d, l, bs, alive, i) ==
  LET b == l.placed[i].item.b
  IN b # "if" =>
       /\ Legible(d, l.start, l.placed[i])
       /\ Instr(b) \in DOMAIN DestAt =>
            Aimed(d, l, i, 0) \/ (b \in Labelled /\ (Awaited(bs, l.placed[i]) \/ Lost(l, bs, alive, i)))
Written(d, l, bs, alive) == ForwardCall(l) \/ \A i \in Ops(l) : Encoded(d, l, bs, alive, i)

\* The blocks where a label may still be placed.
Alive == {k \in DOMAIN blocks : ~(pc = "end" /\ k = Len(blocks))}
Making == pc \in {"process", "end", "chunk", "loading"}
Coded ==
  Making =>
    /\ Shaped(Now, chunk.size) /\ Compact(Now, chunk.size)
    /\ Listed(Now, chunk.relocs) /\ Collected(Now, chunk.constants)
    /\ Numbered(Now, blocks, next) /\ Labelling(Now, blocks) /\ Pending(Now, blocks)
    /\ Written(chunk.data, Now, blocks, Alive)

\* The same of the chunk in the program, with by added to an address and its constant
\* in the pool pl of a VM with symbols st.
Reads(d, l, i, by) ==
  LET b == l.placed[i].item.b
  IN b # "if" =>
       /\ Legible(d, l.start, l.placed[i])
       /\ Instr(b) \in DOMAIN DestAt => Aimed(d, l, i, by) \/ (b \in Labelled /\ Meant(l, i) = {})
Given(d, pl, st, l, i) ==
  LET p == l.placed[i]
  IN \E id \in DOMAIN pl :
       /\ Part(d, l.start, p, ConstantAt(p.item.b), 4, id - 1)
       /\ IF p.item.b = "set_string" THEN pl[id] = [type |-> "string", v |-> p.item.name]
          ELSE pl[id].type = "symbol" /\ pl[id].v \in DOMAIN st /\ st[pl[id].v] = p.item.name
\* When the first r relocations and c constants are applied
Brought(d, pl, st, l, relocs, r, constants, c) ==
  ForwardCall(l) \/ \A i \in Ops(l) :
    /\ Reads(d, l, i, IF Moved(l, i, relocs, r) THEN l.start ELSE 0)
    /\ (l.placed[i].item.b # "set_integer" /\ Linked(l, i, constants, c)) => Given(d, pl, st, l, i)
Arrived(d, pl, st, l) ==
  ForwardCall(l) \/ \A i \in Ops(l) :
    /\ Reads(d, l, i, IF Relocation(l.placed[i].item.b) # 0 THEN l.start ELSE 0)
    /\ l.placed[i].item.b \in Constants \ {"set_integer"} => Given(d, pl, st, l, i)

RelocsDone == CASE part = "debug" -> Len(chunk.relocs) [] part = "relocs" -> done [] OTHER -> 0
ConstantsDone ==
  CASE part \in {"relocs", "debug"} -> Len(chunk.constants) [] part = "constants" -> done [] OTHER -> 0
Coming ==
  pc = "loading" => Brought(program, pool, store, loaded[Len(loaded)],
                            chunk.relocs, RelocsDone, chunk.constants, ConstantsDone)
Past == \A m \in DOMAIN loaded : (pc = "loading" /\ m = Len(loaded)) \/ Arrived(program, pool, store, loaded[m])
\* The chunks loaded do not overlap the one that is being loaded.
Apart ==
  \A m \in DOMAIN loaded :
    /\ loaded[m].start \in Nat
    /\ \E size \in Nat : /\ Shaped(loaded[m], size)
         /\ loaded[m].start + size <= (IF pc = "loading" /\ m # Len(loaded) THEN start ELSE program_size)
Decoding == Coded /\ Coming /\ Past /\ Apart

--------------------------------------------------------------------------------
(* One more entry *)

LEMMA OpsOf ==
  ASSUME NEW l
  PROVE  \A i : i \in Ops(l) <=> i \in DOMAIN l.placed /\ l.placed[i].what = "op"
  BY DEF Ops

LEMMA MeantOf ==
  ASSUME NEW l, NEW i
  PROVE  \A j : j \in Meant(l, i) <=>
           /\ j \in DOMAIN l.placed /\ IsLabel(l, j, l.placed[i].block, l.placed[i].item.name)
  BY DEF Meant, IsLabel

Listing(l) == \E S : l.placed \in Seq(S)
\* m has one more entry than l.
Grown(l, e, m) == Listing(l) /\ m.placed = Append(l.placed, e)
Last(l) == Len(l.placed) + 1

LEMMA EntryAdded ==
  ASSUME NEW l, NEW e, NEW m, Grown(l, e, m)
  PROVE  /\ DOMAIN m.placed = DOMAIN l.placed \cup {Last(l)} /\ Last(l) \notin DOMAIN l.placed
         /\ \A i \in DOMAIN l.placed : m.placed[i] = l.placed[i] /\ i \in Nat /\ i < Last(l)
         /\ m.placed[Last(l)] = e /\ Last(l) \in Nat
         /\ \A i : i \in Ops(m) <=> i \in Ops(l) \/ (i = Last(l) /\ e.what = "op")
  <1>1. PICK S : l.placed \in Seq(S)
    BY DEF Grown, Listing
  <1>2. /\ DOMAIN m.placed = DOMAIN l.placed \cup {Last(l)}
        /\ \A i \in DOMAIN l.placed : m.placed[i] = l.placed[i]
        /\ m.placed[Last(l)] = e /\ Last(l) \notin DOMAIN l.placed /\ Len(l.placed) \in Nat
    BY <1>1, AppendElements DEF Grown, Last
  <1>3. \A i \in DOMAIN l.placed : i \in Nat /\ i < Last(l)
    BY <1>1 DEF Last
  <1>4. Last(l) \in Nat
    BY <1>2 DEF Last
  <1>5. \A i : i \in Ops(m) <=> i \in Ops(l) \/ (i = Last(l) /\ e.what = "op")
    BY <1>2, OpsOf
  <1> QED
    BY <1>2, <1>3, <1>4, <1>5

LEMMA StillListing ==
  ASSUME NEW l, NEW e, NEW m, Grown(l, e, m)
  PROVE  Listing(m)
  <1>1. PICK S : l.placed \in Seq(S)
    BY DEF Grown, Listing
  <1>2. m.placed \in Seq(S \cup {e})
    BY <1>1, AppendElements DEF Grown
  <1> QED
    BY <1>2 DEF Listing

\* A new entry that is no label is meant by none; a new label comes last.
LEMMA MeantAdded ==
  ASSUME NEW l, NEW e, NEW m, Grown(l, e, m), NEW i \in DOMAIN l.placed
  PROVE  /\ \A j \in Meant(l, i) : j \in Meant(m, i) /\ m.placed[j] = l.placed[j]
         /\ \A j \in Meant(m, i) : j \in Meant(l, i) \/ (j = Last(l) /\ j > i)
         /\ \A j \in Meant(m, i) :
              j \in Meant(l, i) \/ (e.what = "label" /\ e.block = l.placed[i].block)
  <1>1. /\ DOMAIN m.placed = DOMAIN l.placed \cup {Last(l)}
        /\ \A k \in DOMAIN l.placed : m.placed[k] = l.placed[k] /\ k < Last(l)
        /\ m.placed[Last(l)] = e
    BY EntryAdded
  <1>2. m.placed[i] = l.placed[i] /\ i < Last(l)
    BY <1>1
  <1> DEFINE block == l.placed[i].block
             name == l.placed[i].item.name
  <1>3. /\ \A j : j \in Meant(l, i) <=> j \in DOMAIN l.placed /\ IsLabel(l, j, block, name)
        /\ \A j : j \in Meant(m, i) <=> j \in DOMAIN m.placed /\ IsLabel(m, j, block, name)
    BY <1>2, MeantOf
  <1>4. \A j \in DOMAIN l.placed : IsLabel(m, j, block, name) <=> IsLabel(l, j, block, name)
    BY <1>1 DEF IsLabel
  <1>5. IsLabel(m, Last(l), block, name) => e.what = "label" /\ e.block = block
    BY <1>1 DEF IsLabel
  <1> HIDE DEF block, name
  <1>6. \A j \in Meant(l, i) : j \in Meant(m, i) /\ m.placed[j] = l.placed[j]
    BY <1>1, <1>3, <1>4
  <1>7. \A j \in Meant(m, i) : j \in Meant(l, i) \/ (j = Last(l) /\ j > i)
    BY <1>1, <1>2, <1>3, <1>4
  <1>8. \A j \in Meant(m, i) : j \in Meant(l, i) \/ (e.what = "label" /\ e.block = block)
    BY <1>1, <1>3, <1>4, <1>5
  <1> QED
    BY <1>6, <1>7, <1>8 DEF block

\* So a call by a label further down stays one.
LEMMA ForwardAdded ==
  ASSUME NEW l, NEW e, NEW m, Grown(l, e, m), ForwardCall(l)
  PROVE  ForwardCall(m)
  <1>1. PICK i \in Ops(l) : l.placed[i].item.b = "call_label" /\ \A j \in Meant(l, i) : j > i
    BY DEF ForwardCall
  <1>2. i \in Ops(m) /\ m.placed[i] = l.placed[i] /\ i \in DOMAIN l.placed
    BY <1>1, EntryAdded, OpsOf
  <1>3. \A j \in Meant(m, i) : j > i
    BY <1>1, <1>2, MeantAdded
  <1> QED
    BY <1>1, <1>2, <1>3 DEF ForwardCall

LEMMA ShapedSame ==
  ASSUME NEW l, NEW m, NEW size, m.placed = l.placed, Shaped(l, size)
  PROVE  Shaped(m, size)
  BY DEF Shaped, Ops

LEMMA LengthIsNat == \A b \in Emitted : Length(b) \in Nat
  BY LayoutFacts

\* The instructions end in order.
LEMMA ShapedGives ==
  ASSUME NEW l, NEW size \in Nat, Shaped(l, size)
  PROVE  /\ Listing(l)
         /\ \A i \in Ops(l) : /\ i \in DOMAIN l.placed /\ i \in Nat /\ l.placed[i].item.b \in Emitted
                              /\ l.placed[i].at \in Nat /\ End(l.placed[i]) \in Nat
                              /\ End(l.placed[i]) <= size /\ l.placed[i].at < End(l.placed[i])
                              /\ l.placed[i].what = "op" /\ l.placed[i].item \in Items
         /\ \A i, j \in Ops(l) :
              i = j \/ End(l.placed[i]) <= l.placed[j].at \/ End(l.placed[j]) <= l.placed[i].at
  <1>1. PICK S : l.placed \in Seq(S)
    BY DEF Shaped
  <1>2. \A i \in DOMAIN l.placed : i \in Nat
    BY <1>1
  <1>3. Listing(l)
    BY <1>1 DEF Listing
  <1>4. \A i \in Ops(l) : /\ i \in DOMAIN l.placed /\ i \in Nat /\ l.placed[i].item.b \in Emitted
                          /\ l.placed[i].at \in Nat /\ End(l.placed[i]) <= size
                          /\ l.placed[i].what = "op" /\ l.placed[i].item \in Items
    <2>1. \A i \in Ops(l) : i \in DOMAIN l.placed /\ l.placed[i].what = "op"
      BY OpsOf
    <2> QED
      BY <1>2, <2>1 DEF Shaped
  <1>5. \A i \in Ops(l) : End(l.placed[i]) \in Nat /\ l.placed[i].at < End(l.placed[i])
    <2>1. \A b \in Emitted : Length(b) \in Nat /\ Length(b) >= 1
      BY LayoutFacts
    <2> QED
      BY <1>4, <2>1 DEF End
  <1>6. \A i, j \in Ops(l) : i < j => End(l.placed[i]) <= l.placed[j].at
    BY DEF Shaped
  <1>7. \A i, j \in Ops(l) :
          i = j \/ End(l.placed[i]) <= l.placed[j].at \/ End(l.placed[j]) <= l.placed[i].at
    <2> TAKE i, j \in Ops(l)
    <2>1. i \in Nat /\ j \in Nat
      BY <1>4
    <2>2. i = j \/ i < j \/ j < i
      BY <2>1
    <2> QED
      BY <2>2, <1>6
  <1> QED
    BY <1>3, <1>4, <1>5, <1>7

LEMMA ShapedAdded ==
  ASSUME NEW l, NEW size \in Nat, Shaped(l, size), Compact(l, size),
         NEW e, e.item \in Items, e.at = size, NEW m, Grown(l, e, m), NEW more \in Nat,
         \/ e.what # "op" /\ more = size
         \/ e.what = "op" /\ e.item.b \in Emitted /\ more = End(e)
  PROVE  Shaped(m, more) /\ Compact(m, more)
  <1> DEFINE new == Last(l)
  <1>2. /\ DOMAIN m.placed = DOMAIN l.placed \cup {new} /\ new \notin DOMAIN l.placed
        /\ \A i \in DOMAIN l.placed : m.placed[i] = l.placed[i] /\ i \in Nat /\ i < new
        /\ m.placed[new] = e /\ new \in Nat
        /\ \A i : i \in Ops(m) <=> i \in Ops(l) \/ (i = new /\ e.what = "op")
    BY EntryAdded
  <1> HIDE DEF new
  <1>3. \A i \in Ops(l) : /\ i \in DOMAIN l.placed /\ i < new /\ i \in Nat /\ m.placed[i] = l.placed[i]
                          /\ End(m.placed[i]) = End(l.placed[i])
                          /\ End(l.placed[i]) \in Nat /\ End(l.placed[i]) <= size
                          /\ l.placed[i].item.b \in Emitted
    BY <1>2, ShapedGives
  <1>5. size <= more
    <2>1. e.what = "op" => End(e) = size + Length(e.item.b) /\ Length(e.item.b) \in Nat
      BY LengthIsNat DEF End
    <2>2. \A n \in Nat : size <= size + n
      OBVIOUS
    <2> QED
      BY <2>1, <2>2
  <1>a. m.placed[new].at = size /\ End(m.placed[new]) = End(e)
    BY <1>2
  <1>7. \A i \in DOMAIN m.placed : m.placed[i].at \in Nat /\ m.placed[i].item \in Items
    <2>1. \A i \in DOMAIN l.placed : l.placed[i].at \in Nat /\ l.placed[i].item \in Items
      BY DEF Shaped
    <2> QED
      BY <1>2, <2>1
  <1>8. \A i \in Ops(m) : m.placed[i].item.b \in Emitted /\ End(m.placed[i]) <= more
    <2> TAKE i \in Ops(m)
    <2>1. CASE i \in Ops(l)
      BY <2>1, <1>3, <1>5
    <2>2. CASE i = new /\ e.what = "op"
      BY <2>2, <1>2
    <2> QED
      BY <2>1, <2>2, <1>2
  <1>9. \A i, j \in Ops(m) : i < j => End(m.placed[i]) <= m.placed[j].at
    <2> SUFFICES ASSUME NEW i \in Ops(m), NEW j \in Ops(m), i < j
                 PROVE  End(m.placed[i]) <= m.placed[j].at
      OBVIOUS
    <2>1. i \in Ops(l)
      BY <1>2, <1>3
    <2>2. CASE j \in Ops(l)
      <3>1. End(l.placed[i]) <= l.placed[j].at
        BY <2>1, <2>2 DEF Shaped
      <3> QED
        BY <2>1, <2>2, <3>1, <1>3
    <2>3. CASE j = new
      <3>1. m.placed[j].at = size
        BY <2>3, <1>a
      <3>2. End(m.placed[i]) \in Nat /\ End(m.placed[i]) <= size
        BY <2>1, <1>3
      <3> QED
        BY <3>1, <3>2
    <2> QED
      BY <2>2, <2>3, <1>2
  <1>10. \A i, j \in Ops(m) :
           (j > i /\ \A k \in Ops(m) : k > i => j <= k) => m.placed[j].at = End(m.placed[i])
    <2> SUFFICES ASSUME NEW i \in Ops(m), NEW j \in Ops(m), j > i, \A k \in Ops(m) : k > i => j <= k
                 PROVE  m.placed[j].at = End(m.placed[i])
      OBVIOUS
    <2>1. i \in Ops(l) /\ \A k \in Ops(l) : k > i => j <= k
      BY <1>2, <1>3
    <2>2. CASE j \in Ops(l)
      <3>1. l.placed[j].at = End(l.placed[i])
        BY <2>1, <2>2 DEF Shaped
      <3> QED
        BY <2>1, <2>2, <3>1, <1>3
    <2>3. CASE j = new
      <3>1. \A k \in Ops(l) : k \in Nat /\ k < new
        BY <1>3
      <3>2. \A k \in Ops(l) : ~(k > i)
        <4> TAKE k \in Ops(l)
        <4>1. k \in Nat /\ k < new /\ new \in Nat
          BY <3>1, <1>2
        <4>2. k > i => new <= k
          BY <2>1, <2>3
        <4> QED
          BY <4>1, <4>2
      <3>3. i \in Nat
        BY <2>1, <1>3
      <3>4. \A k \in Ops(l) : k <= i
        BY <3>1, <3>2, <3>3
      <3>5. size = End(l.placed[i])
        BY <2>1, <3>4 DEF Compact
      <3> QED
        BY <2>1, <2>3, <3>5, <1>a, <1>3
    <2> QED
      BY <2>2, <2>3, <1>2
  <1>11. Compact(m, more)
    <2> SUFFICES ASSUME NEW i \in Ops(m), \A k \in Ops(m) : k <= i
                 PROVE  more = End(m.placed[i])
      BY DEF Compact
    <2>1. CASE e.what = "op"
      <3>1. new \in Ops(m) /\ new <= i
        BY <2>1, <1>2
      <3>2. i \in Ops(l) => i \in Nat /\ i < new
        BY <1>3
      <3>3. i \in Ops(l) \/ i = new
        BY <1>2
      <3>4. i = new
        BY <3>1, <3>2, <3>3, <1>2
      <3>5. End(m.placed[i]) = End(e)
        BY <3>4, <1>a, Zenon
      <3> QED
        BY <2>1, <3>5
    <2>2. CASE e.what # "op"
      <3>1. i \in Ops(l) /\ \A k \in Ops(l) : k <= i
        BY <2>2, <1>2
      <3>2. size = End(l.placed[i])
        BY <3>1 DEF Compact
      <3> QED
        BY <2>2, <3>1, <3>2, <1>3
    <2> QED
      BY <2>1, <2>2
  <1>12. \E S : m.placed \in Seq(S)
    BY StillListing DEF Listing
  <1> QED
    BY <1>7, <1>8, <1>9, <1>10, <1>11, <1>12 DEF Shaped

--------------------------------------------------------------------------------
(* Where the parts are *)

\* A register is behind the opcode, inside the instruction, and apart from the
\* destination and from the constant's id.
RegisterAt(b, r) ==
  /\ r \in Nat /\ 1 <= r /\ r + 1 <= Length(b)
  /\ ItemType(b) \in DestTypes =>
       r + 1 <= DestPlace(ItemType(b)) \/ DestPlace(ItemType(b)) + Wide(b) <= r
  /\ ItemType(b) \in {"H", "CALLSYMBOLIC"} => r + 1 <= ConstantAt(b) \/ ConstantAt(b) + 4 <= r

LEMMA RegisterPlaces ==
  ASSUME NEW b \in Emitted, b = "jump" <=> ItemType(b) = "E", NEW k \in DOMAIN RegPlaces(ItemType(b))
  PROVE  RegisterAt(b, RegPlaces(ItemType(b))[k])
  <1>1. CASE ItemType(b) = "F"
    <2>1. RegPlaces(ItemType(b)) = <<>> /\ Length(b) = 1
      BY <1>1 DEF RegPlaces, Length, TagSize
    <2> QED
      BY <2>1
  <1>2. CASE ItemType(b) = "A1"
    <2>1. RegPlaces(ItemType(b)) = <<1>> /\ Length(b) = 2
      BY <1>2 DEF RegPlaces, Length, TagSize
    <2>2. RegPlaces(ItemType(b))[k] \in {1}
      BY <2>1
    <2> QED
      BY <1>2, <2>1, <2>2 DEF RegisterAt, DestTypes
  <1>3. CASE ItemType(b) = "A2"
    <2>1. RegPlaces(ItemType(b)) = <<1, 2>> /\ Length(b) = 3
      BY <1>3 DEF RegPlaces, Length, TagSize
    <2>2. RegPlaces(ItemType(b))[k] \in {1, 2}
      BY <2>1
    <2> QED
      BY <1>3, <2>1, <2>2 DEF RegisterAt, DestTypes
  <1>4. CASE ItemType(b) = "A3"
    <2>1. RegPlaces(ItemType(b)) = <<1, 2, 3>> /\ Length(b) = 4
      BY <1>4 DEF RegPlaces, Length, TagSize
    <2>2. RegPlaces(ItemType(b))[k] \in {1, 2, 3}
      BY <2>1
    <2> QED
      BY <1>4, <2>1, <2>2 DEF RegisterAt, DestTypes
  <1>5. CASE ItemType(b) = "E"
    <2>1. RegPlaces(ItemType(b)) = <<>> /\ Length(b) = 5
      BY <1>5 DEF RegPlaces, Length, TagSize
    <2> QED
      BY <2>1
  <1>6. CASE ItemType(b) = "D1"
    <2>1. RegPlaces(ItemType(b)) = <<>> /\ Length(b) = 9
      BY <1>6 DEF RegPlaces, Length, TagSize
    <2> QED
      BY <2>1
  <1>7. CASE ItemType(b) = "D2"
    <2>1. RegPlaces(ItemType(b)) = <<9>> /\ Length(b) = 10
      BY <1>7 DEF RegPlaces, Length, TagSize
    <2>2. RegPlaces(ItemType(b))[k] \in {9}
      BY <2>1
    <2>3. DestPlace(ItemType(b)) = 1 /\ Wide(b) = 8
      BY <1>7 DEF DestPlace, Wide
    <2> QED
      BY <1>7, <2>1, <2>2, <2>3 DEF RegisterAt, DestTypes
  <1>8. CASE ItemType(b) = "D3"
    <2>1. RegPlaces(ItemType(b)) = <<1>> /\ Length(b) = 10
      BY <1>8 DEF RegPlaces, Length, TagSize
    <2>2. RegPlaces(ItemType(b))[k] \in {1}
      BY <2>1
    <2>3. DestPlace(ItemType(b)) = 2 /\ Wide(b) = 8
      BY <1>8 DEF DestPlace, Wide
    <2> QED
      BY <1>8, <2>1, <2>2, <2>3 DEF RegisterAt, DestTypes
  <1>9. CASE ItemType(b) = "G"
    <2>1. RegPlaces(ItemType(b)) = <<1>> /\ Length(b) = 10
      BY <1>9 DEF RegPlaces, Length, TagSize
    <2>2. RegPlaces(ItemType(b))[k] \in {1}
      BY <2>1
    <2>3. DestPlace(ItemType(b)) = 2 /\ Wide(b) = 8
      BY <1>9 DEF DestPlace, Wide
    <2> QED
      BY <1>9, <2>1, <2>2, <2>3 DEF RegisterAt, DestTypes
  <1>10. CASE ItemType(b) = "H"
    <2>1. RegPlaces(ItemType(b)) = <<1>> /\ Length(b) = 6
      BY <1>10 DEF RegPlaces, Length, TagSize
    <2>2. RegPlaces(ItemType(b))[k] \in {1}
      BY <2>1
    <2>3. ConstantAt(b) = 2
      BY <1>10 DEF ConstantAt, TagSize
    <2> QED
      BY <1>10, <2>1, <2>2, <2>3 DEF RegisterAt, DestTypes
  <1>11. CASE ItemType(b) = "CALL"
    <2>1. RegPlaces(ItemType(b)) = <<12>> /\ Length(b) = 13
      BY <1>11 DEF RegPlaces, Length, TagSize
    <2>2. RegPlaces(ItemType(b))[k] \in {12}
      BY <2>1
    <2>3. DestPlace(ItemType(b)) = 4 /\ Wide(b) = 8
      BY <1>11 DEF DestPlace, Wide
    <2> QED
      BY <1>11, <2>1, <2>2, <2>3 DEF RegisterAt, DestTypes
  <1>12. CASE ItemType(b) = "CALLSYMBOLIC"
    <2>1. RegPlaces(ItemType(b)) = <<8>> /\ Length(b) = 9
      BY <1>12 DEF RegPlaces, Length, TagSize
    <2>2. RegPlaces(ItemType(b))[k] \in {8}
      BY <2>1
    <2>3. ConstantAt(b) = 4
      BY <1>12 DEF ConstantAt, TagSize
    <2> QED
      BY <1>12, <2>1, <2>2, <2>3 DEF RegisterAt, DestTypes
  <1>13. CASE ItemType(b) = "INVOKEADDRESS"
    <2>1. RegPlaces(ItemType(b)) = <<4, 5>> /\ Length(b) = 6
      BY <1>13 DEF RegPlaces, Length, TagSize
    <2>2. RegPlaces(ItemType(b))[k] \in {4, 5}
      BY <2>1
    <2> QED
      BY <1>13, <2>1, <2>2 DEF RegisterAt, DestTypes
  <1>14. CASE ItemType(b) = "INVOKEPRIMITIVE"
    <2>1. RegPlaces(ItemType(b)) = <<1, 2>> /\ Length(b) = 3
      BY <1>14 DEF RegPlaces, Length, TagSize
    <2>2. RegPlaces(ItemType(b))[k] \in {1, 2}
      BY <2>1
    <2> QED
      BY <1>14, <2>1, <2>2 DEF RegisterAt, DestTypes
  <1> QED
    BY TypeFacts, <1>1, <1>2, <1>3, <1>4, <1>5, <1>6, <1>7, <1>8, <1>9, <1>10, <1>11, <1>12, <1>13, <1>14

LEMMA DestPlaces ==
  ASSUME NEW b \in Emitted, b = "jump" <=> ItemType(b) = "E", ItemType(b) \in DestTypes
  PROVE  /\ DestPlace(ItemType(b)) \in Nat /\ 1 <= DestPlace(ItemType(b))
         /\ DestPlace(ItemType(b)) + Wide(b) <= Length(b) /\ b \notin Constants
         /\ Wide(b) = IF ItemType(b) = "E" THEN 4 ELSE 8
  <1>1. CASE ItemType(b) = "D1"
    <2>1. DestPlace(ItemType(b)) = 1 /\ Length(b) = 9 /\ Wide(b) = 8
      BY <1>1 DEF DestPlace, Length, TagSize, Wide
    <2> QED
      BY <1>1, <2>1, TypeFacts
  <1>2. CASE ItemType(b) = "D2"
    <2>1. DestPlace(ItemType(b)) = 1 /\ Length(b) = 10 /\ Wide(b) = 8
      BY <1>2 DEF DestPlace, Length, TagSize, Wide
    <2> QED
      BY <1>2, <2>1, TypeFacts
  <1>3. CASE ItemType(b) = "E"
    <2>1. DestPlace(ItemType(b)) = 1 /\ Length(b) = 5 /\ Wide(b) = 4
      BY <1>3 DEF DestPlace, Length, TagSize, Wide
    <2> QED
      BY <1>3, <2>1, TypeFacts
  <1>4. CASE ItemType(b) = "D3"
    <2>1. DestPlace(ItemType(b)) = 2 /\ Length(b) = 10 /\ Wide(b) = 8
      BY <1>4 DEF DestPlace, Length, TagSize, Wide
    <2> QED
      BY <1>4, <2>1, TypeFacts
  <1>5. CASE ItemType(b) = "G"
    <2>1. DestPlace(ItemType(b)) = 2 /\ Length(b) = 10 /\ Wide(b) = 8
      BY <1>5 DEF DestPlace, Length, TagSize, Wide
    <2> QED
      BY <1>5, <2>1, TypeFacts
  <1>6. CASE ItemType(b) = "CALL"
    <2>1. DestPlace(ItemType(b)) = 4 /\ Length(b) = 13 /\ Wide(b) = 8
      BY <1>6 DEF DestPlace, Length, TagSize, Wide
    <2> QED
      BY <1>6, <2>1, TypeFacts
  <1> QED
    BY <1>1, <1>2, <1>3, <1>4, <1>5, <1>6 DEF DestTypes

\* The same, as the interpreter has it.
LEMMA Offsets ==
  ASSUME NEW b \in Emitted, b # "if"
  PROVE  /\ \A k \in DOMAIN RegsAt(Instr(b)) : RegisterAt(b, RegsAt(Instr(b))[k])
         /\ Instr(b) \in DOMAIN DestAt =>
              /\ DestAt[Instr(b)] = DestPlace(ItemType(b)) /\ ItemType(b) \in DestTypes
              /\ DestAt[Instr(b)] \in Nat /\ 1 <= DestAt[Instr(b)]
              /\ DestAt[Instr(b)] + Wide(b) <= Length(b) /\ b \notin Constants
         /\ b \in Constants => /\ ItemType(b) \in {"H", "CALLSYMBOLIC"} /\ Instr(b) \notin DOMAIN DestAt
                               /\ ConstantAt(b) \in Nat /\ 1 <= ConstantAt(b)
                               /\ ConstantAt(b) + 4 <= Length(b)
         /\ Wide(b) \in Nat /\ Length(b) \in Nat
  <1>1. /\ RegsAt(Instr(b)) = RegPlaces(ItemType(b))
        /\ Instr(b) \in DOMAIN DestAt <=> ItemType(b) \in DestTypes
        /\ Instr(b) \in DOMAIN DestAt => DestAt[Instr(b)] = DestPlace(ItemType(b))
        /\ b = "jump" <=> ItemType(b) = "E"
    BY Rows DEF Row
  <1>2. \A k \in DOMAIN RegsAt(Instr(b)) : RegisterAt(b, RegsAt(Instr(b))[k])
    BY <1>1, RegisterPlaces
  <1>3. Instr(b) \in DOMAIN DestAt =>
          /\ DestAt[Instr(b)] = DestPlace(ItemType(b)) /\ ItemType(b) \in DestTypes
          /\ DestAt[Instr(b)] \in Nat /\ 1 <= DestAt[Instr(b)]
          /\ DestAt[Instr(b)] + Wide(b) <= Length(b) /\ b \notin Constants
    BY <1>1, DestPlaces
  <1>4. b \in Constants => ItemType(b) \in {"H", "CALLSYMBOLIC"}
    BY TypeFacts
  <1>5. b \in Constants => ConstantAt(b) \in Nat /\ 1 <= ConstantAt(b) /\ ConstantAt(b) + 4 <= Length(b)
    BY LayoutFacts DEF ConstantAt, TagSize
  <1>6. Wide(b) \in Nat /\ Length(b) \in Nat
    BY LengthIsNat DEF Wide
  <1> QED
    BY <1>2, <1>3, <1>4, <1>5, <1>6

--------------------------------------------------------------------------------
(* The bytes of an instruction, copied or left alone *)

Copied(d, from, e, to, p) ==
  \A a \in Nat : p.at <= a /\ a < End(p) => e[to + a] = d[from + a]
\* The width bytes at offset o of the instruction
LEMMA PartCopied ==
  ASSUME NEW d, NEW e, NEW from \in Nat, NEW to \in Nat, NEW p, p.at \in Nat, p.item.b \in Emitted,
         Copied(d, from, e, to, p),
         NEW o \in Nat, NEW width \in Nat, o + width <= Length(p.item.b), NEW v,
         Part(d, from, p, o, width, v)
  PROVE  Part(e, to, p, o, width, v)
  <1> SUFFICES ASSUME NEW k \in Nat, k < width PROVE e[to + p.at + o + k] = Byte(v, k)
    BY DEF Part
  <1>1. PICK at \in Nat : at = p.at
    OBVIOUS
  <1>2. PICK n \in Nat : n = Length(p.item.b)
    BY LengthIsNat
  <1>3. End(p) = at + n
    BY <1>1, <1>2 DEF End
  <1>4. PICK a \in Nat : a = at + o + k
    BY <1>1
  <1>5. at <= a /\ a < at + n
    BY <1>2, <1>4
  <1>6. e[to + a] = d[from + a]
    BY <1>1, <1>3, <1>5 DEF Copied
  <1>7. to + a = to + p.at + o + k /\ from + a = from + p.at + o + k
    BY <1>1, <1>4
  <1>8. d[from + p.at + o + k] = Byte(v, k)
    BY DEF Part
  <1> QED
    BY <1>6, <1>7, <1>8

LEMMA LegibleCopied ==
  ASSUME NEW d, NEW e, NEW from \in Nat, NEW to \in Nat, NEW p, p.at \in Nat, p.item.b \in Emitted,
         p.item.b # "if", Copied(d, from, e, to, p), Legible(d, from, p)
  PROVE  Legible(e, to, p)
  <1> DEFINE instr == Instr(p.item.b)
  <1>1. PICK at \in Nat : at = p.at
    OBVIOUS
  <1>2. PICK n \in Nat : n = Length(p.item.b)
    BY LengthIsNat
  <1>3. End(p) = at + n /\ 1 <= n
    BY <1>1, <1>2, LayoutFacts DEF End
  <1>4. e[to + p.at] = Opcode[instr]
    <2>1. e[to + at] = d[from + at]
      BY <1>1, <1>2, <1>3 DEF Copied
    <2> QED
      BY <1>1, <2>1 DEF Legible
  <1>5. ASSUME NEW k \in DOMAIN RegsAt(instr)
        PROVE  e[to + p.at + RegsAt(instr)[k]] = p.item.regs[k]
    <2>1. RegisterAt(p.item.b, RegsAt(instr)[k])
      BY Offsets
    <2>2. PICK r \in Nat : r = RegsAt(instr)[k] /\ r + 1 <= n
      BY <1>2, <2>1 DEF RegisterAt
    <2>3. PICK a \in Nat : a = at + r
      OBVIOUS
    <2>4. at <= a /\ a < at + n
      BY <1>2, <2>2, <2>3
    <2>5. e[to + a] = d[from + a]
      BY <1>1, <1>3, <2>4 DEF Copied
    <2>6. to + a = to + p.at + RegsAt(instr)[k] /\ from + a = from + p.at + RegsAt(instr)[k]
      BY <1>1, <2>2, <2>3
    <2>7. d[from + p.at + RegsAt(instr)[k]] = p.item.regs[k]
      BY DEF Legible
    <2> QED
      BY <2>5, <2>6, <2>7
  <1> QED
    BY <1>4, <1>5 DEF Legible

LEMMA AimedCopied ==
  ASSUME NEW d, NEW e, NEW l, l.start \in Nat, NEW m, m.start \in Nat, NEW i,
         m.placed[i] = l.placed[i], l.placed[i].at \in Nat, l.placed[i].item.b \in Emitted,
         l.placed[i].item.b # "if", Instr(l.placed[i].item.b) \in DOMAIN DestAt,
         Copied(d, l.start, e, m.start, l.placed[i]), Wanted(l, i) \subseteq Wanted(m, i),
         NEW by, Aimed(d, l, i, by)
  PROVE  Aimed(e, m, i, by)
  <1>0. PICK p : p = l.placed[i]
    OBVIOUS
  <1> DEFINE at == DestAt[Instr(p.item.b)]
  <1>1. PICK v \in Wanted(l, i) : Part(d, l.start, p, at, Wide(p.item.b), v + by)
    BY <1>0 DEF Aimed
  <1>2. at \in Nat /\ at + Wide(p.item.b) <= Length(p.item.b) /\ Wide(p.item.b) \in Nat
    BY <1>0, Offsets
  <1> HIDE DEF at
  <1>a. p.at \in Nat /\ p.item.b \in Emitted /\ Copied(d, l.start, e, m.start, p)
    BY <1>0
  <1>3. Part(e, m.start, p, at, Wide(p.item.b), v + by)
    BY <1>a, <1>1, <1>2, PartCopied
  <1> QED
    BY <1>0, <1>1, <1>3 DEF Aimed, at

\* What is meant only grows.
LEMMA WantedAdded ==
  ASSUME NEW l, NEW e, NEW m, Grown(l, e, m), NEW i \in DOMAIN l.placed
  PROVE  Wanted(l, i) \subseteq Wanted(m, i)
  <1>1. m.placed[i] = l.placed[i]
    BY EntryAdded
  <1>2. \A j \in Meant(l, i) : j \in Meant(m, i) /\ m.placed[j] = l.placed[j]
    BY MeantAdded
  <1>3. CASE l.placed[i].item.b \in Labelled
    <2>1. /\ \A v : v \in Wanted(l, i) <=> \E j \in Meant(l, i) : v = l.placed[j].at
          /\ \A v : v \in Wanted(m, i) <=> \E j \in Meant(m, i) : v = m.placed[j].at
      BY <1>1, <1>3 DEF Wanted
    <2> QED
      BY <1>2, <2>1
  <1>4. CASE l.placed[i].item.b \notin Labelled
    BY <1>1, <1>4 DEF Wanted
  <1> QED
    BY <1>3, <1>4

--------------------------------------------------------------------------------
(* The chunk's relocations and constants *)

\* An offset in one instruction is none in another.
LEMMA OwnOffset ==
  ASSUME NEW l, NEW size \in Nat, Shaped(l, size), NEW i \in Ops(l), NEW j \in Ops(l),
         NEW o \in Nat, o < Length(l.placed[i].item.b), NEW q \in Nat, q < Length(l.placed[j].item.b),
         l.placed[i].at + o = l.placed[j].at + q
  PROVE  i = j
  <1>1. PICK a \in Nat : a = l.placed[i].at
    BY ShapedGives
  <1>2. PICK b \in Nat : b = l.placed[j].at
    BY ShapedGives
  <1>3. PICK n \in Nat : n = Length(l.placed[i].item.b)
    BY ShapedGives, LengthIsNat
  <1>4. PICK m \in Nat : m = Length(l.placed[j].item.b)
    BY ShapedGives, LengthIsNat
  <1>5. End(l.placed[i]) = a + n /\ End(l.placed[j]) = b + m
    BY <1>1, <1>2, <1>3, <1>4 DEF End
  <1>6. i = j \/ a + n <= b \/ b + m <= a
    BY <1>1, <1>2, <1>5, ShapedGives
  <1>7. a + o = b + q /\ o < n /\ q < m
    BY <1>1, <1>2, <1>3, <1>4
  <1>8. ~(a + n <= b) /\ ~(b + m <= a)
    BY <1>7
  <1> QED
    BY <1>6, <1>8

\* The places to be relocated and those of constants are inside their instructions.
LEMMA ListOffsets ==
  ASSUME NEW b \in Emitted
  PROVE  /\ Relocation(b) # 0 => Relocation(b) \in Nat /\ Relocation(b) < Length(b)
         /\ b \in Constants => ConstantAt(b) \in Nat /\ ConstantAt(b) < Length(b)
  BY LayoutFacts

LEMMA OpAdded ==
  ASSUME NEW l, NEW e, NEW m, Grown(l, e, m)
  PROVE  /\ \A i \in Ops(l) : i \in Ops(m) /\ m.placed[i] = l.placed[i] /\ i # Last(l)
         /\ e.what = "op" => Last(l) \in Ops(m) /\ m.placed[Last(l)] = e
         /\ \A i \in Ops(m) : (i \in Ops(l) /\ i # Last(l)) \/ (i = Last(l) /\ e.what = "op" /\ m.placed[i] = e)
  <1>1. \A i \in Ops(l) : i \in DOMAIN l.placed
    BY OpsOf
  <1> QED
    BY <1>1, EntryAdded

\* A list in which every element is of one instruction of a kind, and every one of them
\* has one: the relocations, and the constants.
MovedBy(relocs, r, p) == Relocation(p.item.b) # 0 /\ relocs[r] = p.at + Relocation(p.item.b)

LEMMA ListedIs ==
  ASSUME NEW l, NEW relocs
  PROVE  /\ \A i, n : Moved(l, i, relocs, n) <=>
                        \E r \in DOMAIN relocs : r <= n /\ MovedBy(relocs, r, l.placed[i])
         /\ Listed(l, relocs) <=>
              /\ \A r \in DOMAIN relocs : \E i \in Ops(l) : MovedBy(relocs, r, l.placed[i])
              /\ \A i \in Ops(l) : Relocation(l.placed[i].item.b) # 0 => Moved(l, i, relocs, Len(relocs))
              /\ \A r, s \in DOMAIN relocs : relocs[r] = relocs[s] => r = s
  <1>1. \A i, n : Moved(l, i, relocs, n) <=>
                    \E r \in DOMAIN relocs : r <= n /\ MovedBy(relocs, r, l.placed[i])
    BY DEF Moved, MovedBy
  <1>2. \A r \in DOMAIN relocs : (\E i \in Ops(l) : MovedBy(relocs, r, l.placed[i])) <=>
          \E i \in Ops(l) : LET b == l.placed[i].item.b
                            IN Relocation(b) # 0 /\ relocs[r] = l.placed[i].at + Relocation(b)
    BY DEF MovedBy
  <1> QED
    BY <1>1, <1>2 DEF Listed

LEMMA ListedSame ==
  ASSUME NEW l, NEW e, NEW m, Grown(l, e, m), NEW relocs, Listed(l, relocs),
         e.what # "op" \/ Relocation(e.item.b) = 0
  PROVE  Listed(m, relocs)
  <1>1. \A r \in DOMAIN relocs : \E i \in Ops(m) : MovedBy(relocs, r, m.placed[i])
    BY ListedIs, OpAdded
  <1>2. ASSUME NEW i \in Ops(m), Relocation(m.placed[i].item.b) # 0
        PROVE  Moved(m, i, relocs, Len(relocs))
    <2>1. i \in Ops(l) /\ m.placed[i] = l.placed[i]
      BY <1>2, OpAdded
    <2>2. Moved(l, i, relocs, Len(relocs))
      BY <1>2, <2>1 DEF Listed
    <2> QED
      BY <2>1, <2>2, ListedIs
  <1>3. \A r, s \in DOMAIN relocs : relocs[r] = relocs[s] => r = s
    BY DEF Listed
  <1> QED
    BY <1>1, <1>2, <1>3, ListedIs

LEMMA ListedAdded ==
  ASSUME NEW l, NEW e, NEW m, Grown(l, e, m), NEW more \in Nat, Shaped(m, more),
         NEW S, NEW relocs \in Seq(S), Listed(l, relocs), e.what = "op", Relocation(e.item.b) # 0,
         NEW new, new = Append(relocs, e.at + Relocation(e.item.b))
  PROVE  Listed(m, new)
  <1> DEFINE last == Len(relocs) + 1
  <1>1. /\ DOMAIN new = DOMAIN relocs \cup {last} /\ last \notin DOMAIN relocs /\ last \in Nat
        /\ \A r \in DOMAIN relocs : new[r] = relocs[r] /\ r \in Nat /\ r <= last
        /\ new[last] = e.at + Relocation(e.item.b) /\ Len(new) = last
        /\ \A r \in DOMAIN relocs : r <= Len(relocs)
    BY AppendElements
  <1> HIDE DEF last
  <1>2. /\ \A i \in Ops(l) : i \in Ops(m) /\ m.placed[i] = l.placed[i] /\ i # Last(l)
        /\ Last(l) \in Ops(m) /\ m.placed[Last(l)] = e
        /\ \A i \in Ops(m) : i \in Ops(l) \/ i = Last(l)
    BY OpAdded
  <1>3. \A r \in DOMAIN relocs : \A p : MovedBy(new, r, p) <=> MovedBy(relocs, r, p)
    BY <1>1 DEF MovedBy
  <1>4. MovedBy(new, last, e)
    BY <1>1 DEF MovedBy
  <1>5. \A r \in DOMAIN new : \E i \in Ops(m) : MovedBy(new, r, m.placed[i])
    <2> TAKE r \in DOMAIN new
    <2>1. CASE r \in DOMAIN relocs
      <3>1. PICK i \in Ops(l) : MovedBy(relocs, r, l.placed[i])
        BY <2>1, ListedIs
      <3> QED
        BY <2>1, <3>1, <1>2, <1>3
    <2>2. CASE r = last
      BY <2>2, <1>2, <1>4
    <2> QED
      BY <2>1, <2>2, <1>1
  <1>6. ASSUME NEW i \in Ops(m), Relocation(m.placed[i].item.b) # 0
        PROVE  Moved(m, i, new, Len(new))
    <2>1. CASE i \in Ops(l)
      <3>1. Moved(l, i, relocs, Len(relocs))
        BY <1>2, <1>6, <2>1 DEF Listed
      <3>2. PICK r \in DOMAIN relocs : MovedBy(relocs, r, l.placed[i])
        BY <3>1, ListedIs
      <3>3. r \in DOMAIN new /\ r <= Len(new) /\ MovedBy(new, r, m.placed[i])
        BY <1>1, <1>2, <1>3, <2>1, <3>2
      <3> QED
        BY <3>3, ListedIs
    <2>2. CASE i = Last(l)
      <3>1. last \in DOMAIN new /\ last <= Len(new) /\ MovedBy(new, last, m.placed[i])
        BY <1>1, <1>2, <1>4, <2>2
      <3> QED
        BY <3>1, ListedIs
    <2> QED
      BY <2>1, <2>2, <1>2
  <1>7. ASSUME NEW r \in DOMAIN relocs PROVE new[r] # new[last]
    <2>1. PICK i \in Ops(l) : MovedBy(relocs, r, l.placed[i])
      BY ListedIs
    <2>2. i \in Ops(m) /\ m.placed[i] = l.placed[i] /\ i # Last(l) /\ Last(l) \in Ops(m)
      BY <1>2
    <2> DEFINE b == m.placed[i].item.b
               c == m.placed[Last(l)].item.b
    <2>3. /\ Relocation(b) # 0 /\ new[r] = m.placed[i].at + Relocation(b)
          /\ Relocation(c) # 0 /\ new[last] = m.placed[Last(l)].at + Relocation(c)
      BY <2>1, <2>2, <1>1, <1>2 DEF MovedBy
    <2>4. b \in Emitted /\ c \in Emitted
      BY <2>2, ShapedGives
    <2>5. /\ Relocation(b) \in Nat /\ Relocation(b) < Length(b)
          /\ Relocation(c) \in Nat /\ Relocation(c) < Length(c)
      BY <2>3, <2>4, ListOffsets
    <2>6. new[r] = new[last] => m.placed[i].at + Relocation(b) = m.placed[Last(l)].at + Relocation(c)
      BY <2>3
    <2>7. new[r] = new[last] => i = Last(l)
      BY <2>2, <2>5, <2>6, OwnOffset
    <2> QED
      BY <2>2, <2>7
  <1>8. \A r, s \in DOMAIN new : new[r] = new[s] => r = s
    <2>1. \A r, s \in DOMAIN relocs : relocs[r] = relocs[s] => r = s
      BY DEF Listed
    <2> QED
      BY <2>1, <1>1, <1>7
  <1> QED
    BY <1>5, <1>6, <1>8, ListedIs

LEMMA CollectedSame ==
  ASSUME NEW l, NEW e, NEW m, Grown(l, e, m), NEW constants, Collected(l, constants),
         e.what # "op" \/ e.item.b \notin Constants
  PROVE  Collected(m, constants)
  <1>1. \A r \in DOMAIN constants : \E i \in Ops(m) : Asked(constants[r], m.placed[i])
    BY OpAdded DEF Collected
  <1>2. ASSUME NEW i \in Ops(m), m.placed[i].item.b \in Constants
        PROVE  Linked(m, i, constants, Len(constants))
    <2>1. i \in Ops(l) /\ m.placed[i] = l.placed[i]
      BY <1>2, OpAdded
    <2>2. Linked(l, i, constants, Len(constants))
      BY <1>2, <2>1 DEF Collected
    <2> QED
      BY <2>1, <2>2 DEF Linked
  <1>3. \A r, s \in DOMAIN constants : constants[r].index = constants[s].index => r = s
    BY DEF Collected
  <1> QED
    BY <1>1, <1>2, <1>3 DEF Collected

LEMMA CollectedAdded ==
  ASSUME NEW l, NEW e, NEW m, Grown(l, e, m), NEW more \in Nat, Shaped(m, more),
         NEW S, NEW constants \in Seq(S), Collected(l, constants), e.what = "op",
         NEW cnst, Asked(cnst, e), NEW new, new = Append(constants, cnst)
  PROVE  Collected(m, new)
  <1> DEFINE last == Len(constants) + 1
  <1>1. /\ DOMAIN new = DOMAIN constants \cup {last} /\ last \notin DOMAIN constants /\ last \in Nat
        /\ \A r \in DOMAIN constants : new[r] = constants[r] /\ r \in Nat /\ r <= last
        /\ new[last] = cnst /\ Len(new) = last
    BY AppendElements
  <1> HIDE DEF last
  <1>2. /\ \A i \in Ops(l) : i \in Ops(m) /\ m.placed[i] = l.placed[i] /\ i # Last(l)
        /\ Last(l) \in Ops(m) /\ m.placed[Last(l)] = e
        /\ \A i \in Ops(m) : i \in Ops(l) \/ i = Last(l)
    BY OpAdded
  <1>5. \A r \in DOMAIN new : \E i \in Ops(m) : Asked(new[r], m.placed[i])
    <2> TAKE r \in DOMAIN new
    <2>1. CASE r \in DOMAIN constants
      <3>1. PICK i \in Ops(l) : Asked(constants[r], l.placed[i])
        BY <2>1 DEF Collected
      <3> QED
        BY <2>1, <3>1, <1>1, <1>2
    <2>2. CASE r = last
      BY <2>2, <1>1, <1>2
    <2> QED
      BY <2>1, <2>2, <1>1
  <1>6. ASSUME NEW i \in Ops(m), m.placed[i].item.b \in Constants
        PROVE  Linked(m, i, new, Len(new))
    <2>1. CASE i \in Ops(l)
      <3>1. Linked(l, i, constants, Len(constants))
        BY <1>2, <1>6, <2>1 DEF Collected
      <3>2. PICK r \in DOMAIN constants : Asked(constants[r], l.placed[i])
        BY <3>1 DEF Linked
      <3>3. r \in DOMAIN new /\ r <= Len(new) /\ Asked(new[r], m.placed[i])
        BY <1>1, <1>2, <2>1, <3>2
      <3> QED
        BY <3>3 DEF Linked
    <2>2. CASE i = Last(l)
      <3>1. last \in DOMAIN new /\ last <= Len(new) /\ Asked(new[last], m.placed[i])
        BY <1>1, <1>2, <2>2
      <3> QED
        BY <3>1 DEF Linked
    <2> QED
      BY <2>1, <2>2, <1>2
  <1>7. ASSUME NEW r \in DOMAIN constants PROVE new[r].index # new[last].index
    <2>1. PICK i \in Ops(l) : Asked(constants[r], l.placed[i])
      BY DEF Collected
    <2>2. i \in Ops(m) /\ m.placed[i] = l.placed[i] /\ i # Last(l) /\ Last(l) \in Ops(m)
      BY <1>2
    <2> DEFINE b == m.placed[i].item.b
               c == m.placed[Last(l)].item.b
    <2>3. /\ b \in Constants /\ new[r].index = m.placed[i].at + ConstantAt(b)
          /\ c \in Constants /\ new[last].index = m.placed[Last(l)].at + ConstantAt(c)
      BY <2>1, <2>2, <1>1, <1>2 DEF Asked
    <2>4. b \in Emitted /\ c \in Emitted
      BY <2>2, ShapedGives
    <2>5. /\ ConstantAt(b) \in Nat /\ ConstantAt(b) < Length(b)
          /\ ConstantAt(c) \in Nat /\ ConstantAt(c) < Length(c)
      BY <2>3, <2>4, ListOffsets
    <2>6. new[r].index = new[last].index =>
            m.placed[i].at + ConstantAt(b) = m.placed[Last(l)].at + ConstantAt(c)
      BY <2>3
    <2>7. new[r].index = new[last].index => i = Last(l)
      BY <2>2, <2>5, <2>6, OwnOffset
    <2> QED
      BY <2>2, <2>7
  <1>8. \A r, s \in DOMAIN new : new[r].index = new[s].index => r = s
    <2>1. \A r, s \in DOMAIN constants : constants[r].index = constants[s].index => r = s
      BY DEF Collected
    <2> QED
      BY <2>1, <1>1, <1>7
  <1> QED
    BY <1>5, <1>6, <1>8 DEF Collected

--------------------------------------------------------------------------------
(* The labels of the open blocks *)

\* Block n replaced by one with its number, a block opened, and the innermost one left.
Replaced(bs, n, blk, cs) ==
  /\ n \in DOMAIN bs /\ DOMAIN cs = DOMAIN bs /\ cs[n] = blk /\ blk.id = bs[n].id
  /\ \A k \in DOMAIN bs : k # n => cs[k] = bs[k]
Pushed(bs, n, blk, cs) ==
  /\ n \notin DOMAIN bs /\ DOMAIN cs = DOMAIN bs \cup {n} /\ cs[n] = blk
  /\ \A k \in DOMAIN bs : cs[k] = bs[k]
Popped(bs, n, cs) ==
  /\ n \in DOMAIN bs /\ DOMAIN cs = DOMAIN bs \ {n}
  /\ \A k \in DOMAIN cs : cs[k] = bs[k]

LEMMA NumberedReplaced ==
  ASSUME NEW l, NEW bs, NEW next1 \in Nat, Numbered(l, bs, next1), NEW more \in Nat, next1 <= more,
         NEW n, NEW blk, NEW cs, Replaced(bs, n, blk, cs), \A k \in DOMAIN bs : bs[k].id \in Nat,
         NEW e, NEW m, Grown(l, e, m), e.block = bs[n].id
  PROVE  Numbered(m, cs, more)
  <1>1. \A k \in DOMAIN cs : k \in DOMAIN bs /\ cs[k].id = bs[k].id
    BY DEF Replaced
  <1>2. \A k \in DOMAIN cs : cs[k].id <= more
    BY <1>1 DEF Numbered
  <1>3. \A k, j \in DOMAIN cs : cs[k].id = cs[j].id => k = j
    BY <1>1 DEF Numbered
  <1>4. e.block \in Nat /\ e.block <= next1
    BY DEF Numbered, Replaced
  <1>5. \A i \in DOMAIN l.placed : l.placed[i].block \in Nat /\ l.placed[i].block <= next1
    BY DEF Numbered
  <1>6. \A i \in DOMAIN m.placed : m.placed[i].block \in Nat /\ m.placed[i].block <= next1
    BY <1>4, <1>5, EntryAdded
  <1>7. \A i \in DOMAIN m.placed : m.placed[i].block \in Nat /\ m.placed[i].block <= more
    BY <1>6
  <1> QED
    BY <1>2, <1>3, <1>7 DEF Numbered

LEMMA NumberedSame ==
  ASSUME NEW l, NEW bs, NEW next1 \in Nat, Numbered(l, bs, next1), NEW more \in Nat, next1 <= more,
         NEW cs, \A k \in DOMAIN cs : k \in DOMAIN bs /\ cs[k].id = bs[k].id,
         \A k \in DOMAIN bs : bs[k].id \in Nat
  PROVE  Numbered(l, cs, more)
  <1>1. \A k \in DOMAIN cs : cs[k].id <= more
    BY DEF Numbered
  <1>2. \A k, j \in DOMAIN cs : cs[k].id = cs[j].id => k = j
    BY DEF Numbered
  <1>3. \A i \in DOMAIN l.placed : l.placed[i].block \in Nat /\ l.placed[i].block <= more
    BY DEF Numbered
  <1> QED
    BY <1>1, <1>2, <1>3 DEF Numbered

LEMMA NumberedPushed ==
  ASSUME NEW l, NEW bs, NEW next1 \in Nat, Numbered(l, bs, next1), NEW n, NEW blk, NEW cs,
         Pushed(bs, n, blk, cs), blk.id = next1 + 1, \A k \in DOMAIN bs : bs[k].id \in Nat
  PROVE  Numbered(l, cs, next1 + 1)
  <1>1. \A k \in DOMAIN bs : bs[k].id \in Nat /\ bs[k].id <= next1 /\ cs[k].id = bs[k].id
    BY DEF Numbered, Pushed
  <1>2. cs[n].id = next1 + 1
    BY DEF Pushed
  <1>3. \A k \in DOMAIN cs : cs[k].id <= next1 + 1
    BY <1>1, <1>2 DEF Pushed
  <1>4. \A k, j \in DOMAIN cs : cs[k].id = cs[j].id => k = j
    <2>1. \A k, j \in DOMAIN bs : cs[k].id = cs[j].id => k = j
      BY <1>1 DEF Numbered
    <2>2. \A k \in DOMAIN bs : cs[k].id # cs[n].id
      BY <1>1, <1>2
    <2> QED
      BY <2>1, <2>2 DEF Pushed
  <1>5. \A i \in DOMAIN l.placed : l.placed[i].block \in Nat /\ l.placed[i].block <= next1 + 1
    BY DEF Numbered
  <1> QED
    BY <1>3, <1>4, <1>5 DEF Numbered

\* Whether a name is a label of the block numbered id, and where
Defines(l, id, name, at) == \E j \in DOMAIN l.placed : IsLabel(l, j, id, name) /\ l.placed[j].at = at
Undefined(l, id, name) == \A j \in DOMAIN l.placed : ~IsLabel(l, j, id, name)
Labelled1(l, blk) ==
  \A name \in Names : IF blk.labels[name] = NULL THEN Undefined(l, blk.id, name)
                      ELSE Defines(l, blk.id, name, blk.labels[name])
LEMMA LabellingIs ==
  ASSUME NEW l, NEW bs
  PROVE  Labelling(l, bs) <=> \A k \in DOMAIN bs : Labelled1(l, bs[k])
  BY DEF Labelling, Labelled1, Defines, Undefined

LEMMA LabelsAdded ==
  ASSUME NEW l, NEW e, NEW m, Grown(l, e, m)
  PROVE  /\ \A id, name, at : Defines(l, id, name, at) => Defines(m, id, name, at)
         /\ \A id, name : Undefined(l, id, name) =>
              Undefined(m, id, name) \/ (e.what = "label" /\ e.block = id /\ e.item.name = name)
  <1>1. /\ DOMAIN m.placed = DOMAIN l.placed \cup {Last(l)} /\ m.placed[Last(l)] = e
        /\ \A i \in DOMAIN l.placed : m.placed[i] = l.placed[i]
    BY EntryAdded
  <1>2. \A j \in DOMAIN l.placed : \A id, name : IsLabel(m, j, id, name) <=> IsLabel(l, j, id, name)
    BY <1>1 DEF IsLabel
  <1>3. \A id, name : IsLabel(m, Last(l), id, name) =>
          e.what = "label" /\ e.block = id /\ e.item.name = name
    BY <1>1 DEF IsLabel
  <1> QED
    BY <1>1, <1>2, <1>3 DEF Defines, Undefined

LEMMA LabellingKept ==
  ASSUME NEW l, NEW e, NEW m, Grown(l, e, m), e.what # "label", NEW bs, Labelling(l, bs), NEW cs,
         \A k \in DOMAIN cs : k \in DOMAIN bs /\ cs[k].id = bs[k].id /\ cs[k].labels = bs[k].labels
  PROVE  Labelling(m, cs)
  <1> SUFFICES ASSUME NEW k \in DOMAIN cs PROVE Labelled1(m, cs[k])
    BY LabellingIs
  <1>1. Labelled1(l, bs[k]) /\ cs[k].id = bs[k].id /\ cs[k].labels = bs[k].labels
    BY LabellingIs
  <1> QED
    BY <1>1, LabelsAdded DEF Labelled1

LEMMA LabellingSame ==
  ASSUME NEW l, NEW bs, Labelling(l, bs), NEW cs,
         \A k \in DOMAIN cs : k \in DOMAIN bs /\ cs[k].id = bs[k].id /\ cs[k].labels = bs[k].labels
  PROVE  Labelling(l, cs)
  <1> SUFFICES ASSUME NEW k \in DOMAIN cs PROVE Labelled1(l, cs[k])
    BY LabellingIs
  <1>1. Labelled1(l, bs[k]) /\ cs[k].id = bs[k].id /\ cs[k].labels = bs[k].labels
    BY LabellingIs
  <1> QED
    BY <1>1 DEF Labelled1

LEMMA LabellingPushed ==
  ASSUME NEW l, NEW bs, NEW next1 \in Nat, Numbered(l, bs, next1), Labelling(l, bs),
         NEW n, NEW blk, NEW cs, Pushed(bs, n, blk, cs), blk.id = next1 + 1,
         \A name \in Names : blk.labels[name] = NULL
  PROVE  Labelling(l, cs)
  <1>1. \A k \in DOMAIN bs : Labelled1(l, cs[k])
    BY LabellingIs DEF Pushed
  <1>2. \A j \in DOMAIN l.placed : l.placed[j].block # next1 + 1
    BY DEF Numbered
  <1>3. \A name : Undefined(l, next1 + 1, name)
    BY <1>2 DEF Undefined, IsLabel
  <1>4. Labelled1(l, blk)
    BY <1>3 DEF Labelled1
  <1> QED
    BY <1>1, <1>4, LabellingIs DEF Pushed

LEMMA LabellingDefined ==
  ASSUME NEW l, NEW bs, NEW next1, Numbered(l, bs, next1), Labelling(l, bs),
         NEW n, NEW blk, NEW cs, Replaced(bs, n, blk, cs),
         NEW e, NEW m, Grown(l, e, m), e.what = "label", e.block = blk.id, e.at # NULL,
         \A name \in Names : blk.labels[name] = IF name = e.item.name THEN e.at ELSE bs[n].labels[name]
  PROVE  Labelling(m, cs)
  <1> SUFFICES ASSUME NEW k \in DOMAIN cs PROVE Labelled1(m, cs[k])
    BY LabellingIs
  <1>1. k \in DOMAIN bs /\ n \in DOMAIN bs /\ cs[n] = blk /\ blk.id = bs[n].id
    BY DEF Replaced
  <1>2. Labelled1(l, bs[k]) /\ Labelled1(l, bs[n])
    BY <1>1, LabellingIs
  <1>3. CASE k # n
    <2>1. cs[k] = bs[k]
      BY <1>1, <1>3 DEF Replaced
    <2>2. bs[k].id # e.block
      BY <1>1, <1>3 DEF Numbered
    <2> QED
      BY <1>2, <2>1, <2>2, LabelsAdded DEF Labelled1
  <1>4. CASE k = n
    <2>1. \A name \in Names : name # e.item.name =>
            IF blk.labels[name] = NULL THEN Undefined(m, blk.id, name)
            ELSE Defines(m, blk.id, name, blk.labels[name])
      BY <1>1, <1>2, LabelsAdded DEF Labelled1
    <2>2. Last(l) \in DOMAIN m.placed /\ m.placed[Last(l)] = e
      BY EntryAdded
    <2>3. Defines(m, blk.id, e.item.name, e.at)
      BY <2>2 DEF Defines, IsLabel
    <2>4. \A name \in Names :
            IF blk.labels[name] = NULL THEN Undefined(m, blk.id, name)
            ELSE Defines(m, blk.id, name, blk.labels[name])
      BY <2>1, <2>3
    <2> QED
      BY <1>1, <1>4, <2>4 DEF Labelled1
  <1> QED
    BY <1>3, <1>4

\* A use of a label that waits for the end of the block numbered id
UseIn(bs, id, use) ==
  \E k \in DOMAIN bs : bs[k].id = id /\ \E u \in DOMAIN bs[k].uses : bs[k].uses[u] = use
\* It is that of an instruction before any label it can mean.
UsedBy(l, id, use, i) ==
  l.placed[i].block = id /\ UseOf(use, l.placed[i]) /\ \A j \in Meant(l, i) : j > i

LEMMA UsesAre ==
  ASSUME NEW l, NEW bs
  PROVE  /\ Pending(l, bs) <=> \A id, use : UseIn(bs, id, use) => \E i \in Ops(l) : UsedBy(l, id, use, i)
         /\ \A p : Awaited(bs, p) <=> \E use : UseIn(bs, p.block, use) /\ UseOf(use, p)
  <1>1. ASSUME Pending(l, bs), NEW id, NEW use, UseIn(bs, id, use)
        PROVE  \E i \in Ops(l) : UsedBy(l, id, use, i)
    <2>a. PICK k \in DOMAIN bs : bs[k].id = id /\ \E u \in DOMAIN bs[k].uses : bs[k].uses[u] = use
      BY <1>1 DEF UseIn
    <2>1. PICK u \in DOMAIN bs[k].uses : bs[k].id = id /\ bs[k].uses[u] = use
      BY <2>a
    <2>2. PICK i \in Ops(l) : /\ l.placed[i].block = bs[k].id /\ UseOf(bs[k].uses[u], l.placed[i])
                              /\ \A j \in Meant(l, i) : j > i
      BY <1>1 DEF Pending
    <2> QED
      BY <2>1, <2>2 DEF UsedBy
  <1>2. ASSUME \A id, use : UseIn(bs, id, use) => \E i \in Ops(l) : UsedBy(l, id, use, i)
        PROVE  Pending(l, bs)
    <2> SUFFICES ASSUME NEW k \in DOMAIN bs, NEW u \in DOMAIN bs[k].uses
                 PROVE  \E i \in Ops(l) :
                          /\ l.placed[i].block = bs[k].id /\ UseOf(bs[k].uses[u], l.placed[i])
                          /\ \A j \in Meant(l, i) : j > i
      BY DEF Pending
    <2>1. UseIn(bs, bs[k].id, bs[k].uses[u])
      BY DEF UseIn
    <2> QED
      BY <1>2, <2>1 DEF UsedBy
  <1>3. ASSUME NEW p PROVE Awaited(bs, p) <=> \E use : UseIn(bs, p.block, use) /\ UseOf(use, p)
    BY DEF Awaited, UseIn
  <1> QED
    BY <1>1, <1>2, <1>3

LEMMA PendingSame ==
  ASSUME NEW l, NEW bs, Pending(l, bs), NEW cs,
         \A id, use : UseIn(cs, id, use) => UseIn(bs, id, use)
  PROVE  Pending(l, cs)
  BY UsesAre

LEMMA PendingKept ==
  ASSUME NEW l, NEW e, NEW m, Grown(l, e, m), NEW bs, Pending(l, bs), NEW cs,
         \A id, use : UseIn(cs, id, use) =>
           \/ UseIn(bs, id, use)
           \/ e.what = "op" /\ e.block = id /\ UseOf(use, e) /\ Meant(m, Last(l)) = {}
  PROVE  Pending(m, cs)
  <1> SUFFICES ASSUME NEW id, NEW use, UseIn(cs, id, use) PROVE \E i \in Ops(m) : UsedBy(m, id, use, i)
    BY UsesAre
  <1>1. CASE UseIn(bs, id, use)
    <2>1. PICK i \in Ops(l) : UsedBy(l, id, use, i)
      BY <1>1, UsesAre
    <2>2. i \in Ops(m) /\ m.placed[i] = l.placed[i] /\ i \in DOMAIN l.placed
      BY OpAdded, OpsOf
    <2>3. \A j \in Meant(m, i) : j \in Meant(l, i) \/ j > i
      BY <2>2, MeantAdded
    <2> QED
      BY <2>1, <2>2, <2>3 DEF UsedBy
  <1>2. CASE e.what = "op" /\ e.block = id /\ UseOf(use, e) /\ Meant(m, Last(l)) = {}
    <2>1. Last(l) \in Ops(m) /\ m.placed[Last(l)] = e
      BY <1>2, OpAdded
    <2> QED
      BY <1>2, <2>1 DEF UsedBy
  <1> QED
    BY <1>1, <1>2

\* A new instruction with a label that is not known means none.
LEMMA NoneMeant ==
  ASSUME NEW l, NEW e, NEW m, Grown(l, e, m), e.what # "label", Undefined(l, e.block, e.item.name)
  PROVE  Meant(m, Last(l)) = {}
  <1>1. m.placed[Last(l)] = e
    BY EntryAdded
  <1>2. Undefined(m, e.block, e.item.name)
    BY LabelsAdded
  <1>3. \A j : j \in Meant(m, Last(l)) <=> j \in DOMAIN m.placed /\ IsLabel(m, j, e.block, e.item.name)
    BY <1>1, MeantOf
  <1>4. \A j : j \notin Meant(m, Last(l))
    BY <1>2, <1>3 DEF Undefined
  <1> QED
    BY <1>4

--------------------------------------------------------------------------------
(* The instructions written *)

LEMMA RegisterCount ==
  ASSUME NEW b \in Emitted, NEW k \in DOMAIN RegPlaces(ItemType(b))
  PROVE  k \in 1 .. Arity(b)
  <1>1. CASE ItemType(b) = "F"
    <2>1. RegPlaces(ItemType(b)) = <<>> /\ Arity(b) = 0
      BY <1>1 DEF RegPlaces, Arity
    <2> QED
      BY <2>1
  <1>2. CASE ItemType(b) = "A1"
    <2>1. RegPlaces(ItemType(b)) = <<1>> /\ Arity(b) = 1
      BY <1>2 DEF RegPlaces, Arity
    <2> QED
      BY <2>1
  <1>3. CASE ItemType(b) = "A2"
    <2>1. RegPlaces(ItemType(b)) = <<1, 2>> /\ Arity(b) = 2
      BY <1>3 DEF RegPlaces, Arity
    <2> QED
      BY <2>1
  <1>4. CASE ItemType(b) = "A3"
    <2>1. RegPlaces(ItemType(b)) = <<1, 2, 3>> /\ Arity(b) = 3
      BY <1>4 DEF RegPlaces, Arity
    <2> QED
      BY <2>1
  <1>5. CASE ItemType(b) = "E"
    <2>1. RegPlaces(ItemType(b)) = <<>> /\ Arity(b) = 0
      BY <1>5 DEF RegPlaces, Arity
    <2> QED
      BY <2>1
  <1>6. CASE ItemType(b) = "D1"
    <2>1. RegPlaces(ItemType(b)) = <<>> /\ Arity(b) = 0
      BY <1>6 DEF RegPlaces, Arity
    <2> QED
      BY <2>1
  <1>7. CASE ItemType(b) = "D2"
    <2>1. RegPlaces(ItemType(b)) = <<9>> /\ Arity(b) = 1
      BY <1>7 DEF RegPlaces, Arity
    <2> QED
      BY <2>1
  <1>8. CASE ItemType(b) = "D3"
    <2>1. RegPlaces(ItemType(b)) = <<1>> /\ Arity(b) = 1
      BY <1>8 DEF RegPlaces, Arity
    <2> QED
      BY <2>1
  <1>9. CASE ItemType(b) = "G"
    <2>1. RegPlaces(ItemType(b)) = <<1>> /\ Arity(b) = 1
      BY <1>9 DEF RegPlaces, Arity
    <2> QED
      BY <2>1
  <1>10. CASE ItemType(b) = "H"
    <2>1. RegPlaces(ItemType(b)) = <<1>> /\ Arity(b) = 1
      BY <1>10 DEF RegPlaces, Arity
    <2> QED
      BY <2>1
  <1>11. CASE ItemType(b) = "CALL"
    <2>1. RegPlaces(ItemType(b)) = <<12>> /\ Arity(b) = 1
      BY <1>11 DEF RegPlaces, Arity
    <2> QED
      BY <2>1
  <1>12. CASE ItemType(b) = "CALLSYMBOLIC"
    <2>1. RegPlaces(ItemType(b)) = <<8>> /\ Arity(b) = 1
      BY <1>12 DEF RegPlaces, Arity
    <2> QED
      BY <2>1
  <1>13. CASE ItemType(b) = "INVOKEADDRESS"
    <2>1. RegPlaces(ItemType(b)) = <<4, 5>> /\ Arity(b) = 2
      BY <1>13 DEF RegPlaces, Arity
    <2> QED
      BY <2>1
  <1>14. CASE ItemType(b) = "INVOKEPRIMITIVE"
    <2>1. RegPlaces(ItemType(b)) = <<1, 2>> /\ Arity(b) = 2
      BY <1>14 DEF RegPlaces, Arity
    <2> QED
      BY <2>1
  <1> QED
    BY TypeFacts, <1>1, <1>2, <1>3, <1>4, <1>5, <1>6, <1>7, <1>8, <1>9, <1>10, <1>11, <1>12, <1>13, <1>14

LEMMA OpcodeByte ==
  ASSUME NEW b \in Emitted
  PROVE  Opcode[Instr(b)] < 256
  BY DEF Emitted, OpsF, OpsA1, OpsA2, OpsA3, Labelled, Constants, Instr, Opcode

\* A register of an item fits a byte.
LEMMA RegisterByte ==
  ASSUME NEW item \in Items, item.b \in Emitted, item.b # "if",
         NEW k \in DOMAIN RegsAt(Instr(item.b))
  PROVE  item.regs[k] \in Nat /\ item.regs[k] < 256
  <1>1. RegsAt(Instr(item.b)) = RegPlaces(ItemType(item.b))
    BY Rows DEF Row
  <1>2. k \in 1 .. Arity(item.b)
    BY <1>1, RegisterCount
  <1>3. item.regs \in Seq(0 .. 255) /\ Len(item.regs) >= Arity(item.b)
    BY ItemFacts
  <1>4. Arity(item.b) \in Nat
    BY LayoutFacts
  <1>5. k \in 1 .. Len(item.regs)
    BY <1>2, <1>3, <1>4
  <1> DEFINE S == 0 .. 255
  <1>6. item.regs \in Seq(S)
    BY <1>3
  <1>7. \A x \in S : x \in Nat /\ x < 256
    OBVIOUS
  <1> HIDE DEF S
  <1> QED
    BY <1>5, <1>6, <1>7, Elements

\* One byte of a field
LEMMA ByteWritten ==
  ASSUME NEW data, NEW at \in Nat, NEW fields, NEW f \in fields, Spread(fields),
         \A g \in fields : g.at \in Nat /\ g.width \in Nat,
         NEW o \in Nat, NEW v \in Nat, v < 256, f = [at |-> o, width |-> 1, val |-> v],
         at + o \in DOMAIN data
  PROVE  Write(data, at, fields)[at + o] = v
  <1>1. f.at = o /\ f.width = 1 /\ f.val = v
    OBVIOUS
  <1>2. at + f.at + 0 = at + o /\ at + f.at + 0 \in DOMAIN data /\ 0 < f.width
    BY <1>1
  <1>3. Write(data, at, fields)[at + f.at + 0] = Byte(f.val, 0)
    BY <1>2, WriteField
  <1> QED
    BY <1>1, <1>2, <1>3, OneByte

\* A new instruction is written in full.
LEMMA LegibleWritten ==
  ASSUME NEW data, NEW p, p.at \in Nat, p.item \in Items, p.item.b \in Emitted, p.item.b # "if",
         \A a \in Nat : p.at <= a /\ a < End(p) => a \in DOMAIN data,
         NEW dest, NEW sub
  PROVE  Legible(Write(data, p.at, Fields(p.item, dest, sub)), 0, p)
  <1> DEFINE fields == Fields(p.item, dest, sub)
             instr == Instr(p.item.b)
             type == ItemType(p.item.b)
  <1>1. Laid(type, fields, p.item, dest)
    BY Layout
  <1>2. RegsAt(instr) = RegPlaces(type)
    BY Rows DEF Row
  <1> HIDE DEF fields, type
  <1>3. /\ Spread(fields) /\ \A g \in fields : g.at \in Nat /\ g.width \in Nat
        /\ [at |-> 0, width |-> 1, val |-> Opcode[instr]] \in fields
        /\ \A k \in DOMAIN RegsAt(instr) :
             [at |-> RegsAt(instr)[k], width |-> 1, val |-> p.item.regs[k]] \in fields
    BY <1>1, <1>2 DEF Laid, Registered
  <1>4. PICK at \in Nat : at = p.at
    OBVIOUS
  <1>5. PICK n \in Nat : n = Length(p.item.b)
    BY LengthIsNat
  <1>6. End(p) = at + n /\ 1 <= n
    BY <1>4, <1>5, LayoutFacts DEF End
  <1>7. \A o \in Nat : o < n => at + o \in DOMAIN data
    BY <1>4, <1>6
  <1>8. Write(data, at, fields)[at + 0] = Opcode[instr]
    <2>1. PICK v \in Nat : v = Opcode[instr] /\ v < 256
      BY OpcodeByte, OpcodeFacts
    <2>2. PICK o \in Nat : o = 0
      OBVIOUS
    <2>3. PICK f \in fields : f = [at |-> o, width |-> 1, val |-> v]
      BY <1>3, <2>1, <2>2
    <2>4. at + o \in DOMAIN data
      BY <1>6, <1>7, <2>2
    <2>5. Write(data, at, fields)[at + o] = v
      BY <1>3, <2>1, <2>3, <2>4, ByteWritten
    <2> QED
      BY <2>1, <2>2, <2>5
  <1>9. ASSUME NEW k \in DOMAIN RegsAt(instr)
        PROVE  Write(data, at, fields)[at + RegsAt(instr)[k]] = p.item.regs[k]
    <2>1. RegsAt(instr)[k] \in Nat /\ RegsAt(instr)[k] < n
      BY <1>5, Offsets DEF RegisterAt
    <2>2. p.item.regs[k] \in Nat /\ p.item.regs[k] < 256
      BY RegisterByte
    <2>3. at + RegsAt(instr)[k] \in DOMAIN data
      BY <1>7, <2>1
    <2> HIDE DEF instr
    <2> QED
      BY <1>3, <2>1, <2>2, <2>3, ByteWritten
  <1>10. 0 + at = at + 0 /\ \A r \in Nat : 0 + at + r = at + r
    OBVIOUS
  <1>11. \A k \in DOMAIN RegsAt(instr) : RegsAt(instr)[k] \in Nat
    BY Offsets DEF RegisterAt
  <1> HIDE DEF instr
  <1>12. Write(data, at, fields)[0 + at] = Opcode[instr]
    BY <1>8, <1>10
  <1>13. \A k \in DOMAIN RegsAt(instr) : Write(data, at, fields)[0 + at + RegsAt(instr)[k]] = p.item.regs[k]
    BY <1>9, <1>10, <1>11
  <1> QED
    BY <1>4, <1>12, <1>13 DEF Legible, instr, fields

\* So is its destination.
LEMMA DestWritten ==
  ASSUME NEW data, NEW p, p.at \in Nat, p.item.b \in Emitted, p.item.b # "if",
         \A a \in Nat : p.at <= a /\ a < End(p) => a \in DOMAIN data,
         NEW dest, NEW sub, Instr(p.item.b) \in DOMAIN DestAt
  PROVE  Part(Write(data, p.at, Fields(p.item, dest, sub)), 0, p, DestAt[Instr(p.item.b)],
              Wide(p.item.b), dest)
  <1> DEFINE fields == Fields(p.item, dest, sub)
             type == ItemType(p.item.b)
  <1>1. Laid(type, fields, p.item, dest)
    BY Layout
  <1>2. PICK o \in Nat : o = DestAt[Instr(p.item.b)]
    BY Offsets
  <1>3. PICK w \in Nat : w = Wide(p.item.b)
    BY Offsets
  <1>4. PICK n \in Nat : n = Length(p.item.b)
    BY LengthIsNat
  <1>5. PICK at \in Nat : at = p.at
    OBVIOUS
  <1>6. o = DestPlace(type) /\ type \in DestTypes /\ o + w <= n
    BY <1>2, <1>3, <1>4, Offsets
  <1>7. w = IF type = "E" THEN 4 ELSE 8
    <2>1. p.item.b = "jump" <=> ItemType(p.item.b) = "E"
      BY Rows DEF Row
    <2> QED
      BY <1>3, <1>6, <2>1, DestPlaces
  <1> HIDE DEF fields, type
  <1>8. PICK f \in fields : f = [at |-> o, width |-> w, val |-> dest]
    BY <1>1, <1>6, <1>7 DEF Laid
  <1>9. Spread(fields) /\ \A g \in fields : g.at \in Nat /\ g.width \in Nat
    BY <1>1 DEF Laid
  <1>10. f.at = o /\ f.width = w /\ f.val = dest
    BY <1>8
  <1>11. End(p) = at + n
    BY <1>4, <1>5 DEF End
  <1>12. ASSUME NEW k \in Nat, k < w
         PROVE  Write(data, at, fields)[0 + at + o + k] = Byte(dest, k)
    <2>1. PICK a \in Nat : a = at + f.at + k
      BY <1>10
    <2>2. at <= a /\ a < at + n /\ a = 0 + at + o + k
      BY <1>6, <1>10, <1>12, <2>1
    <2>3. a \in DOMAIN data
      BY <1>5, <1>11, <2>2
    <2>4. Write(data, at, fields)[at + f.at + k] = Byte(f.val, k)
      BY <1>9, <1>10, <1>12, <2>1, <2>3, WriteField
    <2> QED
      BY <2>1, <2>2, <2>4, <1>10
  <1> QED
    BY <1>2, <1>3, <1>5, <1>12 DEF Part, fields

--------------------------------------------------------------------------------
(* What stays written *)

\* Up to limit, e differs from d in width bytes at lo only.
Spared(d, e, lo, width, limit) ==
  \A a \in Nat : a < limit /\ (a < lo \/ lo + width <= a) => e[a] = d[a]

\* An instruction that ends before lo, or begins behind
LEMMA SparedCopied ==
  ASSUME NEW d, NEW e, NEW base \in Nat, NEW p, p.at \in Nat, p.item.b \in Emitted,
         NEW lo \in Nat, NEW width \in Nat, NEW limit \in Nat, Spared(d, e, lo, width, limit),
         base + End(p) <= limit, base + End(p) <= lo \/ lo + width <= base + p.at
  PROVE  Copied(d, base, e, base, p)
  <1> SUFFICES ASSUME NEW a \in Nat, p.at <= a, a < End(p) PROVE e[base + a] = d[base + a]
    BY DEF Copied
  <1>1. PICK at \in Nat : at = p.at
    OBVIOUS
  <1>2. PICK n \in Nat : n = Length(p.item.b)
    BY LengthIsNat
  <1>3. End(p) = at + n
    BY <1>1, <1>2 DEF End
  <1>4. PICK x \in Nat : x = base + a
    OBVIOUS
  <1>5. x < limit /\ (x < lo \/ lo + width <= x)
    BY <1>1, <1>3, <1>4
  <1>6. e[x] = d[x]
    BY <1>5 DEF Spared
  <1> QED
    BY <1>4, <1>6

\* The same with the bytes inside the instruction, apart from its opcode and registers
\* The registers of an instruction are not among the width bytes at o.
Clear(b, o, width) ==
  \A k \in DOMAIN RegsAt(Instr(b)) :
    LET r == RegsAt(Instr(b))[k] IN r + 1 <= o \/ o + width <= r

\* Of the bytes of an instruction only those may be written.
Rewritten(d, e, base, p, o, width) ==
  \E limit \in Nat : Spared(d, e, base + p.at + o, width, limit) /\ base + End(p) <= limit

LEMMA SparedLegible ==
  ASSUME NEW d, NEW e, NEW base \in Nat, NEW p, p.at \in Nat, p.item.b \in Emitted, p.item.b # "if",
         NEW o \in Nat, NEW width \in Nat, 1 <= o, Clear(p.item.b, o, width),
         Rewritten(d, e, base, p, o, width), Legible(d, base, p)
  PROVE  Legible(e, base, p)
  <1>0. PICK limit \in Nat : Spared(d, e, base + p.at + o, width, limit) /\ base + End(p) <= limit
    BY DEF Rewritten
  <1> PICK lo \in Nat : lo = base + p.at + o
    OBVIOUS
  <1>10. Spared(d, e, lo, width, limit)
    BY <1>0
  <1> DEFINE instr == Instr(p.item.b)
  <1>1. PICK at \in Nat : at = p.at
    OBVIOUS
  <1>2. PICK n \in Nat : n = Length(p.item.b)
    BY LengthIsNat
  <1>3. End(p) = at + n /\ 1 <= n
    BY <1>1, <1>2, LayoutFacts DEF End
  <1>4. lo = base + at + o /\ base + at + n <= limit
    BY <1>0, <1>1, <1>3
  <1>5. e[base + p.at] = Opcode[instr]
    <2>1. PICK x \in Nat : x = base + at
      OBVIOUS
    <2>2. x < limit /\ x < lo
      BY <1>3, <1>4, <2>1
    <2>3. e[x] = d[x]
      BY <1>10, <2>2 DEF Spared
    <2> QED
      BY <1>1, <2>1, <2>3 DEF Legible
  <1>6. ASSUME NEW k \in DOMAIN RegsAt(instr)
        PROVE  e[base + p.at + RegsAt(instr)[k]] = p.item.regs[k]
    <2>1. RegisterAt(p.item.b, RegsAt(instr)[k])
      BY Offsets
    <2>2. PICK r \in Nat : r = RegsAt(instr)[k] /\ r + 1 <= n
      BY <1>2, <2>1 DEF RegisterAt
    <2>3. r + 1 <= o \/ o + width <= r
      BY <2>2 DEF Clear
    <2>4. PICK x \in Nat : x = base + at + r
      OBVIOUS
    <2>5. x < limit /\ (x < lo \/ lo + width <= x)
      BY <1>4, <2>2, <2>3, <2>4
    <2>6. e[x] = d[x]
      BY <1>10, <2>5 DEF Spared
    <2>7. d[base + p.at + RegsAt(instr)[k]] = p.item.regs[k]
      BY DEF Legible
    <2>8. x = base + p.at + RegsAt(instr)[k]
      BY <1>1, <2>2, <2>4
    <2> QED
      BY <2>6, <2>7, <2>8
  <1> QED
    BY <1>5, <1>6 DEF Legible

LEMMA SparedBelow ==
  ASSUME NEW d, NEW e, NEW size \in Nat, \A a \in Nat : a < size => e[a] = d[a],
         NEW l, l.start = 0, Shaped(l, size), NEW m, m.start = 0, NEW i \in Ops(l)
  PROVE  Copied(d, l.start, e, m.start, l.placed[i])
  <1> SUFFICES ASSUME NEW a \in Nat, l.placed[i].at <= a, a < End(l.placed[i]) PROVE e[0 + a] = d[0 + a]
    BY DEF Copied
  <1>1. End(l.placed[i]) \in Nat /\ End(l.placed[i]) <= size
    BY ShapedGives
  <1>2. a < size /\ 0 + a = a
    BY <1>1
  <1> QED
    BY <1>2

LEMMA EncodedKept ==
  ASSUME NEW d, NEW e, NEW l, l.start \in Nat, NEW m, m.start \in Nat, NEW i,
         m.placed[i] = l.placed[i], l.placed[i].at \in Nat, l.placed[i].item.b \in Emitted,
         Copied(d, l.start, e, m.start, l.placed[i]), Wanted(l, i) \subseteq Wanted(m, i),
         NEW bs, NEW cs, Awaited(bs, l.placed[i]) => Awaited(cs, l.placed[i]),
         NEW alive, NEW live, Lost(l, bs, alive, i) => Lost(m, cs, live, i),
         Encoded(d, l, bs, alive, i)
  PROVE  Encoded(e, m, cs, live, i)
  <1> SUFFICES ASSUME l.placed[i].item.b # "if"
               PROVE  Encoded(e, m, cs, live, i)
    BY DEF Encoded
  <1>1. Legible(d, l.start, l.placed[i])
    BY DEF Encoded
  <1>2. PICK p : p = l.placed[i]
    OBVIOUS
  <1>3. Legible(e, m.start, p)
    BY <1>1, <1>2, LegibleCopied
  <1>4. Instr(p.item.b) \in DOMAIN DestAt =>
          \/ Aimed(d, l, i, 0)
          \/ p.item.b \in Labelled /\ (Awaited(bs, p) \/ Lost(l, bs, alive, i))
    BY <1>2 DEF Encoded
  <1>5. Instr(p.item.b) \in DOMAIN DestAt /\ Aimed(d, l, i, 0) => Aimed(e, m, i, 0)
    BY <1>2, AimedCopied
  <1>6. Instr(p.item.b) \in DOMAIN DestAt =>
          \/ Aimed(e, m, i, 0)
          \/ p.item.b \in Labelled /\ (Awaited(cs, p) \/ Lost(m, cs, live, i))
    BY <1>2, <1>4, <1>5
  <1> QED
    BY <1>2, <1>3, <1>6 DEF Encoded

\* The blocks alive are no others, for the instruction's label.
LEMMA LostKept ==
  ASSUME NEW l, NEW e, NEW m, Grown(l, e, m), NEW i \in DOMAIN l.placed,
         NEW bs, NEW alive, NEW cs, NEW live, e.what = "label" => \E k \in alive : bs[k].id = e.block,
         \A k \in live : \E j \in alive : bs[j].id = cs[k].id,
         Lost(l, bs, alive, i)
  PROVE  Lost(m, cs, live, i)
  <1>1. Meant(l, i) = {} /\ \A k \in alive : bs[k].id # l.placed[i].block
    BY DEF Lost
  <1>2. \A j \in Meant(m, i) : j \in Meant(l, i) \/ (e.what = "label" /\ e.block = l.placed[i].block)
    BY MeantAdded
  <1>3. \A j : j \notin Meant(m, i)
    BY <1>1, <1>2
  <1>4. Meant(m, i) = {}
    BY <1>3
  <1>5. m.placed[i] = l.placed[i]
    BY EntryAdded
  <1> QED
    BY <1>1, <1>4, <1>5 DEF Lost

LEMMA EncodedAdded ==
  ASSUME NEW d, NEW f, NEW size \in Nat, \A a \in Nat : a < size => f[a] = d[a],
         NEW l, l.start = 0, Shaped(l, size), NEW e, NEW m, m.start = 0, Grown(l, e, m),
         NEW bs, NEW alive, NEW cs, NEW live, e.what = "label" => \E k \in alive : bs[k].id = e.block,
         \A k \in live : \E j \in alive : bs[j].id = cs[k].id,
         \A id, use : UseIn(bs, id, use) => UseIn(cs, id, use),
         NEW i \in Ops(l), Encoded(d, l, bs, alive, i)
  PROVE  Encoded(f, m, cs, live, i)
  <1>1. /\ i \in DOMAIN l.placed /\ m.placed[i] = l.placed[i]
        /\ l.placed[i].at \in Nat /\ l.placed[i].item.b \in Emitted
    BY ShapedGives, OpAdded
  <1>2. Copied(d, l.start, f, m.start, l.placed[i])
    BY SparedBelow
  <1>3. Wanted(l, i) \subseteq Wanted(m, i)
    BY <1>1, WantedAdded
  <1>4. Awaited(bs, l.placed[i]) => Awaited(cs, l.placed[i])
    BY UsesAre
  <1>5. Lost(l, bs, alive, i) => Lost(m, cs, live, i)
    BY <1>1, LostKept
  <1>6. l.start \in Nat /\ m.start \in Nat
    OBVIOUS
  <1> QED
    BY <1>1, <1>2, <1>3, <1>4, <1>5, <1>6, EncodedKept

\* The same bytes up to size, a label that is placed in a block alive, the blocks alive
\* being no others or without entries, and no use dropped.
SameBelow(d, f, size) == \A a \in Nat : a < size => f[a] = d[a]
NamesAlive(e, bs, alive) == e.what = "label" => \E k \in alive : bs[k].id = e.block
StillAlive(bs, alive, cs, live) == \A k \in live : \E j \in alive : bs[j].id = cs[k].id
AliveOrNew(l, bs, alive, cs, live) ==
  \A k \in live : \/ \E j \in alive : bs[j].id = cs[k].id
                  \/ \A i \in DOMAIN l.placed : l.placed[i].block # cs[k].id
UsesKept(bs, cs) == \A id, use : UseIn(bs, id, use) => UseIn(cs, id, use)

LEMMA WrittenAdded ==
  ASSUME NEW d, NEW f, NEW size \in Nat, SameBelow(d, f, size),
         NEW l, l.start = 0, Shaped(l, size), NEW e, NEW m, m.start = 0, Grown(l, e, m),
         NEW bs, NEW alive, NEW cs, NEW live, NamesAlive(e, bs, alive),
         StillAlive(bs, alive, cs, live), UsesKept(bs, cs),
         Written(d, l, bs, alive),
         e.what = "op" => ForwardCall(m) \/ Encoded(f, m, cs, live, Last(l))
  PROVE  Written(f, m, cs, live)
  <1>1. CASE ForwardCall(l)
    BY <1>1, ForwardAdded DEF Written
  <1>2. CASE ~ForwardCall(l) /\ ~ForwardCall(m)
    <2> SUFFICES ASSUME NEW i \in Ops(m) PROVE Encoded(f, m, cs, live, i)
      BY DEF Written
    <2>1. (i \in Ops(l)) \/ (i = Last(l) /\ e.what = "op")
      BY OpAdded
    <2>2. CASE i \in Ops(l)
      <3>1. Encoded(d, l, bs, alive, i)
        BY <1>2, <2>2 DEF Written
      <3> QED
        BY <2>2, <3>1, EncodedAdded DEF SameBelow, NamesAlive, StillAlive, UsesKept
    <2>3. CASE i = Last(l) /\ e.what = "op"
      BY <1>2, <2>3
    <2> QED
      BY <2>1, <2>2, <2>3
  <1>3. CASE ForwardCall(m)
    BY <1>3 DEF Written
  <1> QED
    BY <1>1, <1>2, <1>3

LEMMA WrittenSame ==
  ASSUME NEW d, NEW f, NEW size \in Nat, SameBelow(d, f, size),
         NEW l, l.start = 0, Shaped(l, size), NEW bs, NEW alive, NEW cs, NEW live,
         AliveOrNew(l, bs, alive, cs, live), UsesKept(bs, cs), Written(d, l, bs, alive)
  PROVE  Written(f, l, cs, live)
  <1> SUFFICES ASSUME ~ForwardCall(l), NEW i \in Ops(l) PROVE Encoded(f, l, cs, live, i)
    BY DEF Written
  <1>1. /\ i \in DOMAIN l.placed /\ l.placed[i].at \in Nat /\ l.placed[i].item.b \in Emitted
    BY ShapedGives
  <1>2. Copied(d, l.start, f, l.start, l.placed[i])
    BY SparedBelow DEF SameBelow
  <1>4. Awaited(bs, l.placed[i]) => Awaited(cs, l.placed[i])
    BY UsesAre DEF UsesKept
  <1>5. Lost(l, bs, alive, i) => Lost(l, cs, live, i)
    BY <1>1 DEF Lost, AliveOrNew
  <1>6. l.start \in Nat /\ Encoded(d, l, bs, alive, i) /\ Wanted(l, i) \subseteq Wanted(l, i)
    BY DEF Written
  <1> QED
    BY <1>1, <1>2, <1>4, <1>5, <1>6, EncodedKept

--------------------------------------------------------------------------------
(* A label patched *)

LEMMA UseFacts ==
  ASSUME NEW b \in Labelled
  PROVE  /\ UseAt(b) \in Nat /\ UseAt(b) < Length(b)
         /\ b # "call_label" => /\ Instr(b) \in DOMAIN DestAt /\ UseAt(b) = DestAt[Instr(b)]
                                /\ Wide(b) = 8 /\ UseAt(b) + 8 <= Length(b)
         /\ b \in Emitted /\ b # "if"
  <1>1. b \in Emitted /\ b # "if" /\ b # "jump"
    BY DEF Emitted, Labelled
  <1>2. b # "call_label" => /\ Instr(b) \in DOMAIN DestAt /\ UseAt(b) = Relocation(b) /\ Relocation(b) # 0
                            /\ DestAt[Instr(b)] = Relocation(b)
    BY <1>1, Relocations
  <1>3. UseAt("call_label") = 7 /\ Length("call_label") = 13
    BY OtherTypes, Lengths DEF UseAt, TagSize
  <1>4. Relocation(b) # 0 => Relocation(b) \in Nat /\ Relocation(b) + 8 <= Length(b) /\ Length(b) \in Nat
    BY <1>1, LayoutFacts
  <1>5. Wide(b) = 8
    BY <1>1 DEF Wide
  <1>6. CASE b = "call_label"
    BY <1>1, <1>3, <1>6
  <1>7. CASE b # "call_label"
    <2>1. PICK r \in Nat : r = Relocation(b) /\ r + 8 <= Length(b)
      BY <1>2, <1>4, <1>7
    <2> QED
      BY <1>1, <1>2, <1>4, <1>5, <1>7, <2>1
  <1> QED
    BY <1>6, <1>7

\* The use at an address is of one instruction.
LEMMA UseOfOne ==
  ASSUME NEW l, NEW size \in Nat, Shaped(l, size), NEW i \in Ops(l), NEW j \in Ops(l), NEW use,
         UseOf(use, l.placed[i]), UseOf(use, l.placed[j])
  PROVE  i = j
  <1>1. /\ l.placed[i].item.b \in Labelled /\ l.placed[j].item.b \in Labelled
        /\ l.placed[i].at + UseAt(l.placed[i].item.b) = l.placed[j].at + UseAt(l.placed[j].item.b)
    BY DEF UseOf
  <1>2. /\ UseAt(l.placed[i].item.b) \in Nat /\ UseAt(l.placed[i].item.b) < Length(l.placed[i].item.b)
        /\ UseAt(l.placed[j].item.b) \in Nat /\ UseAt(l.placed[j].item.b) < Length(l.placed[j].item.b)
    BY <1>1, UseFacts
  <1> QED
    BY <1>1, <1>2, OwnOffset

\* The instruction whose label is patched
LEMMA EncodedPatched ==
  ASSUME NEW d, NEW e, NEW l, l.start = 0, NEW size \in Nat, Shaped(l, size), NEW i \in Ops(l),
         NEW bs, NEW alive, NEW cs, NEW live, NEW use, UseOf(use, l.placed[i]),
         l.placed[i].item.b # "call_label", Encoded(d, l, bs, alive, i),
         \/ e = d /\ Lost(l, cs, live, i)
         \/ \E j \in Meant(l, i) :
              /\ Spared(d, e, use.idx, 8, size)
              /\ \A k \in Nat : k < 8 => e[use.idx + k] = Byte(l.placed[j].at, k)
  PROVE  Encoded(e, l, cs, live, i)
  <1>1. PICK p : p = l.placed[i]
    OBVIOUS
  <1>2. /\ p.item.b \in Labelled /\ use.idx = p.at + UseAt(p.item.b) /\ p.at \in Nat /\ i \in DOMAIN l.placed
        /\ End(p) \in Nat /\ End(p) <= size
    BY <1>1, ShapedGives DEF UseOf
  <1>3. /\ UseAt(p.item.b) \in Nat /\ Instr(p.item.b) \in DOMAIN DestAt
        /\ UseAt(p.item.b) = DestAt[Instr(p.item.b)] /\ Wide(p.item.b) = 8
        /\ p.item.b \in Emitted /\ p.item.b # "if"
    BY <1>1, <1>2, UseFacts
  <1>4. Legible(d, 0, p)
    BY <1>1, <1>3 DEF Encoded
  <1>5. CASE e = d /\ Lost(l, cs, live, i)
    BY <1>1, <1>2, <1>4, <1>5 DEF Encoded
  <1>6. ASSUME NEW j \in Meant(l, i), Spared(d, e, use.idx, 8, size),
               \A k \in Nat : k < 8 => e[use.idx + k] = Byte(l.placed[j].at, k)
        PROVE  Encoded(e, l, cs, live, i)
    <2>1. PICK o \in Nat : o = UseAt(p.item.b)
      BY <1>3
    <2>2. PICK at \in Nat : at = p.at
      BY <1>2
    <2>3. PICK lo \in Nat : lo = use.idx /\ lo = 0 + p.at + o /\ lo = at + o
      BY <1>2, <2>1, <2>2
    <2>4. 1 <= o /\ Clear(p.item.b, o, 8)
      BY <1>3, <2>1, Offsets DEF RegisterAt, Clear
    <2>5. Spared(d, e, lo, 8, size) /\ 0 + End(p) <= size
      BY <1>2, <1>6, <2>3
    <2>6. Legible(e, 0, p)
      <3>1. 8 \in Nat /\ 0 \in Nat
        OBVIOUS
      <3>2. Rewritten(d, e, 0, p, o, 8)
        BY <2>3, <2>5 DEF Rewritten
      <3> QED
        BY <1>2, <1>3, <1>4, <2>4, <3>1, <3>2, SparedLegible
    <2>7. PICK v \in Nat : v = l.placed[j].at
      BY MeantOf DEF Shaped
    <2>8. v + 0 = v /\ v \in Wanted(l, i)
      BY <1>1, <1>2, <1>6, <2>7 DEF Wanted
    <2>9. ASSUME NEW k \in Nat, k < 8 PROVE e[0 + at + o + k] = Byte(v, k)
      <3>1. 0 + at + o + k = use.idx + k
        BY <2>3
      <3> QED
        BY <1>6, <2>7, <2>9, <3>1
    <2>10. Part(e, 0, p, DestAt[Instr(p.item.b)], Wide(p.item.b), v)
      BY <1>3, <2>1, <2>2, <2>9 DEF Part
    <2>11. Aimed(e, l, i, 0)
      BY <1>1, <2>8, <2>10 DEF Aimed
    <2> QED
      BY <1>1, <2>6, <2>11 DEF Encoded
  <1> QED
    BY <1>5, <1>6

\* What a patch at idx changes in the bytes, and the uses without the one patched
Patched(d, e, idx, dest, size) ==
  IF dest = NULL THEN e = d
  ELSE /\ Spared(d, e, idx, 8, size)
       /\ \A k \in Nat : k < 8 /\ idx + k < size => e[idx + k] = Byte(dest, k)
UsesBut(bs, use, cs) == \A id, u : UseIn(bs, id, u) => UseIn(cs, id, u) \/ u = use
SameIds(bs, alive, cs) == \A k \in alive : cs[k].id = bs[k].id
LEMMA WrittenPatched ==
  ASSUME NEW d, NEW e, NEW size \in Nat, NEW l, l.start = 0, Shaped(l, size),
         NEW bs, NEW next1, Numbered(l, bs, next1), Labelling(l, bs), Pending(l, bs),
         NEW n \in DOMAIN bs, NEW use, use.name \in Names, use.idx \in Nat, UseIn(bs, bs[n].id, use),
         NEW alive, alive \subseteq DOMAIN bs \ {n}, NEW cs, SameIds(bs, alive, cs),
         UsesBut(bs, use, cs), Patched(d, e, use.idx, bs[n].labels[use.name], size),
         Written(d, l, bs, alive)
  PROVE  Written(e, l, cs, alive)
  <1> SUFFICES ASSUME ~ForwardCall(l), NEW i \in Ops(l) PROVE Encoded(e, l, cs, alive, i)
    BY DEF Written
  <1>1. PICK i0 \in Ops(l) : UsedBy(l, bs[n].id, use, i0)
    BY UsesAre
  <1>2. /\ l.placed[i0].block = bs[n].id /\ UseOf(use, l.placed[i0]) /\ \A j \in Meant(l, i0) : j > i0
    BY <1>1 DEF UsedBy
  <1>3. l.placed[i0].item.b # "call_label"
    BY <1>2 DEF ForwardCall
  <1>4. Encoded(d, l, bs, alive, i) /\ Encoded(d, l, bs, alive, i0)
    BY DEF Written
  <1> DEFINE dest == bs[n].labels[use.name]
  <1>5. PICK b : b = l.placed[i0].item.b
    OBVIOUS
  <1>6. b \in Labelled /\ use.idx = l.placed[i0].at + UseAt(b) /\ l.placed[i0].item.name = use.name
    BY <1>2, <1>5 DEF UseOf
  <1>7. UseAt(b) \in Nat /\ UseAt(b) + 8 <= Length(b) /\ b \in Emitted
    BY <1>3, <1>5, <1>6, UseFacts
  <1>8. /\ l.placed[i0].at \in Nat /\ End(l.placed[i0]) \in Nat /\ End(l.placed[i0]) <= size
        /\ l.placed[i].at \in Nat /\ End(l.placed[i]) \in Nat /\ End(l.placed[i]) <= size
        /\ i \in DOMAIN l.placed /\ l.placed[i].item.b \in Emitted /\ i0 \in DOMAIN l.placed
    BY ShapedGives
  <1>9. use.idx + 8 <= End(l.placed[i0]) /\ l.placed[i0].at <= use.idx
    <2>1. PICK at \in Nat : at = l.placed[i0].at
      BY <1>8
    <2>2. PICK m \in Nat : m = Length(b)
      BY <1>7, LengthIsNat
    <2>3. End(l.placed[i0]) = at + m /\ use.idx = at + UseAt(b)
      BY <1>5, <1>6, <2>1, <2>2 DEF End
    <2> QED
      BY <1>7, <2>1, <2>2, <2>3
  <1>a. \/ dest = NULL /\ e = d
        \/ dest # NULL /\ Spared(d, e, use.idx, 8, size)
    BY DEF Patched
  <1>10. CASE i = i0
    <2>1. Labelled1(l, bs[n])
      BY LabellingIs
    <2>2. CASE dest = NULL
      <3>1. Undefined(l, bs[n].id, use.name)
        BY <2>1, <2>2 DEF Labelled1
      <3>2. \A j : j \in Meant(l, i0) <=> j \in DOMAIN l.placed /\ IsLabel(l, j, bs[n].id, use.name)
        BY <1>2, <1>6, MeantOf
      <3>3. \A j : j \notin Meant(l, i0)
        BY <3>1, <3>2 DEF Undefined
      <3>4. Meant(l, i0) = {}
        BY <3>3
      <3>5. \A k \in alive : cs[k].id # l.placed[i0].block
        BY <1>2 DEF Numbered, SameIds
      <3>6. e = d /\ Lost(l, cs, alive, i0)
        BY <2>2, <1>a, <3>4, <3>5 DEF Lost
      <3> QED
        BY <1>2, <1>3, <1>4, <1>10, <3>6, EncodedPatched
    <2>3. CASE dest # NULL
      <3>1. Defines(l, bs[n].id, use.name, dest)
        BY <2>1, <2>3 DEF Labelled1
      <3>2. PICK j \in DOMAIN l.placed : IsLabel(l, j, bs[n].id, use.name) /\ l.placed[j].at = dest
        BY <3>1 DEF Defines
      <3>3. j \in Meant(l, i0)
        BY <1>2, <1>6, <3>2, MeantOf
      <3>4. \A k \in Nat : k < 8 => e[use.idx + k] = Byte(l.placed[j].at, k)
        <4> SUFFICES ASSUME NEW k \in Nat, k < 8 PROVE e[use.idx + k] = Byte(dest, k)
          BY <3>2
        <4>1. use.idx + k < size
          BY <1>8, <1>9
        <4> QED
          BY <2>3, <4>1 DEF Patched
      <3>5. Spared(d, e, use.idx, 8, size)
        BY <1>a, <2>3
      <3> HIDE DEF dest
      <3> QED
        BY <1>2, <1>3, <1>4, <1>10, <3>3, <3>4, <3>5, EncodedPatched
    <2> QED
      BY <2>2, <2>3
  <1>11. CASE i # i0
    <2>1. Awaited(bs, l.placed[i]) => Awaited(cs, l.placed[i])
      <3>1. ASSUME NEW u, UseIn(bs, l.placed[i].block, u), UseOf(u, l.placed[i])
            PROVE  UseIn(cs, l.placed[i].block, u)
        <4>1. u # use
          BY <1>2, <1>11, <3>1, UseOfOne
        <4> QED
          BY <3>1, <4>1 DEF UsesBut
      <3> QED
        BY <3>1, UsesAre
    <2>2. Lost(l, bs, alive, i) => Lost(l, cs, alive, i)
      BY DEF Lost, SameIds
    <2>3. Copied(d, l.start, e, l.start, l.placed[i])
      <3>1. CASE e = d
        BY <3>1 DEF Copied
      <3>2. CASE Spared(d, e, use.idx, 8, size)
        <4>1. End(l.placed[i]) <= l.placed[i0].at \/ End(l.placed[i0]) <= l.placed[i].at
          BY <1>11, ShapedGives
        <4>2. \/ 0 + End(l.placed[i]) <= use.idx \/ use.idx + 8 <= 0 + l.placed[i].at
          BY <4>1, <1>8, <1>9
        <4>3. 0 + End(l.placed[i]) <= size
          BY <1>8
        <4> QED
          BY <1>8, <3>2, <4>2, <4>3, SparedCopied
      <3> QED
        BY <1>a, <3>1, <3>2
    <2>4. Wanted(l, i) \subseteq Wanted(l, i) /\ l.start \in Nat
      OBVIOUS
    <2> QED
      BY <1>4, <1>8, <2>1, <2>2, <2>3, <2>4, EncodedKept
  <1> QED
    BY <1>10, <1>11

--------------------------------------------------------------------------------
(* What a step of the generator does to the chunk and to the open blocks *)

LEMMA ExpandedData ==
  ASSUME IsChunk(chunk)
  PROVE  \A a \in Nat : a < chunk.size => Expanded.data[a] = chunk.data[a]
  <1>1. chunk.capacity \in Nat /\ chunk.size \in Nat /\ chunk.size <= chunk.capacity /\ ChunkGrowth \in Nat
    BY GeneratorAssumption DEF IsChunk
  <1>2. CASE ~MustExpand
    BY <1>2 DEF Expanded
  <1>3. CASE MustExpand
    <2> DEFINE capacity1 == chunk.capacity + ChunkGrowth
               data1 == [a \in 0 .. chunk.capacity + ChunkGrowth - 1 |->
                           IF a < chunk.capacity THEN chunk.data[a] ELSE 0]
    <2>1. Expanded = [chunk EXCEPT !.capacity = capacity1, !.data = data1]
      BY <1>3 DEF Expanded
    <2> HIDE DEF capacity1
    <2>2. Expanded.data = data1
      <3> HIDE DEF data1
      <3> QED
        BY <2>1, ChunkGrown
    <2>3. \A a \in Nat : a < chunk.size => data1[a] = chunk.data[a]
      BY <1>1
    <2> HIDE DEF data1
    <2> QED
      BY <2>2, <2>3
  <1> QED
    BY <1>2, <1>3

LEMMA ClosedData ==
  ASSUME NEW c, IsChunk(c), NEW entry
  PROVE  /\ Closed(c, entry).data = c.data /\ Closed(c, entry).size = c.size
         /\ Closed(c, entry).relocs = c.relocs /\ Closed(c, entry).constants = c.constants
  BY DEF Closed, IsChunk

LEMMA EmitData ==
  ASSUME IsChunk(chunk), NEW b \in Emitted, NEW name, NEW fields
  PROVE  LET e == Emit(b, name, fields)
         IN /\ e.data = Write(Expanded.data, chunk.size, fields)
            /\ e.size = chunk.size + Length(b)
            /\ e.relocs = IF Relocation(b) = 0 THEN chunk.relocs
                          ELSE Append(chunk.relocs, chunk.size + Relocation(b))
            /\ e.constants = IF b \notin Constants THEN chunk.constants
                             ELSE Append(chunk.constants, [index |-> chunk.size + ConstantAt(b),
                                                           type |-> ConstantType(b), name |-> name])
  <1> DEFINE e == Expanded
             data == Write(e.data, chunk.size, fields)
             size == e.size + Length(b)
             relocs == IF Relocation(b) = 0 THEN e.relocs
                       ELSE Append(e.relocs, chunk.size + Relocation(b))
             cnst == [index |-> chunk.size + ConstantAt(b), type |-> ConstantType(b), name |-> name]
             constants == IF b \notin Constants THEN e.constants ELSE Append(e.constants, cnst)
  <1>1. IsChunk(e) /\ e.size = chunk.size /\ e.relocs = chunk.relocs /\ e.constants = chunk.constants
    BY ExpandedFacts
  <1>2. Emit(b, name, fields) = Appended(e, data, size, relocs, constants)
    BY DEF Emit, Appended
  <1>3. LET x == Emit(b, name, fields)
        IN x.data = data /\ x.size = size /\ x.relocs = relocs /\ x.constants = constants
    <2> HIDE DEF e, data, size, relocs, constants
    <2> QED
      BY <1>1, <1>2, ChunkAppended
  <1> QED
    BY <1>1, <1>3

\* A block without uses, and one more use in front of the others.
InFront(u, t, s) == (\E S : t \in Seq(S)) /\ s = <<u>> \o t
LEMMA UseAdded ==
  ASSUME NEW u, NEW t, NEW s, InFront(u, t, s)
  PROVE  /\ \A k \in DOMAIN t : \E j \in DOMAIN s : s[j] = t[k]
         /\ \A j \in DOMAIN s : s[j] = u \/ \E k \in DOMAIN t : s[j] = t[k]
         /\ \E j \in DOMAIN s : s[j] = u
  <1>0. PICK S : t \in Seq(S)
    BY DEF InFront
  <1>s. s = <<u>> \o t
    BY DEF InFront
  <1>1. /\ Len(s) = Len(t) + 1 /\ s[1] = u /\ DOMAIN s = 1 .. Len(t) + 1 /\ DOMAIN t = 1 .. Len(t)
        /\ \A k \in 1 .. Len(t) : s[k + 1] = t[k] /\ k + 1 \in 1 .. Len(t) + 1
        /\ Len(t) \in Nat
    <2>0. Len(t) \in Nat /\ DOMAIN t = 1 .. Len(t)
      BY <1>0
    <2>1. s \in Seq({u} \cup S)
      <3>1. <<u>> \in Seq({u} \cup S) /\ t \in Seq({u} \cup S)
        BY <1>0
      <3> QED
        BY <1>s, <3>1
    <2>2. Len(s) = Len(t) + 1
      BY <1>0, <1>s
    <2>4. DOMAIN s = 1 .. Len(t) + 1
      BY <2>1, <2>2
    <2>6. s[1] = u
      BY <1>0, <1>s, <2>0
    <2>7. ASSUME NEW k \in 1 .. Len(t) PROVE s[k + 1] = t[k] /\ k + 1 \in 1 .. Len(t) + 1
      BY <1>0, <1>s, <2>0, <2>7
    <2> QED
      BY <2>0, <2>2, <2>4, <2>6, <2>7, Zenon
  <1>2. \A j \in 1 .. Len(t) + 1 : j = 1 \/ (j - 1 \in 1 .. Len(t) /\ (j - 1) + 1 = j)
    BY <1>1
  <1>3. \A k \in DOMAIN t : \E j \in DOMAIN s : s[j] = t[k]
    BY <1>1, Zenon
  <1>4. \E j \in DOMAIN s : s[j] = u
    <2>1. 1 \in DOMAIN s
      BY <1>1
    <2> QED
      BY <1>1, <2>1, Zenon
  <1>5. ASSUME NEW j \in DOMAIN s, s[j] # u
        PROVE  \E k \in DOMAIN t : s[j] = t[k]
    <2>1. j - 1 \in 1 .. Len(t) /\ (j - 1) + 1 = j
      BY <1>1, <1>2, <1>5
    <2>2. PICK k \in DOMAIN t : s[j] = t[k]
      <3>1. s[(j - 1) + 1] = t[j - 1]
        BY <1>1, <2>1, Zenon
      <3> QED
        BY <1>1, <2>1, <3>1, Zenon
    <2> QED
      BY <2>2
  <1> QED
    BY <1>3, <1>4, <1>5, Zenon

\* All of a block's uses but one are those of another.
AllBut(us, u, ws) == \A k \in DOMAIN us : us[k] = u \/ \E j \in DOMAIN ws : ws[j] = us[k]
LEMMA UseTaken ==
  ASSUME NEW S, NEW t \in Seq(S), t # <<>>, NEW u, u = Head(t), NEW s, s = Tail(t)
  PROVE  AllBut(s, u, t) /\ AllBut(t, u, s) /\ \E k \in DOMAIN t : t[k] = u
  <1>1. /\ Len(t) \in Nat \ {0} /\ DOMAIN t = 1 .. Len(t) /\ DOMAIN s = 1 .. Len(t) - 1
        /\ Head(t) = t[1] /\ \A j \in 1 .. Len(t) - 1 : s[j] = t[j + 1] /\ j + 1 \in 1 .. Len(t)
    OBVIOUS
  <1>2. \A k \in 1 .. Len(t) : k = 1 \/ (k - 1 \in 1 .. Len(t) - 1 /\ (k - 1) + 1 = k)
    BY <1>1
  <1>3. 1 \in 1 .. Len(t)
    BY <1>1
  <1>4. AllBut(s, u, t)
    BY <1>1 DEF AllBut
  <1>5. AllBut(t, u, s)
    BY <1>1, <1>2 DEF AllBut
  <1> QED
    BY <1>1, <1>3, <1>4, <1>5

\* The uses after a block is replaced
LEMMA UsesReplaced ==
  ASSUME NEW bs, NEW n, NEW blk, NEW cs, Replaced(bs, n, blk, cs), NEW extra, NEW less,
         AllBut(bs[n].uses, less, blk.uses), AllBut(blk.uses, extra, bs[n].uses)
  PROVE  /\ \A id, use : UseIn(bs, id, use) => UseIn(cs, id, use) \/ use = less
         /\ \A id, use : UseIn(cs, id, use) => UseIn(bs, id, use) \/ (use = extra /\ id = bs[n].id)
  <1>1. ASSUME NEW id, NEW use, UseIn(bs, id, use)
        PROVE  UseIn(cs, id, use) \/ use = less
    <2>1. PICK k \in DOMAIN bs : bs[k].id = id /\ \E u \in DOMAIN bs[k].uses : bs[k].uses[u] = use
      BY <1>1, Zenon DEF UseIn
    <2>2. k \in DOMAIN cs /\ cs[k].id = id
      BY <2>1 DEF Replaced
    <2>3. CASE k # n
      <3>1. cs[k] = bs[k]
        BY <2>1, <2>3 DEF Replaced
      <3>2. \E u \in DOMAIN cs[k].uses : cs[k].uses[u] = use
        BY <2>1, <3>1
      <3> QED
        BY <2>2, <3>2 DEF UseIn
    <2>4. CASE k = n
      <3>1. cs[k] = blk
        BY <2>4 DEF Replaced
      <3>2. use = less \/ \E j \in DOMAIN blk.uses : blk.uses[j] = use
        BY <2>1, <2>4 DEF AllBut
      <3>3. (\E j \in DOMAIN cs[k].uses : cs[k].uses[j] = use) => UseIn(cs, id, use)
        BY <2>2 DEF UseIn
      <3> QED
        BY <3>1, <3>2, <3>3
    <2> QED
      BY <2>3, <2>4
  <1>2. ASSUME NEW id, NEW use, UseIn(cs, id, use)
        PROVE  UseIn(bs, id, use) \/ (use = extra /\ id = bs[n].id)
    <2>1. PICK k \in DOMAIN cs : cs[k].id = id /\ \E u \in DOMAIN cs[k].uses : cs[k].uses[u] = use
      BY <1>2, Zenon DEF UseIn
    <2>2. k \in DOMAIN bs /\ bs[k].id = id
      BY <2>1 DEF Replaced
    <2>3. CASE k # n
      <3>1. cs[k] = bs[k]
        BY <2>2, <2>3 DEF Replaced
      <3>2. \E u \in DOMAIN bs[k].uses : bs[k].uses[u] = use
        BY <2>1, <3>1
      <3> QED
        BY <2>2, <3>2 DEF UseIn
    <2>4. CASE k = n
      <3>1. cs[k] = blk
        BY <2>4 DEF Replaced
      <3>2. use = extra \/ \E j \in DOMAIN bs[n].uses : bs[n].uses[j] = use
        BY <2>1, <2>4, <3>1 DEF AllBut
      <3>3. (\E j \in DOMAIN bs[k].uses : bs[k].uses[j] = use) => UseIn(bs, id, use)
        BY <2>2 DEF UseIn
      <3> QED
        BY <2>2, <2>4, <3>2, <3>3
    <2> QED
      BY <2>3, <2>4
  <1> QED
    BY <1>1, <1>2

--------------------------------------------------------------------------------
(* The generator's steps *)

LEMMA OpenFacts ==
  ASSUME GenInv, pc \in {"process", "end"}
  PROVE  /\ IsChunk(chunk) /\ chunk.size \in Nat /\ next \in Nat /\ blocks # <<>>
         /\ blocks \in Seq(OpenBlock(chunk.capacity))
         /\ Len(blocks) \in DOMAIN blocks /\ Block = blocks[Len(blocks)] /\ Block.id = blocks[Len(blocks)].id
         /\ \A k \in DOMAIN blocks :
              /\ blocks[k].id \in Nat /\ blocks[k].labels \in [Names -> Nat \cup {NULL}]
              /\ blocks[k].uses \in Seq(Uses(chunk.capacity)) /\ k \in Nat /\ k <= Len(blocks)
  <1>1. IsChunk(chunk) /\ chunk.size \in Nat /\ next \in Nat
    BY DEF GenInv, Built, IsChunk
  <1>2. blocks # <<>> /\ blocks \in Seq(OpenBlock(chunk.capacity))
    BY DEF GenInv, Opened
  <1>3. Len(blocks) \in DOMAIN blocks /\ Block = blocks[Len(blocks)] /\ Block.id = blocks[Len(blocks)].id
    BY <1>2, TopReplaced DEF Block, Top
  <1>4. \A k \in DOMAIN blocks : k \in 1 .. Len(blocks) /\ k \in Nat /\ k <= Len(blocks)
    BY <1>2
  <1>5. \A k \in DOMAIN blocks : blocks[k] \in OpenBlock(chunk.capacity)
    BY <1>2, <1>4, Elements
  <1>6. \A blk \in OpenBlock(chunk.capacity) :
           /\ blk.id \in Nat /\ blk.labels \in [Names -> Nat \cup {NULL}]
           /\ blk.uses \in Seq(Uses(chunk.capacity))
    BY DEF OpenBlock
  <1> QED
    BY <1>1, <1>2, <1>3, <1>4, <1>5, <1>6, Zenon

LEMMA NowFacts == Now.start = 0 /\ Now.placed = placed
  BY DEF Now

LEMMA CodedGives ==
  ASSUME Coded, pc \in {"process", "end"}
  PROVE  /\ Shaped(Now, chunk.size) /\ Compact(Now, chunk.size)
         /\ Listed(Now, chunk.relocs) /\ Collected(Now, chunk.constants)
         /\ Numbered(Now, blocks, next) /\ Labelling(Now, blocks) /\ Pending(Now, blocks)
         /\ Written(chunk.data, Now, blocks, Alive)
  BY DEF Coded, Making

\* One more entry, in the innermost block.
LEMMA EntryPlaced ==
  ASSUME GenInv, Coded, NEW kinds, Processing(kinds), NEW chnk, NEW blk, blk.id = Block.id,
         NEW what, Processed(chnk, blk, Put(what))
  PROVE  /\ Grown(Now, Put(what), Now') /\ Now'.start = 0
         /\ Replaced(blocks, Len(blocks), blk, blocks') /\ Numbered(Now', blocks', next')
         /\ Alive = DOMAIN blocks /\ Alive' = DOMAIN blocks /\ chunk' = chnk /\ pc' = "process"
         /\ Put(what).what = what /\ Put(what).at = chunk.size /\ Put(what).item = Current
         /\ Put(what).block = blocks[Len(blocks)].id /\ pc = "process"
         /\ Current \in Items /\ Current.b \in kinds
  <1>1. pc = "process" /\ Current \in Items /\ Current.b \in kinds
    BY CurrentFacts DEF Processing
  <1>2. /\ next' = next + 1 /\ chunk' = chnk /\ pc' = "process" /\ placed' = Append(placed, Put(what))
        /\ blocks' = [blocks EXCEPT ![Len(blocks)] = blk]
    BY <1>1 DEF Processed
  <1>3. Grown(Now, Put(what), Now')
    <2>1. Now.placed = placed /\ Now'.placed = placed'
      BY DEF Now
    <2>2. Listing(Now)
      BY <1>1, CodedGives DEF Shaped, Listing
    <2> QED
      BY <1>2, <2>1, <2>2, Zenon DEF Grown
  <1>4. /\ blocks # <<>> /\ blocks \in Seq(OpenBlock(chunk.capacity)) /\ next \in Nat
        /\ \A k \in DOMAIN blocks : blocks[k].id \in Nat
        /\ Block.id = blocks[Len(blocks)].id
    BY <1>1, OpenFacts
  <1>5. Replaced(blocks, Len(blocks), blk, blocks')
    BY <1>2, <1>4, TopReplaced DEF Replaced
  <1>6. Put(what).block = blocks[Len(blocks)].id
    BY <1>4 DEF Put
  <1>7. Numbered(Now', blocks', next')
    <2>1. next + 1 \in Nat /\ next <= next + 1
      BY <1>4
    <2>2. Numbered(Now, blocks, next)
      BY <1>1, CodedGives
    <2>3. Numbered(Now', blocks', next + 1)
      BY <1>3, <1>4, <1>5, <1>6, <2>1, <2>2, NumberedReplaced
    <2> QED
      BY <1>2, <2>3
  <1>8. Alive = DOMAIN blocks
    BY <1>1 DEF Alive
  <1>9. Alive' = DOMAIN blocks
    <2>1. Alive' = {k \in DOMAIN blocks' : ~(pc' = "end" /\ k = Len(blocks'))}
      BY DEF Alive
    <2>2. DOMAIN blocks' = DOMAIN blocks
      BY <1>5 DEF Replaced
    <2> QED
      BY <1>2, <2>1, <2>2
  <1>10. Now'.start = 0
    BY DEF Now
  <1> QED
    BY <1>1, <1>2, <1>3, <1>5, <1>6, <1>7, <1>8, <1>9, <1>10, PutFacts

\* A chunk that goes on with what it has
Goes(chnk) ==
  /\ chnk.size = chunk.size /\ chnk.relocs = chunk.relocs /\ chnk.constants = chunk.constants
  /\ SameBelow(chunk.data, chnk.data, chunk.size)
LEMMA ExpandedGoes ==
  ASSUME IsChunk(chunk)
  PROVE  Goes(Expanded)
  BY ExpandedFacts, ExpandedData DEF Goes, SameBelow

LEMMA UsesSame ==
  ASSUME NEW bs, NEW n, NEW blk, NEW cs, Replaced(bs, n, blk, cs), blk.uses = bs[n].uses
  PROVE  \A id, use : UseIn(bs, id, use) <=> UseIn(cs, id, use)
  <1>1. /\ DOMAIN cs = DOMAIN bs /\ \A k \in DOMAIN bs : cs[k].id = bs[k].id /\ cs[k].uses = bs[k].uses
    BY DEF Replaced
  <1> QED
    BY <1>1 DEF UseIn

\* A debug item or a label
LEMMA CodedNoOp ==
  ASSUME GenInv, Coded, NEW kinds, Processing(kinds), NEW chnk, Goes(chnk), NEW blk,
         blk.id = Block.id, blk.uses = Block.uses,
         NEW what, what # "op", Processed(chnk, blk, Put(what)),
         \/ what # "label" /\ blk.labels = Block.labels
         \/ what = "label" /\ \A name \in Names :
              blk.labels[name] = IF name = Current.name THEN chunk.size ELSE Block.labels[name]
  PROVE  Coded'
  <1> DEFINE n == Len(blocks)
             e == Put(what)
  <1>1. /\ Grown(Now, e, Now') /\ Now'.start = 0
        /\ Replaced(blocks, n, blk, blocks') /\ Numbered(Now', blocks', next')
        /\ Alive = DOMAIN blocks /\ Alive' = DOMAIN blocks /\ chunk' = chnk /\ pc' = "process"
        /\ e.what = what /\ e.at = chunk.size /\ e.item = Current /\ e.block = blocks[n].id
        /\ pc = "process" /\ Current \in Items
    BY EntryPlaced
  <1>2. /\ Shaped(Now, chunk.size) /\ Compact(Now, chunk.size)
        /\ Listed(Now, chunk.relocs) /\ Collected(Now, chunk.constants)
        /\ Numbered(Now, blocks, next) /\ Labelling(Now, blocks) /\ Pending(Now, blocks)
        /\ Written(chunk.data, Now, blocks, Alive)
    BY <1>1, CodedGives
  <1>3. /\ chunk.size \in Nat /\ n \in DOMAIN blocks /\ Block = blocks[n]
        /\ chunk'.size = chunk.size /\ chunk'.relocs = chunk.relocs /\ chunk'.constants = chunk.constants
        /\ SameBelow(chunk.data, chunk'.data, chunk.size)
    BY <1>1, OpenFacts DEF Goes
  <1> HIDE DEF e, n
  <1>4. Shaped(Now', chunk.size) /\ Compact(Now', chunk.size)
    BY <1>1, <1>2, <1>3, ShapedAdded
  <1>5. Listed(Now', chunk.relocs) /\ Collected(Now', chunk.constants)
    BY <1>1, <1>2, ListedSame, CollectedSame
  <1>6. Labelling(Now', blocks')
    <2>1. CASE what # "label" /\ blk.labels = Block.labels
      <3>1. \A k \in DOMAIN blocks' : /\ k \in DOMAIN blocks /\ blocks'[k].id = blocks[k].id
                                      /\ blocks'[k].labels = blocks[k].labels
        BY <1>1, <1>3, <2>1 DEF Replaced
      <3> QED
        BY <1>1, <1>2, <2>1, <3>1, LabellingKept
    <2>2. CASE what = "label" /\ \A name \in Names :
                 blk.labels[name] = IF name = Current.name THEN chunk.size ELSE Block.labels[name]
      <3>1. e.at # NULL
        BY <1>1, <1>3, GeneratorAssumption
      <3>2. \A name \in Names :
              blk.labels[name] = IF name = e.item.name THEN e.at ELSE blocks[n].labels[name]
        BY <1>1, <1>3, <2>2
      <3>3. e.block = blk.id /\ e.what = "label"
        BY <1>1, <1>3, <2>2
      <3> QED
        BY <1>1, <1>2, <3>1, <3>2, <3>3, LabellingDefined
    <2> QED
      BY <2>1, <2>2
  <1>7. \A id, use : UseIn(blocks, id, use) <=> UseIn(blocks', id, use)
    BY <1>1, <1>3, UsesSame
  <1>8. Pending(Now', blocks')
    BY <1>1, <1>2, <1>7, PendingKept
  <1>9. Written(chunk'.data, Now', blocks', Alive')
    <2>1. \A k \in DOMAIN blocks : blocks'[k].id = blocks[k].id
      BY <1>1 DEF Replaced
    <2>2. StillAlive(blocks, Alive, blocks', Alive')
      BY <1>1, <2>1 DEF StillAlive
    <2>3. NamesAlive(e, blocks, Alive)
      BY <1>1, <1>3 DEF NamesAlive
    <2>4. UsesKept(blocks, blocks')
      BY <1>7 DEF UsesKept
    <2> QED
      BY <1>1, <1>2, <1>3, <2>2, <2>3, <2>4, NowFacts, WrittenAdded
  <1> QED
    BY <1>1, <1>3, <1>4, <1>5, <1>6, <1>8, <1>9 DEF Coded, Making

LEMMA CodedDebugItem ==
  ASSUME GenInv, Coded, DebugItem
  PROVE  Coded'
  <1> DEFINE entry1 == [ip |-> chunk.size, line |-> Current.n, name |-> Current.name, flags |-> Current.flags]
             blk == [Block EXCEPT !.entry = entry1]
             chnk == Closed(Expanded, Block.entry)
  <1>1. Processing({"debug"}) /\ Processed(chnk, blk, Put("debug"))
    BY DEF DebugItem
  <1>2. pc = "process"
    BY <1>1 DEF Processing
  <1>3. Block \in OpenBlock(chunk.capacity)
    BY <1>2, BlockFacts
  <1>4. blk.id = Block.id /\ blk.uses = Block.uses /\ blk.labels = Block.labels
    <2> HIDE DEF entry1
    <2> QED
      BY <1>3 DEF OpenBlock
  <1>5. IsChunk(chunk)
    BY <1>2, OpenFacts
  <1>6. Goes(chnk)
    BY <1>5, ExpandedFacts, ExpandedGoes, ClosedData DEF Goes
  <1> HIDE DEF blk, chnk
  <1> QED
    BY <1>1, <1>4, <1>6, CodedNoOp

LEMMA CodedLabelItem ==
  ASSUME GenInv, Coded, LabelItem
  PROVE  Coded'
  <1> DEFINE blk == [Block EXCEPT !.labels[Current.name] = chunk.size]
             chnk == IF Current.b = "label" THEN Expanded
                     ELSE [Expanded EXCEPT !.symbols = Append(@, [index |-> chunk.size, name |-> Current.name])]
  <1>1. Processing({"label", "sub"}) /\ Processed(chnk, blk, Put("label"))
    BY DEF LabelItem
  <1>2. pc = "process"
    BY <1>1 DEF Processing
  <1>3. Block \in OpenBlock(chunk.capacity)
    BY <1>2, BlockFacts
  <1>4. Block.labels \in [Names -> Nat \cup {NULL}]
    BY <1>3 DEF OpenBlock
  <1>5. /\ blk.id = Block.id /\ blk.uses = Block.uses
        /\ blk.labels = [Block.labels EXCEPT ![Current.name] = chunk.size]
    BY <1>3 DEF OpenBlock
  <1>6. \A name \in Names :
          blk.labels[name] = IF name = Current.name THEN chunk.size ELSE Block.labels[name]
    BY <1>4, <1>5
  <1>7. IsChunk(chunk)
    BY <1>2, OpenFacts
  <1>8. Goes(chnk)
    <2>1. Goes(Expanded) /\ IsChunk(Expanded)
      BY <1>7, ExpandedGoes, ExpandedFacts
    <2>2. \A x : LET c == [Expanded EXCEPT !.symbols = x]
                 IN /\ c.size = Expanded.size /\ c.relocs = Expanded.relocs
                    /\ c.constants = Expanded.constants /\ c.data = Expanded.data
      BY <2>1 DEF IsChunk
    <2>3. /\ chnk.size = Expanded.size /\ chnk.relocs = Expanded.relocs
          /\ chnk.constants = Expanded.constants /\ chnk.data = Expanded.data
      BY <2>2
    <2> HIDE DEF chnk
    <2> QED
      BY <2>1, <2>3 DEF Goes
  <1> HIDE DEF blk, chnk
  <1> QED
    BY <1>1, <1>5, <1>6, <1>8, CodedNoOp

--------------------------------------------------------------------------------
(* An instruction built *)

NewUse == [name |-> Current.name, idx |-> chunk.size + UseAt(Current.b)]

\* Its destination is what it wants, or the label is waited for.
LEMMA Settles ==
  ASSUME NEW bs, NEW n \in DOMAIN bs, NEW l, Labelling(l, bs), NEW e, NEW m, Grown(l, e, m),
         e.what = "op", e.item.b \in Labelled, e.item.name \in Names, e.block = bs[n].id,
         bs[n].labels[e.item.name] # NULL
  PROVE  bs[n].labels[e.item.name] \in Wanted(m, Last(l))
  <1> DEFINE dest == bs[n].labels[e.item.name]
  <1>1. Defines(l, bs[n].id, e.item.name, dest)
    <2>1. Labelled1(l, bs[n])
      BY LabellingIs
    <2> QED
      BY <2>1 DEF Labelled1
  <1>2. Defines(m, bs[n].id, e.item.name, dest)
    BY <1>1, LabelsAdded
  <1>3. PICK j \in DOMAIN m.placed : IsLabel(m, j, bs[n].id, e.item.name) /\ m.placed[j].at = dest
    BY <1>2 DEF Defines
  <1>4. m.placed[Last(l)] = e
    BY EntryAdded
  <1>5. j \in Meant(m, Last(l))
    BY <1>3, <1>4, MeantOf
  <1> HIDE DEF dest
  <1>6. dest \in Wanted(m, Last(l))
    BY <1>3, <1>4, <1>5 DEF Wanted
  <1> QED
    BY <1>6 DEF dest

LEMMA EncodedOp ==
  ASSUME NEW data, NEW f, NEW l, l.start = 0, NEW i, NEW p, l.placed[i] = p,
         p.at \in Nat, p.item \in Items, p.item.b \in Emitted,
         \A a \in Nat : p.at <= a /\ a < End(p) => a \in DOMAIN data,
         NEW dest \in Nat, NEW sub,
         p.item.b # "if" => f = Write(data, p.at, Fields(p.item, dest, sub)),
         NEW bs, NEW alive,
         dest \in Wanted(l, i) \/ (p.item.b \in Labelled /\ Awaited(bs, p))
  PROVE  Encoded(f, l, bs, alive, i)
  <1> SUFFICES ASSUME p.item.b # "if"
      PROVE  /\ Legible(f, l.start, l.placed[i])
             /\ Instr(p.item.b) \in DOMAIN DestAt =>
                  Aimed(f, l, i, 0) \/ (p.item.b \in Labelled /\ Awaited(bs, p))
    BY DEF Encoded
  <1>1. Legible(f, l.start, l.placed[i])
    BY LegibleWritten
  <1>2. ASSUME Instr(p.item.b) \in DOMAIN DestAt, dest \in Wanted(l, i)
        PROVE  Aimed(f, l, i, 0)
    <2>1. Part(f, 0, p, DestAt[Instr(p.item.b)], Wide(p.item.b), dest)
      BY <1>2, DestWritten
    <2>2. dest + 0 = dest
      OBVIOUS
    <2> QED
      BY <1>2, <2>1, <2>2 DEF Aimed
  <1> QED
    BY <1>1, <1>2

LEMMA UsingFacts ==
  ASSUME GenInv, pc = "process", NEW b, NEW name, NEW unknown \in BOOLEAN
  PROVE  LET blk == Using(b, name, unknown)
         IN /\ blk.id = Block.id /\ blk.labels = Block.labels
            /\ ~unknown => blk.uses = Block.uses
            /\ unknown => InFront([name |-> name, idx |-> chunk.size + UseAt(b)], Block.uses, blk.uses)
  <1>1. Block \in OpenBlock(chunk.capacity)
    BY BlockFacts
  <1>2. CASE unknown
    <2> DEFINE s == <<[name |-> name, idx |-> chunk.size + UseAt(b)]>> \o Block.uses
    <2>1. Using(b, name, unknown) = [Block EXCEPT !.uses = s]
      BY <1>2 DEF Using
    <2> HIDE DEF s
    <2>2. /\ Using(b, name, unknown).id = Block.id /\ Using(b, name, unknown).labels = Block.labels
          /\ Using(b, name, unknown).uses = s
      BY <1>1, <2>1 DEF OpenBlock
    <2>3. \E S : Block.uses \in Seq(S)
      BY <1>1 DEF OpenBlock
    <2> QED
      BY <1>2, <2>2, <2>3, Zenon DEF s, InFront
  <1>3. CASE ~unknown
    BY <1>1, <1>3 DEF Using, OpenBlock
  <1> QED
    BY <1>2, <1>3

\* The uses with that of the new instruction
LEMMA UsesOfOp ==
  ASSUME NEW bs, NEW n, NEW blk, NEW cs, Replaced(bs, n, blk, cs), NEW unknown \in BOOLEAN,
         NEW new, ~unknown => blk.uses = bs[n].uses, unknown => InFront(new, bs[n].uses, blk.uses)
  PROVE  /\ UsesKept(bs, cs)
         /\ \A id, use : UseIn(cs, id, use) => UseIn(bs, id, use) \/ (unknown /\ use = new /\ id = bs[n].id)
         /\ unknown => UseIn(cs, bs[n].id, new)
  <1>1. CASE ~unknown
    <2>1. \A id, use : UseIn(bs, id, use) <=> UseIn(cs, id, use)
      BY <1>1, UsesSame
    <2> QED
      BY <1>1, <2>1 DEF UsesKept
  <1>2. CASE unknown
    <2>1. /\ \A k \in DOMAIN bs[n].uses : \E j \in DOMAIN blk.uses : blk.uses[j] = bs[n].uses[k]
          /\ \A j \in DOMAIN blk.uses : blk.uses[j] = new \/ \E k \in DOMAIN bs[n].uses : blk.uses[j] = bs[n].uses[k]
          /\ \E j \in DOMAIN blk.uses : blk.uses[j] = new
      BY <1>2, UseAdded
    <2>2. ASSUME NEW id, NEW use, UseIn(cs, id, use), ~(use = new /\ id = bs[n].id)
          PROVE  UseIn(bs, id, use)
      <3>1. PICK k \in DOMAIN cs : cs[k].id = id /\ \E u \in DOMAIN cs[k].uses : cs[k].uses[u] = use
        BY <2>2, Zenon DEF UseIn
      <3>2. k \in DOMAIN bs /\ bs[k].id = id
        BY <3>1 DEF Replaced
      <3>3. \E u \in DOMAIN bs[k].uses : bs[k].uses[u] = use
        <4>1. CASE k = n
          <5>1. cs[k] = blk
            BY <4>1 DEF Replaced
          <5>2. PICK j \in DOMAIN blk.uses : blk.uses[j] = use
            BY <3>1, <5>1
          <5>3. use # new
            BY <2>2, <3>2, <4>1
          <5> QED
            BY <2>1, <4>1, <5>2, <5>3
        <4>2. CASE k # n
          <5>1. cs[k] = bs[k]
            BY <3>2, <4>2 DEF Replaced
          <5> QED
            BY <3>1, <5>1
        <4> QED
          BY <4>1, <4>2
      <3> QED
        BY <3>2, <3>3 DEF UseIn
    <2>3. n \in DOMAIN cs /\ cs[n] = blk /\ blk.id = bs[n].id
      BY DEF Replaced
    <2>4. UseIn(cs, bs[n].id, new)
      BY <2>1, <2>3 DEF UseIn
    <2>5. ASSUME NEW id, NEW use, UseIn(bs, id, use)
          PROVE  UseIn(cs, id, use)
      <3>1. PICK k \in DOMAIN bs : bs[k].id = id /\ \E u \in DOMAIN bs[k].uses : bs[k].uses[u] = use
        BY <2>5, Zenon DEF UseIn
      <3>2. k \in DOMAIN cs /\ cs[k].id = id
        BY <3>1 DEF Replaced
      <3>3. \E u \in DOMAIN cs[k].uses : cs[k].uses[u] = use
        <4>1. CASE k = n
          <5>1. PICK u \in DOMAIN bs[n].uses : bs[n].uses[u] = use
            BY <3>1, <4>1
          <5> QED
            BY <2>1, <2>3, <4>1, <5>1
        <4>2. CASE k # n
          <5>1. cs[k] = bs[k]
            BY <3>1, <4>2 DEF Replaced
          <5> QED
            BY <3>1, <5>1
        <4> QED
          BY <4>1, <4>2
      <3> QED
        BY <3>2, <3>3 DEF UseIn
    <2>6. UsesKept(bs, cs)
      BY <2>5 DEF UsesKept
    <2> QED
      BY <1>2, <2>2, <2>4, <2>6
  <1> QED
    BY <1>1, <1>2

LEMMA CodedOpItem ==
  ASSUME GenInv, Coded, OpItem
  PROVE  Coded'
  <1> DEFINE n == Len(blocks)
             e == Put("op")
             b == Current.b
             blk == Using(b, Current.name, Unsettled)
  <1>1. PICK fields \in SUBSET Field :
          /\ b # "if" => fields = Fields(Current, Destination, Len(chunk.constants))
          /\ Processed(Emit(b, Current.name, fields), blk, e)
    BY OpItemEffect
  <1>2. Processing(Emitted) /\ pc = "process"
    BY DEF OpItem, Processing
  <1>3. Unsettled \in BOOLEAN
    BY DEF Unsettled
  <1>4. /\ blk.id = Block.id /\ blk.labels = Block.labels
        /\ ~Unsettled => blk.uses = Block.uses
        /\ Unsettled => InFront(NewUse, Block.uses, blk.uses)
    BY <1>2, <1>3, UsingFacts DEF NewUse
  <1> DEFINE chnk == Emit(b, Current.name, fields)
  <1> HIDE DEF blk, chnk
  <1>5. /\ Grown(Now, e, Now') /\ Now'.start = 0
        /\ Replaced(blocks, n, blk, blocks') /\ Numbered(Now', blocks', next')
        /\ Alive = DOMAIN blocks /\ Alive' = DOMAIN blocks /\ chunk' = chnk /\ pc' = "process"
        /\ e.what = "op" /\ e.at = chunk.size /\ e.item = Current /\ e.block = blocks[n].id
        /\ Current \in Items /\ b \in Emitted
    BY <1>1, <1>2, <1>4, EntryPlaced DEF chnk
  <1> HIDE DEF e, n
  <1>6. /\ Shaped(Now, chunk.size) /\ Compact(Now, chunk.size)
        /\ Listed(Now, chunk.relocs) /\ Collected(Now, chunk.constants)
        /\ Numbered(Now, blocks, next) /\ Labelling(Now, blocks) /\ Pending(Now, blocks)
        /\ Written(chunk.data, Now, blocks, Alive)
    BY <1>2, CodedGives
  <1>7. /\ IsChunk(chunk) /\ chunk.size \in Nat /\ n \in DOMAIN blocks /\ Block = blocks[n]
        /\ \A k \in DOMAIN blocks : blocks[k].labels \in [Names -> Nat \cup {NULL}]
    BY <1>2, OpenFacts DEF n
  <1>8. /\ chunk'.data = Write(Expanded.data, chunk.size, fields)
        /\ chunk'.size = chunk.size + Length(b)
        /\ chunk'.relocs = IF Relocation(b) = 0 THEN chunk.relocs
                           ELSE Append(chunk.relocs, chunk.size + Relocation(b))
        /\ chunk'.constants = IF b \notin Constants THEN chunk.constants
                              ELSE Append(chunk.constants, [index |-> chunk.size + ConstantAt(b),
                                                            type |-> ConstantType(b), name |-> Current.name])
    BY <1>5, <1>7, EmitData DEF chnk
  <1>9. b \in Labelled => Current.name \in Names
    BY <1>5, ItemFacts DEF Named
  <1>10. Length(b) \in Nat /\ Length(b) <= 13
    BY <1>5, LayoutFacts
  <1>11. chunk'.size \in Nat /\ chunk'.size = End(e)
    BY <1>5, <1>7, <1>8, <1>10 DEF End
  <1> HIDE DEF b
  <1>12. Shaped(Now', chunk'.size) /\ Compact(Now', chunk'.size)
    BY <1>5, <1>6, <1>7, <1>11, ShapedAdded DEF b
  <1>13. Listed(Now', chunk'.relocs)
    <2>1. CASE Relocation(b) = 0
      BY <1>5, <1>6, <1>8, <2>1, ListedSame DEF b
    <2>2. CASE Relocation(b) # 0
      <3>1. chunk'.relocs = Append(chunk.relocs, e.at + Relocation(e.item.b))
        BY <1>5, <1>8, <2>2 DEF b
      <3>2. chunk.relocs \in Seq(Within(chunk.size, 8))
        BY <1>7 DEF IsChunk
      <3>3. Relocation(e.item.b) # 0
        BY <1>5, <2>2 DEF b
      <3> QED
        BY <1>5, <1>6, <1>11, <1>12, <3>1, <3>2, <3>3, ListedAdded
    <2> QED
      BY <2>1, <2>2
  <1>14. Collected(Now', chunk'.constants)
    <2>1. CASE b \notin Constants
      BY <1>5, <1>6, <1>8, <2>1, CollectedSame DEF b
    <2>2. CASE b \in Constants
      <3>1. PICK cnst : cnst = [index |-> chunk.size + ConstantAt(b), type |-> ConstantType(b), name |-> Current.name]
        OBVIOUS
      <3>2. chunk'.constants = Append(chunk.constants, cnst)
        BY <1>8, <2>2, <3>1
      <3>3. Asked(cnst, e)
        BY <1>5, <2>2, <3>1 DEF Asked, b
      <3>4. chunk.constants \in Seq(Constant(chunk.size))
        BY <1>7 DEF IsChunk
      <3> QED
        BY <1>5, <1>6, <1>11, <1>12, <3>2, <3>3, <3>4, CollectedAdded
    <2> QED
      BY <2>1, <2>2
  <1>15. Labelling(Now', blocks')
    <2>1. \A k \in DOMAIN blocks' : /\ k \in DOMAIN blocks /\ blocks'[k].id = blocks[k].id
                                    /\ blocks'[k].labels = blocks[k].labels
      BY <1>4, <1>5, <1>7 DEF Replaced
    <2>2. e.what # "label"
      BY <1>5
    <2> QED
      BY <1>5, <1>6, <2>1, <2>2, LabellingKept
  <1>16. /\ UsesKept(blocks, blocks')
         /\ \A id, use : UseIn(blocks', id, use) =>
              UseIn(blocks, id, use) \/ (Unsettled /\ use = NewUse /\ id = blocks[n].id)
         /\ Unsettled => UseIn(blocks', blocks[n].id, NewUse)
    <2>1. PICK new : new = NewUse
      OBVIOUS
    <2>2. /\ ~Unsettled => blk.uses = blocks[n].uses
          /\ Unsettled => InFront(new, blocks[n].uses, blk.uses)
      BY <1>4, <1>7, <2>1
    <2>3. PICK unknown \in BOOLEAN : unknown = Unsettled
      BY <1>3
    <2>4. /\ UsesKept(blocks, blocks')
          /\ \A id, use : UseIn(blocks', id, use) =>
               UseIn(blocks, id, use) \/ (unknown /\ use = new /\ id = blocks[n].id)
          /\ unknown => UseIn(blocks', blocks[n].id, new)
      BY <1>5, <2>2, <2>3, UsesOfOp
    <2> QED
      BY <2>1, <2>3, <2>4
  <1>17. Unsettled => b \in Labelled /\ UseOf(NewUse, e)
    BY <1>5 DEF Unsettled, NewUse, UseOf, b
  <1>18. Pending(Now', blocks')
    <2>1. ASSUME Unsettled PROVE Meant(Now', Last(Now)) = {}
      <3>1. Labelled1(Now, blocks[n])
        BY <1>6, <1>7, LabellingIs
      <3>2. Undefined(Now, blocks[n].id, Current.name)
        BY <1>7, <1>9, <1>17, <2>1, <3>1 DEF Labelled1, Unsettled
      <3>3. Undefined(Now, e.block, e.item.name) /\ e.what # "label"
        BY <1>5, <3>2
      <3> QED
        BY <1>5, <3>3, NoneMeant
    <2>2. \A id, use : UseIn(blocks', id, use) =>
            \/ UseIn(blocks, id, use)
            \/ e.what = "op" /\ e.block = id /\ UseOf(use, e) /\ Meant(Now', Last(Now)) = {}
      BY <1>5, <1>16, <1>17, <2>1
    <2> QED
      BY <1>5, <1>6, <2>2, PendingKept
  <1>19. Destination \in Nat
    <2>1. Current.n \in Nat
      BY <1>5, ItemFacts
    <2> QED
      BY <1>7, <1>9, <2>1 DEF Destination, Unsettled, b
  <1>20. Encoded(chunk'.data, Now', blocks', Alive', Last(Now))
    <2>1. Now'.placed[Last(Now)] = e
      BY <1>5, EntryAdded
    <2>2. \A a \in Nat : e.at <= a /\ a < End(e) => a \in DOMAIN Expanded.data
      <3>1. /\ Expanded.data \in [0 .. Expanded.capacity - 1 -> 0 .. 255] /\ Expanded.capacity \in Nat
            /\ chunk.size + 16 <= Expanded.capacity
        BY <1>7, ExpandedFacts DEF IsChunk
      <3>2. End(e) = chunk.size + Length(b)
        BY <1>8, <1>11
      <3> QED
        BY <1>7, <1>10, <3>1, <3>2
    <2>3. Destination \in Wanted(Now', Last(Now)) \/ (e.item.b \in Labelled /\ Awaited(blocks', e))
      <3>1. CASE Unsettled
        <4>1. UseIn(blocks', e.block, NewUse) /\ UseOf(NewUse, e)
          BY <1>5, <1>16, <1>17, <3>1
        <4>2. Awaited(blocks', e)
          BY <4>1, UsesAre
        <4> QED
          BY <1>5, <1>17, <3>1, <4>2 DEF b
      <3>2. CASE ~Unsettled /\ b \in Labelled
        <4>1. Destination = blocks[n].labels[e.item.name] /\ blocks[n].labels[e.item.name] # NULL
          BY <1>5, <1>7, <3>2 DEF Destination, Unsettled, b
        <4> QED
          BY <1>5, <1>6, <1>7, <1>9, <3>2, <4>1, Settles DEF b
      <3>3. CASE b \notin Labelled
        BY <1>5, <2>1, <3>3 DEF Wanted, Destination, b
      <3> QED
        BY <3>1, <3>2, <3>3
    <2>4. e.item.b # "if" => chunk'.data = Write(Expanded.data, e.at, Fields(e.item, Destination, Len(chunk.constants)))
      BY <1>1, <1>5, <1>8 DEF b
    <2>5. e.at \in Nat /\ e.item \in Items /\ e.item.b \in Emitted
      BY <1>5, <1>7 DEF b
    <2> QED
      BY <1>5, <1>19, <2>1, <2>2, <2>3, <2>4, <2>5, EncodedOp
  <1>21. SameBelow(chunk.data, chunk'.data, chunk.size)
    <2>1. \A f \in fields : f.at \in Nat /\ f.width \in Nat
      BY DEF Field
    <2>2. /\ Expanded.data \in [0 .. Expanded.capacity - 1 -> 0 .. 255] /\ Expanded.capacity \in Nat
          /\ chunk.size + 16 <= Expanded.capacity
      BY <1>7, ExpandedFacts DEF IsChunk
    <2>3. ASSUME NEW a \in Nat, a < chunk.size
          PROVE  chunk'.data[a] = chunk.data[a]
      <3>1. a \in DOMAIN Expanded.data
        BY <1>7, <2>2, <2>3
      <3>2. \A f \in fields : a < chunk.size + f.at \/ chunk.size + f.at + f.width <= a
        BY <1>7, <2>1, <2>3
      <3>3. Write(Expanded.data, chunk.size, fields)[a] = Expanded.data[a]
        BY <1>7, <2>1, <3>1, <3>2, WriteElsewhere
      <3> QED
        BY <1>7, <1>8, <2>3, <3>3, ExpandedData
    <2> QED
      BY <2>3 DEF SameBelow
  <1>22. Written(chunk'.data, Now', blocks', Alive')
    <2>1. \A k \in DOMAIN blocks : blocks'[k].id = blocks[k].id
      BY <1>5 DEF Replaced
    <2>2. StillAlive(blocks, Alive, blocks', Alive')
      BY <1>5, <2>1 DEF StillAlive
    <2>3. NamesAlive(e, blocks, Alive)
      BY <1>5 DEF NamesAlive
    <2> QED
      BY <1>5, <1>6, <1>7, <1>16, <1>20, <1>21, <2>2, <2>3, NowFacts, WrittenAdded
  <1> QED
    BY <1>5, <1>12, <1>13, <1>14, <1>15, <1>18, <1>22 DEF Coded, Making

--------------------------------------------------------------------------------
(* The generator's other steps *)

LEMMA NowSame ==
  ASSUME placed' = placed
  PROVE  Now' = Now
  BY DEF Now

\* What leaves the chunk's lists and what was placed alone, and no block renamed
LEMMA CodedSame ==
  ASSUME GenInv, Coded, pc \in {"process", "end"}, placed' = placed, next' \in Nat, next <= next',
         chunk'.size = chunk.size, chunk'.relocs = chunk.relocs, chunk'.constants = chunk.constants,
         \A k \in DOMAIN blocks' : /\ k \in DOMAIN blocks /\ blocks'[k].id = blocks[k].id
                                   /\ blocks'[k].labels = blocks[k].labels,
         \A id, use : UseIn(blocks', id, use) => UseIn(blocks, id, use),
         Written(chunk'.data, Now, blocks', Alive')
  PROVE  Coded'
  <1>1. /\ Shaped(Now, chunk.size) /\ Compact(Now, chunk.size)
        /\ Listed(Now, chunk.relocs) /\ Collected(Now, chunk.constants)
        /\ Numbered(Now, blocks, next) /\ Labelling(Now, blocks) /\ Pending(Now, blocks)
    BY CodedGives
  <1>2. next \in Nat /\ \A k \in DOMAIN blocks : blocks[k].id \in Nat
    BY OpenFacts
  <1>3. Numbered(Now, blocks', next')
    BY <1>1, <1>2, NumberedSame
  <1>4. Labelling(Now, blocks') /\ Pending(Now, blocks')
    BY <1>1, LabellingSame, PendingSame
  <1>5. Now' = Now
    BY NowSame
  <1>6. /\ Shaped(Now', chunk'.size) /\ Compact(Now', chunk'.size)
        /\ Listed(Now', chunk'.relocs) /\ Collected(Now', chunk'.constants)
        /\ Numbered(Now', blocks', next') /\ Labelling(Now', blocks') /\ Pending(Now', blocks')
        /\ Written(chunk'.data, Now', blocks', Alive')
    BY <1>1, <1>3, <1>4, <1>5
  <1> QED
    BY <1>6 DEF Coded

LEMMA CodedEndOfItems ==
  ASSUME GenInv, Coded, EndOfItems
  PROVE  Coded'
  <1>1. /\ pc = "process" /\ pc' = "end" /\ placed' = placed /\ chunk' = chunk /\ blocks' = blocks
        /\ next' = next \/ next' = next + 1
    BY DEF EndOfItems
  <1>2. next \in Nat /\ chunk.size \in Nat
    BY <1>1, OpenFacts
  <1>3. next' \in Nat /\ next <= next'
    BY <1>1, <1>2
  <1>4. Written(chunk.data, Now, blocks, Alive) /\ Shaped(Now, chunk.size)
    BY <1>1, CodedGives
  <1>5. AliveOrNew(Now, blocks, Alive, blocks, Alive')
    <2>1. Alive = DOMAIN blocks
      BY <1>1 DEF Alive
    <2>2. Alive' \subseteq DOMAIN blocks
      BY <1>1 DEF Alive
    <2> QED
      BY <2>1, <2>2 DEF AliveOrNew
  <1>6. SameBelow(chunk.data, chunk.data, chunk.size) /\ UsesKept(blocks, blocks)
    BY DEF SameBelow, UsesKept
  <1>7. Written(chunk.data, Now, blocks, Alive')
    BY <1>2, <1>4, <1>5, <1>6, NowFacts, WrittenSame
  <1>8. Written(chunk'.data, Now, blocks', Alive')
    BY <1>1, <1>7
  <1> QED
    BY <1>1, <1>3, <1>8, CodedSame

LEMMA CodedCloseBlock ==
  ASSUME GenInv, Coded, CloseBlock
  PROVE  Coded'
  <1>1. /\ pc = "end" /\ Block.uses = <<>> /\ chunk' = Closed(chunk, Block.entry)
        /\ blocks' = Pop(blocks) /\ pc' \in {"chunk", "process"} /\ placed' = placed /\ next' = next
    BY DEF CloseBlock
  <1>2. /\ next \in Nat /\ chunk.size \in Nat /\ IsChunk(chunk) /\ blocks # <<>>
        /\ blocks \in Seq(OpenBlock(chunk.capacity)) /\ Block = blocks[Len(blocks)]
    BY <1>1, OpenFacts
  <1>3. /\ chunk'.size = chunk.size /\ chunk'.relocs = chunk.relocs /\ chunk'.constants = chunk.constants
        /\ chunk'.data = chunk.data
    BY <1>1, <1>2, ClosedData
  <1>4. /\ \A k \in DOMAIN blocks' : k \in DOMAIN blocks /\ blocks'[k] = blocks[k] /\ k # Len(blocks)
        /\ \A k \in DOMAIN blocks : k # Len(blocks) => k \in DOMAIN blocks'
    <2>1. \A k \in DOMAIN blocks : k \in Nat /\ k <= Len(blocks)
      BY <1>1, OpenFacts
    <2>2. Len(blocks) \in Nat
      BY <1>2
    <2> QED
      BY <1>1, <1>2, <2>1, <2>2, PoppedElements
  <1>5. Written(chunk.data, Now, blocks, Alive) /\ Shaped(Now, chunk.size)
    BY <1>1, CodedGives
  <1>6. AliveOrNew(Now, blocks, Alive, blocks', Alive')
    <2>1. \A k \in DOMAIN blocks' : k \in Alive /\ blocks[k].id = blocks'[k].id
      BY <1>1, <1>4 DEF Alive
    <2>2. Alive' \subseteq DOMAIN blocks'
      BY DEF Alive
    <2> QED
      BY <2>1, <2>2 DEF AliveOrNew
  <1>7. \A id, use : UseIn(blocks, id, use) <=> UseIn(blocks', id, use)
    <2>1. DOMAIN blocks[Len(blocks)].uses = {}
      BY <1>1, <1>2
    <2> QED
      BY <1>4, <2>1 DEF UseIn
  <1>8. SameBelow(chunk.data, chunk.data, chunk.size) /\ UsesKept(blocks, blocks')
    BY <1>7 DEF SameBelow, UsesKept
  <1>9. Written(chunk.data, Now, blocks', Alive')
    BY <1>2, <1>5, <1>6, <1>8, NowFacts, WrittenSame
  <1>10. Written(chunk'.data, Now, blocks', Alive')
    BY <1>3, <1>9
  <1>11. next' \in Nat /\ next <= next'
    BY <1>1, <1>2
  <1> QED
    BY <1>1, <1>3, <1>4, <1>7, <1>10, <1>11, CodedSame

LEMMA CodedPatchLabel ==
  ASSUME GenInv, Coded, PatchLabel
  PROVE  Coded'
  <1> DEFINE n == Len(blocks)
             use == Head(blocks[n].uses)
             dest == blocks[n].labels[use.name]
             blk == [Block EXCEPT !.uses = Tail(@)]
             data1 == Write(chunk.data, use.idx, {[at |-> 0, width |-> 8, val |-> dest]})
  <1>1. pc = "end" /\ Block.uses # <<>> /\ placed' = placed /\ pc' = pc /\ next' = next
    BY DEF PatchLabel
  <1>2. /\ next \in Nat /\ chunk.size \in Nat /\ IsChunk(chunk) /\ blocks # <<>> /\ n \in DOMAIN blocks
        /\ blocks \in Seq(OpenBlock(chunk.capacity)) /\ Block = blocks[n]
        /\ blocks[n].labels \in [Names -> Nat \cup {NULL}]
        /\ blocks[n].uses \in Seq(Uses(chunk.capacity))
    BY <1>1, OpenFacts
  <1>3. /\ chunk' = IF dest = NULL THEN chunk ELSE [chunk EXCEPT !.data = data1]
        /\ blocks' = [blocks EXCEPT ![n].uses = Tail(@)]
    BY <1>2 DEF PatchLabel
  <1>4. use \in Uses(chunk.capacity) /\ use.name \in Names /\ use.idx \in Nat
    <2>1. use \in Uses(chunk.capacity)
      BY <1>1, <1>2, HeadTail
    <2> QED
      BY <2>1 DEF Uses, Within
  <1>5. blk.id = Block.id /\ blk.labels = Block.labels /\ blk.uses = Tail(blocks[n].uses)
    <2>1. Block \in OpenBlock(chunk.capacity)
      BY <1>1, BlockFacts
    <2> QED
      BY <1>2, <2>1 DEF OpenBlock
  <1>6. Replaced(blocks, n, blk, blocks')
    <2>1. blocks' = [blocks EXCEPT ![n] = blk]
      BY <1>2, <1>3
    <2> HIDE DEF blk
    <2> QED
      BY <1>2, <1>5, <2>1, TopReplaced DEF Replaced
  <1>7. /\ chunk'.size = chunk.size /\ chunk'.relocs = chunk.relocs /\ chunk'.constants = chunk.constants
        /\ IF dest = NULL THEN chunk'.data = chunk.data ELSE chunk'.data = data1
    <2> HIDE DEF dest, data1
    <2> QED
      BY <1>2, <1>3 DEF IsChunk
  <1> HIDE DEF n, use, dest, blk, data1
  <1>8. /\ AllBut(blk.uses, use, blocks[n].uses) /\ AllBut(blocks[n].uses, use, blk.uses)
        /\ \E k \in DOMAIN blocks[n].uses : blocks[n].uses[k] = use
    <2>1. PICK t \in Seq(Uses(chunk.capacity)) : t = blocks[n].uses
      BY <1>2
    <2>2. use = Head(t) /\ blk.uses = Tail(t) /\ t # <<>>
      BY <1>1, <1>2, <1>5, <2>1 DEF use
    <2>3. AllBut(blk.uses, use, t) /\ AllBut(t, use, blk.uses) /\ \E k \in DOMAIN t : t[k] = use
      BY <2>2, UseTaken
    <2> QED
      BY <2>1, <2>3
  <1>9. UseIn(blocks, blocks[n].id, use)
    BY <1>2, <1>8 DEF UseIn
  <1>10. /\ \A id, u : UseIn(blocks, id, u) => UseIn(blocks', id, u) \/ u = use
         /\ \A id, u : UseIn(blocks', id, u) => UseIn(blocks, id, u)
    <2>2. /\ \A id, u : UseIn(blocks, id, u) => UseIn(blocks', id, u) \/ u = use
          /\ \A id, u : UseIn(blocks', id, u) => UseIn(blocks, id, u) \/ (u = use /\ id = blocks[n].id)
      BY <1>6, <1>8, UsesReplaced
    <2> QED
      BY <1>9, <2>2
  <1>11. /\ Written(chunk.data, Now, blocks, Alive) /\ Shaped(Now, chunk.size)
         /\ Numbered(Now, blocks, next) /\ Labelling(Now, blocks) /\ Pending(Now, blocks)
    BY <1>1, CodedGives
  <1>12. \A k \in DOMAIN blocks' : /\ k \in DOMAIN blocks /\ blocks'[k].id = blocks[k].id
                                   /\ blocks'[k].labels = blocks[k].labels
    BY <1>2, <1>5, <1>6 DEF Replaced
  <1>13. Alive' = Alive /\ Alive \subseteq DOMAIN blocks \ {n} /\ SameIds(blocks, Alive, blocks')
    <2>1. DOMAIN blocks' = DOMAIN blocks
      BY <1>6 DEF Replaced
    <2>2. Len(blocks') = Len(blocks)
      BY <1>2, <1>3
    <2> QED
      BY <1>1, <1>12, <2>1, <2>2 DEF Alive, SameIds, n
  <1>14. Patched(chunk.data, chunk'.data, use.idx, dest, chunk.size)
    <2>1. CASE dest = NULL
      BY <1>7, <2>1 DEF Patched
    <2>2. CASE dest # NULL
      <3>1. /\ DOMAIN data1 = DOMAIN chunk.data
            /\ \A k \in Nat : k < 8 /\ use.idx + k \in DOMAIN chunk.data => data1[use.idx + k] = Byte(dest, k)
            /\ \A a \in Nat : a \in DOMAIN chunk.data /\ (a < use.idx \/ use.idx + 8 <= a) => data1[a] = chunk.data[a]
        <4>1. data1 = WriteAt(chunk.data, use.idx, 8, dest)
          BY DEF data1, WriteAt
        <4> QED
          BY <1>4, <4>1, WriteOne
      <3>2. \A a \in Nat : a < chunk.size => a \in DOMAIN chunk.data
        BY <1>2 DEF IsChunk
      <3>3. Spared(chunk.data, data1, use.idx, 8, chunk.size)
        BY <3>1, <3>2 DEF Spared
      <3>4. \A k \in Nat : k < 8 /\ use.idx + k < chunk.size => data1[use.idx + k] = Byte(dest, k)
        BY <1>4, <3>1, <3>2
      <3>5. chunk'.data = data1
        BY <1>7, <2>2
      <3> QED
        BY <2>2, <3>3, <3>4, <3>5 DEF Patched
    <2> QED
      BY <2>1, <2>2
  <1>15. Written(chunk'.data, Now, blocks', Alive)
    <2>1. UsesBut(blocks, use, blocks')
      BY <1>10 DEF UsesBut
    <2>2. Patched(chunk.data, chunk'.data, use.idx, blocks[n].labels[use.name], chunk.size)
      BY <1>14 DEF dest
    <2> QED
      BY <1>2, <1>4, <1>9, <1>11, <1>13, <2>1, <2>2, NowFacts, WrittenPatched
  <1>16. Written(chunk'.data, Now, blocks', Alive')
    BY <1>13, <1>15
  <1>17. next' \in Nat /\ next <= next'
    BY <1>1, <1>2
  <1> QED
    BY <1>1, <1>7, <1>10, <1>12, <1>16, <1>17, CodedSame

LEMMA CodedBlockItem ==
  ASSUME GenInv, Coded, BlockItem
  PROVE  Coded'
  <1> DEFINE n == Len(blocks) + 1
             blk == NewBlock(next + 1)
  <1>1. /\ pc = "process" /\ pc' = "process" /\ next' = next + 1 /\ chunk' = Expanded
        /\ blocks' = Append(blocks, blk) /\ placed' = placed
    BY DEF BlockItem, Processing
  <1>2. /\ IsChunk(chunk) /\ next \in Nat /\ chunk.size \in Nat
        /\ blocks \in Seq(OpenBlock(chunk.capacity)) /\ \A k \in DOMAIN blocks : blocks[k].id \in Nat
    BY <1>1, OpenFacts
  <1>3. blk.id = next + 1 /\ blk.uses = <<>> /\ \A name \in Names : blk.labels[name] = NULL
    BY DEF NewBlock
  <1> HIDE DEF blk
  <1>4. Pushed(blocks, n, blk, blocks')
    BY <1>1, <1>2, AppendElements DEF Pushed
  <1> HIDE DEF n
  <1>5. /\ Shaped(Now, chunk.size) /\ Compact(Now, chunk.size)
        /\ Listed(Now, chunk.relocs) /\ Collected(Now, chunk.constants)
        /\ Numbered(Now, blocks, next) /\ Labelling(Now, blocks) /\ Pending(Now, blocks)
        /\ Written(chunk.data, Now, blocks, Alive)
    BY <1>1, CodedGives
  <1>6. Goes(chunk')
    BY <1>1, <1>2, ExpandedGoes
  <1>7. Numbered(Now, blocks', next + 1)
    BY <1>2, <1>3, <1>4, <1>5, NumberedPushed
  <1>8. Labelling(Now, blocks')
    BY <1>2, <1>3, <1>4, <1>5, LabellingPushed
  <1>9. \A id, use : UseIn(blocks, id, use) <=> UseIn(blocks', id, use)
    <2>1. DOMAIN blocks'[n].uses = {}
      BY <1>3, <1>4 DEF Pushed
    <2> QED
      BY <1>4, <2>1 DEF Pushed, UseIn
  <1>10. Pending(Now, blocks')
    BY <1>5, <1>9, PendingSame
  <1>11. AliveOrNew(Now, blocks, Alive, blocks', Alive')
    <2>1. Alive = DOMAIN blocks /\ Alive' \subseteq DOMAIN blocks'
      BY <1>1 DEF Alive
    <2>2. \A i \in DOMAIN Now.placed : Now.placed[i].block # next + 1
      BY <1>2, <1>5 DEF Numbered
    <2> QED
      BY <1>3, <1>4, <2>1, <2>2 DEF AliveOrNew, Pushed
  <1>12. UsesKept(blocks, blocks')
    BY <1>9 DEF UsesKept
  <1>13. Written(chunk'.data, Now, blocks', Alive')
    BY <1>2, <1>5, <1>6, <1>11, <1>12, NowFacts, WrittenSame DEF Goes
  <1>14. Now' = Now
    BY <1>1, NowSame
  <1>15. /\ Shaped(Now', chunk'.size) /\ Compact(Now', chunk'.size)
         /\ Listed(Now', chunk'.relocs) /\ Collected(Now', chunk'.constants)
         /\ Numbered(Now', blocks', next') /\ Labelling(Now', blocks') /\ Pending(Now', blocks')
         /\ Written(chunk'.data, Now', blocks', Alive')
    BY <1>1, <1>5, <1>6, <1>7, <1>8, <1>10, <1>13, <1>14 DEF Goes
  <1> QED
    BY <1>15 DEF Coded

\* Nothing is placed in a new chunk.
LEMMA CodedGenChunk ==
  ASSUME GenChunk
  PROVE  Coded'
  <1>1. placed' = <<>> /\ chunk' = NewChunk /\ blocks' = <<NewBlock(0)>> /\ next' = 0
    BY DEF GenChunk
  <1>2. chunk'.size = 0 /\ chunk'.relocs = <<>> /\ chunk'.constants = <<>>
    BY <1>1 DEF NewChunk
  <1>3. /\ DOMAIN blocks' = {1} /\ blocks'[1].id = 0 /\ blocks'[1].uses = <<>>
        /\ \A name \in Names : blocks'[1].labels[name] = NULL
    <2>1. DOMAIN blocks' = {1} /\ blocks'[1] = NewBlock(0)
      BY <1>1
    <2> QED
      BY <2>1 DEF NewBlock
  <1>4. Now'.placed = <<>>
    BY <1>1 DEF Now
  <1>5. PICK l : l = Now'
    OBVIOUS
  <1>6. l.placed = <<>> /\ DOMAIN l.placed = {}
    BY <1>4, <1>5
  <1>7. Ops(l) = {}
    BY <1>6 DEF Ops
  <1>8. Shaped(l, 0) /\ Compact(l, 0)
    <2>1. <<>> \in Seq({})
      OBVIOUS
    <2>2. \E S : l.placed \in Seq(S)
      BY <1>6, <2>1
    <2> QED
      BY <1>6, <1>7, <2>2 DEF Shaped, Compact
  <1>9. Listed(l, <<>>) /\ Collected(l, <<>>)
    BY <1>7 DEF Listed, Collected
  <1>10. Numbered(l, blocks', 0)
    BY <1>3, <1>6 DEF Numbered
  <1>11. Labelling(l, blocks')
    BY <1>3, <1>6 DEF Labelling
  <1>12. Pending(l, blocks')
    BY <1>3 DEF Pending
  <1>13. Written(chunk'.data, l, blocks', Alive')
    BY <1>7 DEF Written
  <1> QED
    BY <1>1, <1>2, <1>5, <1>8, <1>9, <1>10, <1>11, <1>12, <1>13 DEF Coded

LEMMA CodedGenerate ==
  ASSUME GenInv, Coded, Generate
  PROVE  Coded'
  <1>1. ASSUME pc' \in {"build", "exited", "idle"}
        PROVE  Coded'
    BY <1>1 DEF Coded, Making
  <1>2. ASSUME PushBlock \/ LeaveBlock \/ SetDebugLine \/ SetDebugEntry \/ PushOp
        PROVE  pc' = "build"
    <2>1. \A item, marks : PushItem(item, marks) => pc' = pc
      BY DEF PushItem
    <2>2. \A kinds : Building(kinds) => pc = "build"
      BY DEF Building
    <2>3. pc' = pc /\ pc = "build"
      BY <1>2, <2>1, <2>2, Zenon DEF PushBlock, LeaveBlock, SetDebugLine, SetDebugEntry, PushOp
    <2> QED
      BY <2>3
  <1>3. ASSUME SetDebugFlags PROVE pc' \in {"build", "exited"}
    BY <1>3 DEF SetDebugFlags, Building
  <1>4. ASSUME UnknownItem PROVE pc' = "exited"
    BY <1>4 DEF UnknownItem
  <1> QED
    BY <1>1, <1>2, <1>3, <1>4, CodedGenChunk, CodedDebugItem, CodedLabelItem, CodedBlockItem,
       CodedOpItem, CodedEndOfItems, CodedPatchLabel, CodedCloseBlock DEF Generate

--------------------------------------------------------------------------------
(* The chunks in the program *)

\* An array that grows keeps its elements.
Keeps(s, t) == \A i \in DOMAIN s : i \in DOMAIN t /\ t[i] = s[i]

LEMMA ReadsCopied ==
  ASSUME NEW d, NEW e, NEW l, l.start \in Nat, NEW size \in Nat, Shaped(l, size), NEW i \in Ops(l),
         Copied(d, l.start, e, l.start, l.placed[i]), NEW by, Reads(d, l, i, by)
  PROVE  Reads(e, l, i, by)
  <1> SUFFICES ASSUME l.placed[i].item.b # "if"
      PROVE  /\ Legible(e, l.start, l.placed[i])
             /\ Instr(l.placed[i].item.b) \in DOMAIN DestAt =>
                  Aimed(e, l, i, by) \/ (l.placed[i].item.b \in Labelled /\ Meant(l, i) = {})
    BY DEF Reads
  <1>1. /\ Legible(d, l.start, l.placed[i])
        /\ Instr(l.placed[i].item.b) \in DOMAIN DestAt =>
             Aimed(d, l, i, by) \/ (l.placed[i].item.b \in Labelled /\ Meant(l, i) = {})
    BY DEF Reads
  <1>2. l.placed[i].at \in Nat /\ l.placed[i].item.b \in Emitted
    BY ShapedGives
  <1>3. Legible(e, l.start, l.placed[i])
    BY <1>1, <1>2, LegibleCopied
  <1>4. ASSUME Instr(l.placed[i].item.b) \in DOMAIN DestAt, Aimed(d, l, i, by)
        PROVE  Aimed(e, l, i, by)
    <2>1. Wanted(l, i) \subseteq Wanted(l, i)
      OBVIOUS
    <2> QED
      BY <1>2, <1>4, <2>1, AimedCopied
  <1> QED
    BY <1>1, <1>3, <1>4

\* The constant the instruction reads from the pool
IsGiven(pl, st, p, id) ==
  IF p.item.b = "set_string" THEN pl[id] = [type |-> "string", v |-> p.item.name]
  ELSE pl[id].type = "symbol" /\ pl[id].v \in DOMAIN st /\ st[pl[id].v] = p.item.name
LEMMA GivenIs ==
  ASSUME NEW d, NEW pl, NEW st, NEW l, NEW i
  PROVE  Given(d, pl, st, l, i) <=>
           \E id \in DOMAIN pl :
             /\ Part(d, l.start, l.placed[i], ConstantAt(l.placed[i].item.b), 4, id - 1)
             /\ IsGiven(pl, st, l.placed[i], id)
  BY DEF Given, IsGiven

LEMMA IsGivenKept ==
  ASSUME NEW pl, NEW st, NEW ql, NEW tt, Keeps(pl, ql), Keeps(st, tt), NEW p, NEW id \in DOMAIN pl,
         IsGiven(pl, st, p, id)
  PROVE  id \in DOMAIN ql /\ IsGiven(ql, tt, p, id)
  BY DEF IsGiven, Keeps

LEMMA GivenCopied ==
  ASSUME NEW d, NEW e, NEW l, l.start \in Nat, NEW size \in Nat, Shaped(l, size), NEW i \in Ops(l),
         l.placed[i].item.b \in Constants, Copied(d, l.start, e, l.start, l.placed[i]),
         NEW pl, NEW st, NEW ql, NEW tt, Keeps(pl, ql), Keeps(st, tt), Given(d, pl, st, l, i)
  PROVE  Given(e, ql, tt, l, i)
  <1>1. l.placed[i].at \in Nat /\ l.placed[i].item.b \in Emitted
    BY ShapedGives
  <1>2. PICK id \in DOMAIN pl :
           /\ Part(d, l.start, l.placed[i], ConstantAt(l.placed[i].item.b), 4, id - 1)
           /\ IsGiven(pl, st, l.placed[i], id)
    BY GivenIs
  <1>3. id \in DOMAIN ql /\ IsGiven(ql, tt, l.placed[i], id)
    BY <1>2, IsGivenKept
  <1>4. l.placed[i].item.b # "if"
    BY DEF Constants
  <1>5. ConstantAt(l.placed[i].item.b) \in Nat /\ ConstantAt(l.placed[i].item.b) + 4 <= Length(l.placed[i].item.b)
    BY <1>1, <1>4, Offsets
  <1>6. PICK v : v = id - 1
    OBVIOUS
  <1>7. Part(e, l.start, l.placed[i], ConstantAt(l.placed[i].item.b), 4, v)
    <2>1. Part(d, l.start, l.placed[i], ConstantAt(l.placed[i].item.b), 4, v)
      BY <1>2, <1>6
    <2>2. 4 \in Nat
      OBVIOUS
    <2> QED
      BY <1>1, <1>5, <2>1, <2>2, PartCopied
  <1> QED
    BY <1>3, <1>6, <1>7, GivenIs

\* What is asked for of a constant is a constant's.
LEMMA LinkedGives ==
  ASSUME NEW l, NEW i, NEW constants, NEW n, Linked(l, i, constants, n)
  PROVE  l.placed[i].item.b \in Constants
  BY DEF Linked, Asked

LEMMA CopiedBelow ==
  ASSUME NEW d, NEW e, NEW l, l.start \in Nat, NEW size \in Nat, Shaped(l, size), NEW bound \in Nat,
         l.start + size <= bound, SameBelow(d, e, bound), NEW i \in Ops(l)
  PROVE  Copied(d, l.start, e, l.start, l.placed[i])
  <1>1. l.placed[i].at \in Nat /\ End(l.placed[i]) \in Nat /\ End(l.placed[i]) <= size
    BY ShapedGives
  <1>2. PICK from \in Nat : from = l.start
    OBVIOUS
  <1>3. PICK end \in Nat : end = End(l.placed[i])
    BY <1>1
  <1>4. \A a \in Nat : a < end => from + a \in Nat /\ from + a < bound
    BY <1>1, <1>2, <1>3
  <1> QED
    BY <1>2, <1>3, <1>4 DEF Copied, SameBelow

\* A chunk loaded before stays as it is.
LEMMA ArrivedKept ==
  ASSUME NEW d, NEW e, NEW l, l.start \in Nat, NEW size \in Nat, Shaped(l, size), NEW bound \in Nat,
         l.start + size <= bound, SameBelow(d, e, bound),
         NEW pl, NEW st, NEW ql, NEW tt, Keeps(pl, ql), Keeps(st, tt), Arrived(d, pl, st, l)
  PROVE  Arrived(e, ql, tt, l)
  <1> SUFFICES ASSUME ~ForwardCall(l), NEW i \in Ops(l)
      PROVE  /\ Reads(e, l, i, IF Relocation(l.placed[i].item.b) # 0 THEN l.start ELSE 0)
             /\ l.placed[i].item.b \in Constants \ {"set_integer"} => Given(e, ql, tt, l, i)
    BY DEF Arrived
  <1>1. /\ Reads(d, l, i, IF Relocation(l.placed[i].item.b) # 0 THEN l.start ELSE 0)
        /\ l.placed[i].item.b \in Constants \ {"set_integer"} => Given(d, pl, st, l, i)
    BY DEF Arrived
  <1>2. Copied(d, l.start, e, l.start, l.placed[i])
    BY CopiedBelow
  <1>3. PICK by : by = IF Relocation(l.placed[i].item.b) # 0 THEN l.start ELSE 0
    OBVIOUS
  <1>4. Reads(d, l, i, by)
    BY <1>1, <1>3
  <1>5. Reads(e, l, i, by)
    BY <1>2, <1>4, ReadsCopied
  <1>6. ASSUME l.placed[i].item.b \in Constants \ {"set_integer"} PROVE Given(e, ql, tt, l, i)
    BY <1>1, <1>2, <1>6, GivenCopied
  <1> QED
    BY <1>3, <1>5, <1>6

LEMMA PastKept ==
  ASSUME Past, Apart, loaded' = loaded, NEW bound \in Nat,
         \/ pc = "loading" /\ pc' = "loading" /\ bound = start
         \/ pc # "loading" /\ pc' # "loading" /\ bound = program_size,
         SameBelow(program, program', bound), Keeps(pool, pool'), Keeps(store, store')
  PROVE  Past'
  <1> SUFFICES ASSUME NEW m \in DOMAIN loaded, ~(pc' = "loading" /\ m = Len(loaded))
      PROVE  Arrived(program', pool', store', loaded[m])
    BY DEF Past
  <1>1. ~(pc = "loading" /\ m = Len(loaded))
    OBVIOUS
  <1>2. Arrived(program, pool, store, loaded[m])
    BY <1>1 DEF Past
  <1>3. PICK size \in Nat : /\ Shaped(loaded[m], size)
           /\ loaded[m].start + size <= (IF pc = "loading" /\ m # Len(loaded) THEN start ELSE program_size)
    BY DEF Apart
  <1>4. loaded[m].start \in Nat /\ loaded[m].start + size <= bound
    BY <1>1, <1>3 DEF Apart
  <1> QED
    BY <1>2, <1>3, <1>4, ArrivedKept

--------------------------------------------------------------------------------
(* Steps that leave the program as it is *)

LEMMA DecodingInitially ==
  ASSUME Init
  PROVE  Decoding
  <1>1. pc = "build" /\ loaded = <<>>
    BY DEF Init, GenInit
  <1>2. Coded
    BY <1>1 DEF Coded, Making
  <1>3. Coming
    BY <1>1 DEF Coming
  <1>4. Past /\ Apart
    BY <1>1 DEF Past, Apart
  <1> QED
    BY <1>2, <1>3, <1>4 DEF Decoding

LEMMA CodedLoading ==
  ASSUME Coded, UNCHANGED <<chunk, placed, blocks, next>>,
         pc \in {"chunk", "loading"}, pc' \in {"chunk", "loading"}
  PROVE  Coded'
  <1>1. Now' = Now
    BY NowSame
  <1>2. Alive' = Alive
    BY DEF Alive
  <1>3. /\ Shaped(Now, chunk.size) /\ Compact(Now, chunk.size)
        /\ Listed(Now, chunk.relocs) /\ Collected(Now, chunk.constants)
        /\ Numbered(Now, blocks, next) /\ Labelling(Now, blocks) /\ Pending(Now, blocks)
        /\ Written(chunk.data, Now, blocks, Alive)
    BY DEF Coded, Making
  <1> QED
    BY <1>1, <1>2, <1>3 DEF Coded

LEMMA CodedDone ==
  ASSUME pc' \in {"idle", "build"}
  PROVE  Coded'
  BY DEF Coded, Making

\* What is known of a chunk that is ready to be loaded, or is being loaded
LEMMA CodedReady ==
  ASSUME GenInv, Coded, Located, pc \in {"chunk", "loading"}
  PROVE  /\ Shaped(Now, chunk.size) /\ Listed(Now, chunk.relocs) /\ Collected(Now, chunk.constants)
         /\ Written(chunk.data, Now, <<>>, {}) /\ chunk.size \in Nat /\ IsChunk(chunk)
  <1>1. blocks = <<>>
    BY DEF Located
  <1>2. Alive = {}
    BY <1>1 DEF Alive
  <1>3. chunk.size \in Nat /\ IsChunk(chunk)
    BY DEF GenInv, IsChunk
  <1> QED
    BY <1>1, <1>2, <1>3 DEF Coded, Making

LEMMA ApartKept ==
  ASSUME LInv, Apart, UNCHANGED <<loaded, start, program_size>>,
         pc' = "loading" => pc = "loading"
  PROVE  Apart'
  <1> SUFFICES ASSUME NEW m \in DOMAIN loaded
      PROVE  /\ loaded[m].start \in Nat
             /\ \E size \in Nat : /\ Shaped(loaded[m], size)
                  /\ loaded[m].start + size <= (IF pc' = "loading" /\ m # Len(loaded) THEN start ELSE program_size)
    BY DEF Apart
  <1>1. loaded[m].start \in Nat
    BY DEF Apart
  <1>2. PICK size \in Nat : /\ Shaped(loaded[m], size)
           /\ loaded[m].start + size <= (IF pc = "loading" /\ m # Len(loaded) THEN start ELSE program_size)
    BY DEF Apart
  <1>3. program_size \in Nat /\ start \in Nat /\ (pc = "loading" => start <= program_size)
    <2>1. chunk.size \in Nat
      BY DEF LInv, GenInv, IsChunk
    <2> QED
      BY <2>1 DEF LInv, Programmed
  <1> QED
    BY <1>1, <1>2, <1>3

LEMMA NothingLost ==
  /\ \A s : Keeps(s, s)
  /\ \A d, n : SameBelow(d, d, n)
  BY DEF Keeps, SameBelow

LEMMA DecodingGenerate ==
  ASSUME LInv, Decoding, Generate, UNCHANGED vmVars
  PROVE  Decoding'
  <1>1. pc # "loading" /\ pc' # "loading"
    BY GenerateOwnChunk
  <1>2. UNCHANGED <<loaded, start, program_size, program, pool, store>> /\ program_size \in Nat
    BY DEF vmVars, LInv, Programmed
  <1>3. Coded'
    BY CodedGenerate DEF Decoding, LInv
  <1>4. Coming'
    BY <1>1 DEF Coming
  <1>5. Past'
    BY <1>1, <1>2, NothingLost, PastKept DEF Decoding
  <1>6. Apart'
    BY <1>1, <1>2, ApartKept DEF Decoding
  <1> QED
    BY <1>3, <1>4, <1>5, <1>6 DEF Decoding

LEMMA DecodingExpand ==
  ASSUME LInv, Decoding, ExpandProgram
  PROVE  Decoding'
  <1>1. /\ pc = "chunk" /\ pc' = "chunk" /\ program_size \in Nat
        /\ UNCHANGED <<chunk, placed, blocks, next>>
        /\ UNCHANGED <<loaded, start, program_size, pool, store>>
    BY DEF ExpandProgram, genVars, LInv, Programmed
  <1>2. SameBelow(program, program', program_size)
    <2>1. /\ program' = [a \in 0 .. program_capacity * 2 - 1 |->
                           IF a < program_capacity THEN program[a] ELSE 0]
          /\ program_capacity \in Nat /\ program_size <= program_capacity
      BY DEF ExpandProgram, LInv, Programmed
    <2> QED
      BY <1>1, <2>1 DEF SameBelow
  <1>3. Coded'
    BY <1>1, CodedLoading DEF Decoding
  <1>4. Coming'
    BY <1>1 DEF Coming
  <1>5. Past'
    BY <1>1, <1>2, NothingLost, PastKept DEF Decoding
  <1>6. Apart'
    BY <1>1, ApartKept DEF Decoding
  <1> QED
    BY <1>3, <1>4, <1>5, <1>6 DEF Decoding

\* The program and the chunk that is being loaded are not touched, nor the number of
\* its constants and relocations applied.
LEMMA DecodingStill ==
  ASSUME LInv, Decoding, UNCHANGED <<chunk, placed, blocks, next>>,
         UNCHANGED <<loaded, start, program_size, program, pool>>, Keeps(store, store'),
         pc = "loading", pc' = "loading", RelocsDone' = RelocsDone, ConstantsDone' = ConstantsDone
  PROVE  Decoding'
  <1>0. chunk.size \in Nat /\ start \in Nat
    BY DEF LInv, GenInv, IsChunk, Programmed
  <1>1. Coded'
    BY CodedLoading DEF Decoding
  <1>2. Past'
    BY <1>0, NothingLost, PastKept DEF Decoding
  <1>3. Apart'
    BY ApartKept DEF Decoding
  <1>4. Coming'
    <2> DEFINE l == loaded[Len(loaded)]
    <2>1. Brought(program, pool, store, l, chunk.relocs, RelocsDone, chunk.constants, ConstantsDone)
      BY DEF Decoding, Coming
    <2>2. Brought(program, pool, store', l, chunk.relocs, RelocsDone, chunk.constants, ConstantsDone)
      <3> HIDE DEF l
      <3> SUFFICES ASSUME ~ForwardCall(l), NEW i \in Ops(l)
          PROVE  /\ Reads(program, l, i, IF Moved(l, i, chunk.relocs, RelocsDone) THEN l.start ELSE 0)
                 /\ (l.placed[i].item.b # "set_integer" /\ Linked(l, i, chunk.constants, ConstantsDone))
                      => Given(program, pool, store', l, i)
        BY DEF Brought
      <3>1. /\ Reads(program, l, i, IF Moved(l, i, chunk.relocs, RelocsDone) THEN l.start ELSE 0)
            /\ (l.placed[i].item.b # "set_integer" /\ Linked(l, i, chunk.constants, ConstantsDone))
                 => Given(program, pool, store, l, i)
        BY <2>1 DEF Brought
      <3>2. Given(program, pool, store, l, i) => Given(program, pool, store', l, i)
        BY NothingLost, GivenIs, IsGivenKept
      <3> QED
        BY <3>1, <3>2
    <2>3. Brought(program, pool, store, l, chunk.relocs, RelocsDone, chunk.constants, ConstantsDone)'
      BY <2>2
    <2> QED
      BY <2>3 DEF Coming
  <1> QED
    BY <1>1, <1>2, <1>3, <1>4 DEF Decoding

--------------------------------------------------------------------------------
(* A chunk is copied into the program *)

LEMMA SamePlaced ==
  ASSUME NEW l, NEW m, m.placed = l.placed
  PROVE  /\ Ops(m) = Ops(l) /\ (ForwardCall(m) <=> ForwardCall(l))
         /\ \A i : Meant(m, i) = Meant(l, i) /\ Wanted(m, i) = Wanted(l, i)
         /\ \A i, list, n : Moved(m, i, list, n) <=> Moved(l, i, list, n)
         /\ \A i, list, n : Linked(m, i, list, n) <=> Linked(l, i, list, n)
         /\ \A list : Listed(m, list) <=> Listed(l, list)
         /\ \A list : Collected(m, list) <=> Collected(l, list)
  <1>1. Ops(m) = Ops(l)
    BY DEF Ops
  <1>2. \A i : Meant(m, i) = Meant(l, i)
    BY DEF Meant
  <1>3. ForwardCall(m) <=> ForwardCall(l)
    BY <1>1, <1>2 DEF ForwardCall
  <1>4. \A i : Wanted(m, i) = Wanted(l, i)
    BY <1>2 DEF Wanted
  <1>5. \A i, list, n : Moved(m, i, list, n) <=> Moved(l, i, list, n)
    BY DEF Moved
  <1>6. \A i, list, n : Linked(m, i, list, n) <=> Linked(l, i, list, n)
    BY DEF Linked
  <1>7. \A list : Listed(m, list) <=> Listed(l, list)
    BY <1>1, <1>5 DEF Listed
  <1>8. \A list : Collected(m, list) <=> Collected(l, list)
    BY <1>1, <1>6 DEF Collected
  <1> QED
    BY <1>1, <1>2, <1>3, <1>4, <1>5, <1>6, <1>7, <1>8

LEMMA ReadsOfEncoded ==
  ASSUME NEW d, NEW e, NEW l, l.start = 0, NEW m, m.start \in Nat, m.placed = l.placed,
         NEW size \in Nat, Shaped(l, size), NEW i \in Ops(l),
         Copied(d, 0, e, m.start, l.placed[i]), Encoded(d, l, <<>>, {}, i)
  PROVE  Reads(e, m, i, 0)
  <1> SUFFICES ASSUME l.placed[i].item.b # "if"
      PROVE  /\ Legible(e, m.start, m.placed[i])
             /\ Instr(l.placed[i].item.b) \in DOMAIN DestAt =>
                  Aimed(e, m, i, 0) \/ (l.placed[i].item.b \in Labelled /\ Meant(m, i) = {})
    BY DEF Reads
  <1>1. /\ Legible(d, 0, l.placed[i])
        /\ Instr(l.placed[i].item.b) \in DOMAIN DestAt =>
             \/ Aimed(d, l, i, 0)
             \/ l.placed[i].item.b \in Labelled /\ (Awaited(<<>>, l.placed[i]) \/ Lost(l, <<>>, {}, i))
    BY DEF Encoded
  <1>2. l.placed[i].at \in Nat /\ l.placed[i].item.b \in Emitted
    BY ShapedGives
  <1>3. Legible(e, m.start, m.placed[i])
    BY <1>1, <1>2, LegibleCopied
  <1>4. ~Awaited(<<>>, l.placed[i])
    BY DEF Awaited
  <1>5. Lost(l, <<>>, {}, i) => Meant(m, i) = {}
    BY SamePlaced DEF Lost
  <1>6. ASSUME Instr(l.placed[i].item.b) \in DOMAIN DestAt, Aimed(d, l, i, 0)
        PROVE  Aimed(e, m, i, 0)
    <2>1. Wanted(l, i) \subseteq Wanted(m, i)
      BY SamePlaced
    <2>2. l.start \in Nat /\ Copied(d, l.start, e, m.start, l.placed[i])
      OBVIOUS
    <2> QED
      BY <1>2, <1>6, <2>1, <2>2, AimedCopied
  <1> QED
    BY <1>1, <1>3, <1>4, <1>5, <1>6

LEMMA NoneDone ==
  ASSUME NEW l, NEW i, NEW S, NEW list \in Seq(S)
  PROVE  ~Moved(l, i, list, 0) /\ ~Linked(l, i, list, 0)
  <1>1. \A r \in DOMAIN list : r \in Nat /\ ~(r <= 0)
    OBVIOUS
  <1> QED
    BY <1>1 DEF Moved, Linked

LEMMA DecodingLoadChunk ==
  ASSUME LInv, Present, Located, Decoding, LoadChunk
  PROVE  Decoding'
  <1> DEFINE l == [start |-> program_size, placed |-> placed]
  <1>1. /\ pc = "chunk" /\ pc' = "loading" /\ part' = "symbols" /\ done' = 0 /\ start' = program_size
        /\ UNCHANGED <<chunk, placed, blocks, next, pool, store>>
        /\ program_size' = program_size + chunk.size /\ program_size \in Nat
        /\ program_size + chunk.size + 16 <= program_capacity /\ program_capacity \in Nat
        /\ DOMAIN program = 0 .. program_capacity - 1
    BY DEF LoadChunk, LInv, Programmed
  <1>2. /\ Shaped(Now, chunk.size) /\ Written(chunk.data, Now, <<>>, {})
        /\ chunk.size \in Nat /\ IsChunk(chunk)
    BY <1>1, CodedReady DEF Decoding, LInv
  <1>3. /\ DOMAIN loaded' = DOMAIN loaded \cup {Len(loaded) + 1} /\ Len(loaded') = Len(loaded) + 1
        /\ \A m \in DOMAIN loaded : loaded'[m] = loaded[m] /\ m # Len(loaded) + 1
        /\ loaded'[Len(loaded) + 1] = l
    <2>1. \E S : loaded \in Seq(S)
      BY DEF Present
    <2>2. loaded' = Append(loaded, l)
      BY DEF LoadChunk
    <2> HIDE DEF l
    <2> QED
      BY <2>1, <2>2, AppendElements
  <1>4. program' = [a \in DOMAIN program |->
                      IF a \in program_size .. program_size + chunk.size - 1
                      THEN chunk.data[a - program_size] ELSE program[a]]
    BY DEF LoadChunk
  <1>5. SameBelow(program, program', program_size)
    BY <1>1, <1>2, <1>4 DEF SameBelow
  <1>6. \A a \in Nat : a < chunk.size => program'[program_size + a] = chunk.data[a]
    BY <1>1, <1>2, <1>4
  <1>7. Coded'
    BY <1>1, CodedLoading DEF Decoding
  <1>8. l.start = program_size /\ l.placed = Now.placed /\ Now.start = 0
    BY DEF Now
  <1> HIDE DEF l
  <1>9. Shaped(l, chunk.size)
    BY <1>2, <1>8, ShapedSame
  <1>10. Coming'
    <2>1. chunk.relocs \in Seq(Within(chunk.size, 8)) /\ chunk.constants \in Seq(Constant(chunk.size))
      BY <1>2, Zenon DEF IsChunk
    <2>2. \A i : ~Moved(l, i, chunk.relocs, 0) /\ ~Linked(l, i, chunk.constants, 0)
      BY <2>1, NoneDone
    <2>3. Brought(program', pool, store, l, chunk.relocs, 0, chunk.constants, 0)
      <3> SUFFICES ASSUME ~ForwardCall(l), NEW i \in Ops(l)
          PROVE  Reads(program', l, i, 0)
        BY <2>2 DEF Brought
      <3>1. i \in Ops(Now) /\ ~ForwardCall(Now)
        BY <1>8, SamePlaced
      <3>2. Encoded(chunk.data, Now, <<>>, {}, i)
        BY <1>2, <3>1 DEF Written
      <3>3. Copied(chunk.data, 0, program', l.start, Now.placed[i])
        <4>1. Now.placed[i].at \in Nat /\ End(Now.placed[i]) \in Nat /\ End(Now.placed[i]) <= chunk.size
          BY <1>2, <3>1, ShapedGives
        <4> QED
          BY <1>2, <1>6, <1>8, <4>1 DEF Copied
      <3> QED
        BY <1>1, <1>2, <1>8, <3>1, <3>2, <3>3, ReadsOfEncoded
    <2>4. RelocsDone' = 0 /\ ConstantsDone' = 0
      BY <1>1 DEF RelocsDone, ConstantsDone
    <2> QED
      BY <1>1, <1>3, <2>3, <2>4 DEF Coming
  <1>11. Past'
    <2> SUFFICES ASSUME NEW m \in DOMAIN loaded', m # Len(loaded')
        PROVE  Arrived(program', pool, store, loaded'[m])
      BY <1>1 DEF Past
    <2>1. m \in DOMAIN loaded /\ loaded'[m] = loaded[m]
      BY <1>3
    <2>2. Arrived(program, pool, store, loaded[m])
      BY <1>1, <2>1 DEF Decoding, Past
    <2>3. PICK size \in Nat : Shaped(loaded[m], size) /\ loaded[m].start + size <= program_size
      BY <1>1, <2>1 DEF Decoding, Apart
    <2>4. loaded[m].start \in Nat
      BY <2>1 DEF Decoding, Apart
    <2> QED
      BY <1>1, <1>5, <2>1, <2>2, <2>3, <2>4, NothingLost, ArrivedKept
  <1>12. Apart'
    <2> SUFFICES ASSUME NEW m \in DOMAIN loaded'
        PROVE  /\ loaded'[m].start \in Nat
               /\ \E size \in Nat : /\ Shaped(loaded'[m], size)
                    /\ loaded'[m].start + size <= (IF m # Len(loaded') THEN program_size
                                                  ELSE program_size + chunk.size)
      BY <1>1 DEF Apart
    <2>1. CASE m = Len(loaded')
      BY <1>1, <1>2, <1>3, <1>8, <1>9, <2>1
    <2>2. CASE m # Len(loaded')
      <3>1. m \in DOMAIN loaded /\ loaded'[m] = loaded[m]
        BY <1>3, <2>2
      <3> QED
        BY <1>1, <2>2, <3>1 DEF Decoding, Apart
    <2> QED
      BY <2>1, <2>2
  <1> QED
    BY <1>7, <1>10, <1>11, <1>12 DEF Decoding

--------------------------------------------------------------------------------
(* Symbols, debug entries and the end of loading *)

LEMMA DecodingSymbol ==
  ASSUME LInv, Decoding, LoadSymbol
  PROVE  Decoding'
  <1>1. PICK sym : sym = chunk.symbols[done + 1]
    OBVIOUS
  <1>2. Applying("symbols", chunk.symbols) /\ Symbolicate(sym.name)
    BY <1>1 DEF LoadSymbol
  <1>3. /\ UNCHANGED <<chunk, placed, blocks, next, pc>>
        /\ UNCHANGED <<loaded, start, program_size, program, pool, part>>
    BY DEF LoadSymbol, genVars
  <1>4. chunk.symbols \in Seq(Symbol)
    <2>1. IsChunk(chunk)
      BY DEF LInv, GenInv
    <2> QED
      BY <2>1, Zenon DEF IsChunk
  <1>5. sym \in Symbol /\ pc = "loading" /\ part = "symbols"
    BY <1>1, <1>2, <1>4, NextEntry
  <1>6. sym.name \in Names /\ Stored
    BY <1>5 DEF Symbol, LInv
  <1>7. Keeps(store, store')
    BY <1>2, <1>6, SymbolicateFacts DEF Keeps
  <1>8. RelocsDone' = RelocsDone /\ ConstantsDone' = ConstantsDone
    BY <1>3, <1>5 DEF RelocsDone, ConstantsDone
  <1> QED
    BY <1>3, <1>5, <1>7, <1>8, DecodingStill

LEMMA DecodingDebugEntry ==
  ASSUME LInv, Decoding, LoadDebugEntry
  PROVE  Decoding'
  <1>1. /\ UNCHANGED <<chunk, placed, blocks, next, pc>> /\ pc = "loading" /\ part = "debug"
        /\ UNCHANGED <<loaded, start, program_size, program, pool, part, store>>
    BY DEF LoadDebugEntry, genVars, Applying
  <1>2. RelocsDone' = RelocsDone /\ ConstantsDone' = ConstantsDone
    BY <1>1 DEF RelocsDone, ConstantsDone
  <1> QED
    BY <1>1, <1>2, NothingLost, DecodingStill

LEMMA DecodingNextPart ==
  ASSUME LInv, Decoding, NextPart
  PROVE  Decoding'
  <1>1. /\ UNCHANGED <<chunk, placed, blocks, next, pc>> /\ pc = "loading" /\ done' = 0
        /\ UNCHANGED <<loaded, start, program_size, program, pool, store>>
        /\ \/ part = "symbols" /\ part' = "constants"
           \/ part = "constants" /\ done = Len(chunk.constants) /\ part' = "relocs"
           \/ part = "relocs" /\ done = Len(chunk.relocs) /\ part' = "debug"
    BY DEF NextPart, genVars
  <1>2. RelocsDone' = RelocsDone /\ ConstantsDone' = ConstantsDone
    BY <1>1 DEF RelocsDone, ConstantsDone
  <1> QED
    BY <1>1, <1>2, NothingLost, DecodingStill

\* The chunk that is being loaded, and where it is
LEMMA LoadingFacts ==
  ASSUME LInv, Located, Present, Decoding, pc = "loading"
  PROVE  LET l == loaded[Len(loaded)]
         IN /\ l.start = start /\ start \in Nat /\ program_size \in Nat /\ chunk.size \in Nat
            /\ start + chunk.size <= program_size /\ Shaped(l, chunk.size)
            /\ Listed(l, chunk.relocs) /\ Collected(l, chunk.constants)
            /\ Brought(program, pool, store, l, chunk.relocs, RelocsDone, chunk.constants, ConstantsDone)
            /\ chunk.relocs \in Seq(Within(chunk.size, 8)) /\ chunk.constants \in Seq(Constant(chunk.size))
            /\ Len(loaded) \in DOMAIN loaded
  <1> DEFINE l == loaded[Len(loaded)]
  <1>1. l.start = start /\ l.placed = Now.placed /\ Len(loaded) \in DOMAIN loaded
    BY DEF Present, Now
  <1>2. Brought(program, pool, store, l, chunk.relocs, RelocsDone, chunk.constants, ConstantsDone)
    BY DEF Decoding, Coming
  <1>3. /\ Shaped(Now, chunk.size) /\ Listed(Now, chunk.relocs) /\ Collected(Now, chunk.constants)
        /\ chunk.size \in Nat /\ IsChunk(chunk)
    BY CodedReady DEF Decoding, LInv
  <1>4. chunk.relocs \in Seq(Within(chunk.size, 8)) /\ chunk.constants \in Seq(Constant(chunk.size))
    BY <1>3, Zenon DEF IsChunk
  <1>5. start \in Nat /\ program_size \in Nat /\ start + chunk.size <= program_size
    BY DEF LInv, Programmed
  <1> HIDE DEF l
  <1>6. Shaped(l, chunk.size) /\ Listed(l, chunk.relocs) /\ Collected(l, chunk.constants)
    BY <1>1, <1>3, ShapedSame, SamePlaced
  <1> QED
    BY <1>1, <1>2, <1>3, <1>4, <1>5, <1>6 DEF l

LEMMA ArrivedOf ==
  ASSUME NEW d, NEW pl, NEW st, NEW l, NEW relocs, NEW constants,
         Listed(l, relocs), Collected(l, constants),
         Brought(d, pl, st, l, relocs, Len(relocs), constants, Len(constants))
  PROVE  Arrived(d, pl, st, l)
  <1> SUFFICES ASSUME ~ForwardCall(l), NEW i \in Ops(l)
      PROVE  /\ Reads(d, l, i, IF Relocation(l.placed[i].item.b) # 0 THEN l.start ELSE 0)
             /\ l.placed[i].item.b \in Constants \ {"set_integer"} => Given(d, pl, st, l, i)
    BY DEF Arrived
  <1>1. /\ Reads(d, l, i, IF Moved(l, i, relocs, Len(relocs)) THEN l.start ELSE 0)
        /\ (l.placed[i].item.b # "set_integer" /\ Linked(l, i, constants, Len(constants)))
             => Given(d, pl, st, l, i)
    BY DEF Brought
  <1>2. Moved(l, i, relocs, Len(relocs)) <=> Relocation(l.placed[i].item.b) # 0
    BY DEF Listed, Moved
  <1>3. l.placed[i].item.b \in Constants => Linked(l, i, constants, Len(constants))
    BY DEF Collected
  <1> QED
    BY <1>1, <1>2, <1>3

LEMMA DecodingLoaded ==
  ASSUME LInv, Located, Present, Decoding, Loaded
  PROVE  Decoding'
  <1>1. /\ pc = "loading" /\ pc' \in {"idle", "build"} /\ part = "debug"
        /\ UNCHANGED <<loaded, start, program_size, program, pool, store>>
    BY DEF Loaded
  <1> DEFINE l == loaded[Len(loaded)]
  <1>2. /\ Listed(l, chunk.relocs) /\ Collected(l, chunk.constants)
        /\ Brought(program, pool, store, l, chunk.relocs, RelocsDone, chunk.constants, ConstantsDone)
    BY <1>1, LoadingFacts
  <1>3. RelocsDone = Len(chunk.relocs) /\ ConstantsDone = Len(chunk.constants)
    BY <1>1 DEF RelocsDone, ConstantsDone
  <1>4. Arrived(program, pool, store, l)
    <2> HIDE DEF l
    <2> QED
      BY <1>2, <1>3, ArrivedOf
  <1>5. Past'
    BY <1>1, <1>4 DEF Past, Decoding
  <1>6. Coded'
    BY <1>1, CodedDone
  <1>7. Coming'
    BY <1>1 DEF Coming
  <1>8. Apart'
    BY <1>1, ApartKept DEF Decoding
  <1> QED
    BY <1>5, <1>6, <1>7, <1>8 DEF Decoding

--------------------------------------------------------------------------------
(* Constants *)

\* The constant cnst is the one the pool has at id.
Pools(cnst, pl, st, id) ==
  /\ cnst.type = "string" => pl[id] = [type |-> "string", v |-> cnst.name]
  /\ cnst.type = "symbol" => pl[id].type = "symbol" /\ pl[id].v \in DOMAIN st /\ st[pl[id].v] = cnst.name
\* The bytes written at lo
Put4(e, lo, v) == \A k \in Nat : k < 4 => e[lo + k] = Byte(v, k)

LEMMA GivenNow ==
  ASSUME NEW l, l.start \in Nat, NEW size \in Nat, Shaped(l, size), NEW i \in Ops(l),
         NEW e, NEW ql, NEW tt, NEW id \in DOMAIN ql, NEW cnst, Pools(cnst, ql, tt, id),
         Asked(cnst, l.placed[i]), NEW lo, lo = l.start + cnst.index, Put4(e, lo, id - 1),
         l.placed[i].item.b # "set_integer"
  PROVE  Given(e, ql, tt, l, i)
  <1>1. PICK p : p = l.placed[i]
    OBVIOUS
  <1>2. /\ p.item.b \in Constants /\ cnst.index = p.at + ConstantAt(p.item.b)
        /\ cnst.type = ConstantType(p.item.b) /\ cnst.name = p.item.name
    BY <1>1 DEF Asked
  <1>3. p.at \in Nat /\ p.item.b \in Emitted /\ p.item.b # "if"
    BY <1>1, <1>2, ShapedGives DEF Constants
  <1>4. ConstantAt(p.item.b) \in Nat
    BY <1>2, <1>3, Offsets
  <1>5. Part(e, l.start, p, ConstantAt(p.item.b), 4, id - 1)
    <2>1. PICK o \in Nat : o = ConstantAt(p.item.b)
      BY <1>4
    <2>2. PICK v : v = id - 1
      OBVIOUS
    <2>3. lo = l.start + p.at + o
      BY <1>2, <1>3, <2>1
    <2>4. \A k \in Nat : k < 4 => e[l.start + p.at + o + k] = Byte(v, k)
      BY <2>2, <2>3 DEF Put4
    <2> QED
      BY <2>1, <2>2, <2>4 DEF Part
  <1>6. ConstantType(p.item.b) = IF p.item.b = "set_string" THEN "string" ELSE "symbol"
    BY <1>1, <1>2 DEF ConstantType
  <1>7. IsGiven(ql, tt, p, id)
    BY <1>2, <1>6 DEF IsGiven, Pools
  <1> QED
    BY <1>1, <1>5, <1>7, GivenIs

LEMMA BesideCopied ==
  ASSUME NEW l, l.start \in Nat, NEW size \in Nat, Shaped(l, size), NEW limit \in Nat,
         l.start + size <= limit, NEW d, NEW e, NEW i \in Ops(l), NEW j \in Ops(l), i # j,
         NEW o \in Nat, o + 4 <= Length(l.placed[i].item.b),
         NEW lo, lo = l.start + (l.placed[i].at + o), Spared(d, e, lo, 4, limit)
  PROVE  Copied(d, l.start, e, l.start, l.placed[j])
  <1>1. PICK p : p = l.placed[i]
    OBVIOUS
  <1>2. PICK q : q = l.placed[j]
    OBVIOUS
  <1>3. /\ p.at \in Nat /\ End(p) \in Nat /\ End(p) <= size /\ p.item.b \in Emitted
        /\ q.at \in Nat /\ End(q) \in Nat /\ End(q) <= size /\ q.item.b \in Emitted
        /\ End(p) <= q.at \/ End(q) <= p.at
    BY <1>1, <1>2, ShapedGives
  <1>4. PICK n \in Nat : n = Length(p.item.b)
    BY <1>3, LengthIsNat
  <1>5. End(p) = p.at + n
    BY <1>4 DEF End
  <1>6. PICK from \in Nat : from = l.start
    OBVIOUS
  <1>7. lo \in Nat
    BY <1>1, <1>3
  <1>8. from + End(q) <= limit /\ (from + End(q) <= lo \/ lo + 4 <= from + q.at)
    BY <1>1, <1>3, <1>4, <1>5, <1>6
  <1> QED
    BY <1>2, <1>3, <1>6, <1>7, <1>8, SparedCopied

\* The other instructions
LEMMA BroughtBeside ==
  ASSUME NEW l, l.start \in Nat, NEW size \in Nat, Shaped(l, size), NEW i \in Ops(l), NEW d, NEW e,
         Copied(d, l.start, e, l.start, l.placed[i]), NEW by, Reads(d, l, i, by),
         NEW pl, NEW st, NEW ql, NEW tt, Keeps(pl, ql), Keeps(st, tt)
  PROVE  /\ Reads(e, l, i, by)
         /\ l.placed[i].item.b \in Constants /\ Given(d, pl, st, l, i) => Given(e, ql, tt, l, i)
  BY ReadsCopied, GivenCopied

LEMMA BroughtConstant ==
  ASSUME NEW l, l.start \in Nat, NEW size \in Nat, Shaped(l, size), NEW limit \in Nat,
         l.start + size <= limit, NEW d, NEW e, NEW S, NEW constants \in Seq(S), NEW n \in Nat,
         n + 1 \in DOMAIN constants, Collected(l, constants), NEW cnst, cnst = constants[n + 1],
         NEW lo, lo = l.start + cnst.index, Spared(d, e, lo, 4, limit),
         NEW pl, NEW st, NEW ql, NEW tt, Keeps(pl, ql), Keeps(st, tt),
         NEW id \in DOMAIN ql, Pools(cnst, ql, tt, id), Put4(e, lo, id - 1),
         NEW relocs, NEW r, Brought(d, pl, st, l, relocs, r, constants, n)
  PROVE  Brought(e, ql, tt, l, relocs, r, constants, n + 1)
  <1> SUFFICES ASSUME ~ForwardCall(l), NEW i \in Ops(l)
      PROVE  /\ Reads(e, l, i, IF Moved(l, i, relocs, r) THEN l.start ELSE 0)
             /\ (l.placed[i].item.b # "set_integer" /\ Linked(l, i, constants, n + 1)) => Given(e, ql, tt, l, i)
    BY DEF Brought
  <1>1. /\ Reads(d, l, i, IF Moved(l, i, relocs, r) THEN l.start ELSE 0)
        /\ (l.placed[i].item.b # "set_integer" /\ Linked(l, i, constants, n)) => Given(d, pl, st, l, i)
    BY DEF Brought
  <1>2. PICK by : by = IF Moved(l, i, relocs, r) THEN l.start ELSE 0
    OBVIOUS
  <1>3. Reads(d, l, i, by)
    BY <1>1, <1>2
  <1>4. PICK j \in Ops(l) : Asked(cnst, l.placed[j])
    BY DEF Collected
  <1>5. PICK p : p = l.placed[j]
    OBVIOUS
  <1>6. p.item.b \in Constants /\ cnst.index = p.at + ConstantAt(p.item.b)
    BY <1>4, <1>5 DEF Asked
  <1>7. p.item.b # "if" /\ p.item.b \in Emitted /\ p.at \in Nat
    BY <1>5, <1>6, ShapedGives DEF Constants
  <1>8. PICK o \in Nat : o = ConstantAt(p.item.b)
    BY <1>6, <1>7, Offsets
  <1>9. 1 <= o /\ o + 4 <= Length(p.item.b)
    BY <1>6, <1>7, <1>8, Offsets
  <1>10. lo = l.start + (p.at + o)
    BY <1>6, <1>8
  <1>11. CASE i # j
    <2>1. Copied(d, l.start, e, l.start, l.placed[i])
      BY <1>5, <1>9, <1>10, <1>11, BesideCopied
    <2>2. Reads(e, l, i, by)
      BY <1>3, <2>1, BroughtBeside
    <2>3. ASSUME Linked(l, i, constants, n + 1) PROVE Linked(l, i, constants, n)
      <3>1. PICK k \in DOMAIN constants : k <= n + 1 /\ Asked(constants[k], l.placed[i])
        BY <2>3 DEF Linked
      <3>2. k # n + 1
        <4> SUFFICES ASSUME k = n + 1 PROVE FALSE
          OBVIOUS
        <4>1. PICK q : q = l.placed[i]
          OBVIOUS
        <4>2. q.item.b \in Constants /\ cnst.index = q.at + ConstantAt(q.item.b)
          BY <3>1, <4>1 DEF Asked
        <4>3. q.item.b \in Emitted
          BY <4>1, ShapedGives
        <4>4. PICK u \in Nat : u = ConstantAt(q.item.b) /\ u < Length(q.item.b)
          BY <4>2, <4>3, ListOffsets
        <4>5. o < Length(p.item.b)
          BY <1>6, <1>7, <1>8, ListOffsets
        <4> QED
          BY <1>5, <1>6, <1>8, <1>11, <4>1, <4>2, <4>4, <4>5, OwnOffset
      <3>3. k <= n
        BY <3>1, <3>2
      <3> QED
        BY <3>1, <3>3 DEF Linked
    <2>4. ASSUME l.placed[i].item.b # "set_integer", Linked(l, i, constants, n + 1)
          PROVE  Given(e, ql, tt, l, i)
      <3>1. Given(d, pl, st, l, i) /\ l.placed[i].item.b \in Constants
        BY <1>1, <2>3, <2>4, LinkedGives
      <3> QED
        BY <1>3, <2>1, <3>1, BroughtBeside
    <2> QED
      BY <1>2, <2>2, <2>4
  <1>12. CASE i = j
    <2>1. Reads(e, l, i, by)
      <3>1. Legible(d, l.start, p)
        BY <1>3, <1>5, <1>7, <1>12 DEF Reads
      <3>2. Clear(p.item.b, o, 4)
        <4> SUFFICES ASSUME NEW k \in DOMAIN RegsAt(Instr(p.item.b))
            PROVE  RegsAt(Instr(p.item.b))[k] + 1 <= o \/ o + 4 <= RegsAt(Instr(p.item.b))[k]
          BY DEF Clear
        <4>1. RegisterAt(p.item.b, RegsAt(Instr(p.item.b))[k])
          BY <1>7, Offsets
        <4>2. ItemType(p.item.b) \in {"H", "CALLSYMBOLIC"}
          BY <1>6, <1>7, Offsets
        <4> QED
          BY <1>8, <4>1, <4>2 DEF RegisterAt
      <3>3. l.start + End(p) <= limit /\ lo \in Nat /\ lo = l.start + p.at + o
        <4>1. End(p) \in Nat /\ End(p) <= size
          BY <1>5, ShapedGives
        <4> QED
          BY <1>7, <1>10, <4>1
      <3>4. Legible(e, l.start, p)
        <4>1. 4 \in Nat
          OBVIOUS
        <4>2. Rewritten(d, e, l.start, p, o, 4)
          BY <3>3 DEF Rewritten
        <4> QED
          BY <1>7, <1>9, <3>1, <3>2, <4>1, <4>2, SparedLegible
      <3>5. Instr(p.item.b) \notin DOMAIN DestAt
        BY <1>6, <1>7, Offsets
      <3> QED
        BY <1>5, <1>12, <3>4, <3>5 DEF Reads
    <2>2. l.placed[i].item.b # "set_integer" => Given(e, ql, tt, l, i)
      BY <1>4, <1>12, GivenNow
    <2> QED
      BY <1>2, <2>1, <2>2
  <1> QED
    BY <1>11, <1>12

LEMMA ConstantPooled ==
  ASSUME LInv, LoadConstant
  PROVE  \E cnst \in Constant(chunk.size), id \in Nat \ {0} :
           /\ done \in Nat /\ done + 1 \in DOMAIN chunk.constants /\ cnst = chunk.constants[done + 1]
           /\ pc = "loading" /\ part = "constants" /\ done' = done + 1
           /\ id \in DOMAIN pool' /\ Pools(cnst, pool', store', id)
           /\ Keeps(pool, pool') /\ Keeps(store, store')
           /\ program' = WriteAt(program, start + cnst.index, 4, id - 1)
  <1>1. PICK cnst : cnst = chunk.constants[done + 1]
    OBVIOUS
  <1>2. /\ Applying("constants", chunk.constants)
        /\ IF cnst.type = "symbol" THEN Symbolicate(cnst.name) ELSE UNCHANGED <<store, store_size>>
        /\ pool' = Append(pool, ConstantObject(cnst))
        /\ program' = WriteAt(program, start + cnst.index, 4, Len(pool))
    BY <1>1 DEF LoadConstant, WriteAt
  <1>3. chunk.constants \in Seq(Constant(chunk.size))
    <2>1. IsChunk(chunk)
      BY DEF LInv, GenInv
    <2> QED
      BY <2>1, Zenon DEF IsChunk
  <1>4. /\ done + 1 \in DOMAIN chunk.constants /\ cnst \in Constant(chunk.size)
        /\ pc = "loading" /\ part = "constants" /\ done' = done + 1
    BY <1>1, <1>2, <1>3, NextEntry
  <1>5. PICK x : x = ConstantObject(cnst)
    OBVIOUS
  <1>6. /\ DOMAIN pool' = DOMAIN pool \cup {Len(pool) + 1}
        /\ \A i \in DOMAIN pool : pool'[i] = pool[i]
        /\ pool'[Len(pool) + 1] = x /\ Len(pool) \in Nat
    <2>1. pool \in Seq(ConstantObjects) /\ pool' = Append(pool, x)
      BY <1>2, <1>5 DEF LInv, Pooled
    <2> QED
      BY <2>1, AppendElements
  <1>7. Keeps(pool, pool')
    BY <1>6 DEF Keeps
  <1>8. Stored /\ done \in Nat
    BY DEF LInv, Parted
  <1>9. CASE cnst.type = "symbol"
    <2>1. cnst.name \in Names
      BY <1>4, <1>9 DEF Constant
    <2>2. /\ store' = StoreWith(cnst.name) /\ IdOf(cnst.name) \in DOMAIN store'
          /\ store'[IdOf(cnst.name)] = cnst.name
          /\ \A i \in DOMAIN store : i \in DOMAIN store' /\ store'[i] = store[i]
      BY <1>2, <1>8, <1>9, <2>1, SymbolicateFacts
    <2>3. x = [type |-> "symbol", v |-> IdOf(cnst.name)]
      BY <1>5, <1>9 DEF ConstantObject
    <2>4. Keeps(store, store')
      BY <2>2 DEF Keeps
    <2>5. Pools(cnst, pool', store', Len(pool) + 1)
      BY <1>6, <1>9, <2>2, <2>3 DEF Pools
    <2> QED
      BY <1>1, <1>2, <1>4, <1>6, <1>7, <1>8, <2>4, <2>5
  <1>10. CASE cnst.type # "symbol"
    <2>1. Keeps(store, store')
      BY <1>2, <1>10, NothingLost
    <2>2. cnst.type = "string" => x = [type |-> "string", v |-> cnst.name]
      BY <1>5 DEF ConstantObject
    <2>3. Pools(cnst, pool', store', Len(pool) + 1)
      BY <1>6, <1>10, <2>2 DEF Pools
    <2> QED
      BY <1>1, <1>2, <1>4, <1>6, <1>7, <1>8, <2>1, <2>3
  <1> QED
    BY <1>9, <1>10

\* Four bytes of the chunk that is being loaded are written.
LEMMA WrittenBehind ==
  ASSUME LInv, pc = "loading", NEW index \in Nat, index + 4 <= chunk.size, NEW v,
         program' = WriteAt(program, start + index, 4, v)
  PROVE  /\ Spared(program, program', start + index, 4, program_size)
         /\ Put4(program', start + index, v)
         /\ SameBelow(program, program', start)
  <1>1. /\ program_size \in Nat /\ program_capacity \in Nat /\ program_size <= program_capacity
        /\ DOMAIN program = 0 .. program_capacity - 1 /\ start \in Nat
        /\ start + chunk.size <= program_size /\ chunk.size \in Nat
    BY DEF LInv, Programmed, GenInv, IsChunk
  <1>2. PICK lo \in Nat : lo = start + index
    BY <1>1
  <1>3. lo + 4 <= program_size /\ start <= lo
    BY <1>1, <1>2
  <1>4. \A a \in Nat : a < program_size => a \in DOMAIN program
    BY <1>1
  <1>5. /\ \A k \in Nat : k < 4 /\ lo + k \in DOMAIN program => program'[lo + k] = Byte(v, k)
        /\ \A a \in Nat : a \in DOMAIN program /\ (a < lo \/ lo + 4 <= a) => program'[a] = program[a]
    <2>1. 4 \in Nat
      OBVIOUS
    <2>2. program' = WriteAt(program, lo, 4, v)
      BY <1>2
    <2> QED
      BY <2>1, <2>2, WriteOne
  <1>6. Spared(program, program', lo, 4, program_size)
    BY <1>4, <1>5 DEF Spared
  <1>7. Put4(program', lo, v)
    BY <1>1, <1>3, <1>4, <1>5 DEF Put4
  <1>8. SameBelow(program, program', start)
    BY <1>1, <1>3, <1>4, <1>5 DEF SameBelow
  <1> QED
    BY <1>2, <1>6, <1>7, <1>8

LEMMA DecodingConstant ==
  ASSUME LInv, Located, Present, Decoding, LoadConstant
  PROVE  Decoding'
  <1>1. PICK cnst \in Constant(chunk.size), id \in Nat \ {0} :
           /\ done \in Nat /\ done + 1 \in DOMAIN chunk.constants /\ cnst = chunk.constants[done + 1]
           /\ pc = "loading" /\ part = "constants" /\ done' = done + 1
           /\ id \in DOMAIN pool' /\ Pools(cnst, pool', store', id)
           /\ Keeps(pool, pool') /\ Keeps(store, store')
           /\ program' = WriteAt(program, start + cnst.index, 4, id - 1)
    BY ConstantPooled
  <1>2. /\ UNCHANGED <<chunk, placed, blocks, next, pc, loaded, start, program_size, part>>
    BY DEF LoadConstant, genVars
  <1> DEFINE l == loaded[Len(loaded)]
  <1>3. /\ l.start = start /\ start \in Nat /\ program_size \in Nat /\ chunk.size \in Nat
        /\ start + chunk.size <= program_size /\ Shaped(l, chunk.size) /\ Collected(l, chunk.constants)
        /\ Brought(program, pool, store, l, chunk.relocs, RelocsDone, chunk.constants, ConstantsDone)
        /\ chunk.constants \in Seq(Constant(chunk.size)) /\ Len(loaded) \in DOMAIN loaded
    BY <1>1, LoadingFacts
  <1>4. cnst.index \in Nat /\ cnst.index + 4 <= chunk.size
    BY <1>1 DEF Constant, Within
  <1>5. PICK v : v = id - 1
    OBVIOUS
  <1>6. /\ Spared(program, program', start + cnst.index, 4, program_size)
        /\ Put4(program', start + cnst.index, v) /\ SameBelow(program, program', start)
    BY <1>1, <1>4, <1>5, WrittenBehind
  <1>7. Coded'
    BY <1>1, <1>2, CodedLoading DEF Decoding
  <1>8. Past'
    BY <1>1, <1>2, <1>3, <1>6, PastKept DEF Decoding
  <1>9. Apart'
    BY <1>1, <1>2, ApartKept DEF Decoding
  <1>10. RelocsDone' = 0 /\ RelocsDone = 0 /\ ConstantsDone = done /\ ConstantsDone' = done + 1
    BY <1>1, <1>2 DEF RelocsDone, ConstantsDone
  <1>11. Brought(program', pool', store', l, chunk.relocs, 0, chunk.constants, done + 1)
    <2>1. PICK lo : lo = start + cnst.index
      OBVIOUS
    <2>2. Brought(program, pool, store, l, chunk.relocs, 0, chunk.constants, done)
      BY <1>3, <1>10
    <2> HIDE DEF l
    <2> QED
      BY <1>1, <1>3, <1>5, <1>6, <2>1, <2>2, BroughtConstant
  <1>12. Coming'
    BY <1>2, <1>10, <1>11 DEF Coming
  <1> QED
    BY <1>7, <1>8, <1>9, <1>12 DEF Decoding

--------------------------------------------------------------------------------
(* Relocations *)

LEMMA RelocationFits ==
  ASSUME NEW b \in Emitted, Relocation(b) # 0
  PROVE  Relocation(b) \in Nat /\ 1 <= Relocation(b) /\ Relocation(b) + 4 <= Length(b)
  <1>1. ItemType("litinteger_label") = "G"
    BY OtherTypes
  <1>2. PICK t : t = ItemType(b)
    OBVIOUS
  <1>3. \/ t \in {"D1", "D2"} /\ Relocation(b) = 1 /\ Length(b) >= 9
        \/ t = "D3" /\ Relocation(b) = 2 /\ Length(b) = 10
        \/ t = "G" /\ Relocation(b) = 2 /\ Length(b) = 10
        \/ t = "CALL" /\ Relocation(b) = 4 /\ Length(b) = 13
    BY <1>1, <1>2, Lengths DEF Relocation, TagSize
  <1>4. Length(b) \in Nat
    BY LengthIsNat
  <1> QED
    BY <1>3, <1>4

LEMMA WantedIsNat ==
  ASSUME NEW l, NEW size \in Nat, Shaped(l, size), NEW i \in Ops(l), NEW v \in Wanted(l, i)
  PROVE  v \in Nat
  <1>1. \A j \in DOMAIN l.placed : l.placed[j].at \in Nat /\ l.placed[j].item \in Items
    BY DEF Shaped
  <1>2. l.placed[i].item.n \in Nat
    BY <1>1, ShapedGives DEF Items
  <1>3. \A j \in Meant(l, i) : j \in DOMAIN l.placed
    BY MeantOf
  <1> QED
    BY <1>1, <1>2, <1>3 DEF Wanted

\* The address read at lo
AddressAt(d, lo) == d[lo] + 2 ^ 8 * d[lo + 1] + 2 ^ 16 * d[lo + 2] + 2 ^ 24 * d[lo + 3]

LEMMA PartMoved ==
  ASSUME NEW d, NEW e, NEW base \in Nat, NEW p, p.at \in Nat, NEW o \in Nat, NEW v \in Nat,
         NEW lo \in Nat, lo = base + p.at + o, NEW limit \in Nat, lo + 8 <= limit,
         Spared(d, e, lo, 4, limit), NEW w, w = AddressAt(d, lo) + base, Put4(e, lo, w),
         Part(d, base, p, o, 8, v)
  PROVE  Part(e, base, p, o, 8, v + base)
  <1>1. \A k \in Nat : k < 8 => d[lo + k] = Byte(v, k)
    BY DEF Part
  <1>2. d[lo] = Byte(v, 0) /\ d[lo + 1] = Byte(v, 1) /\ d[lo + 2] = Byte(v, 2) /\ d[lo + 3] = Byte(v, 3)
    <2>1. PICK z \in Nat : z = 0
      OBVIOUS
    <2>2. d[lo + z] = Byte(v, z) /\ lo + z = lo
      BY <1>1, <2>1
    <2> QED
      BY <1>1, <2>1, <2>2
  <1>3. w = Byte(v, 0) + 2 ^ 8 * Byte(v, 1) + 2 ^ 16 * Byte(v, 2) + 2 ^ 24 * Byte(v, 3) + base
    BY <1>2 DEF AddressAt
  <1>4. /\ Byte(w, 0) = Byte(v + base, 0) /\ Byte(w, 1) = Byte(v + base, 1)
        /\ Byte(w, 2) = Byte(v + base, 2) /\ Byte(w, 3) = Byte(v + base, 3)
    BY <1>3, BytesAdded
  <1>5. PICK x : x = v + base
    OBVIOUS
  <1>6. \A k \in Nat : k < 8 => e[lo + k] = Byte(x, k)
    <2> SUFFICES ASSUME NEW k \in Nat, k < 8 PROVE e[lo + k] = Byte(x, k)
      OBVIOUS
    <2>1. CASE k < 4
      <3>1. e[lo + k] = Byte(w, k)
        BY <2>1 DEF Put4
      <3>2. k = 0 \/ k = 1 \/ k = 2 \/ k = 3
        BY <2>1
      <3>3. /\ Byte(w, 0) = Byte(x, 0) /\ Byte(w, 1) = Byte(x, 1)
            /\ Byte(w, 2) = Byte(x, 2) /\ Byte(w, 3) = Byte(x, 3)
        BY <1>4, <1>5
      <3> QED
        BY <3>1, <3>2, <3>3
    <2>2. CASE k >= 4
      <3>1. lo + k \in Nat /\ lo + k < limit /\ lo + 4 <= lo + k
        BY <2>2
      <3>2. e[lo + k] = d[lo + k]
        BY <3>1 DEF Spared
      <3>3. Byte(v, k) = 0 /\ Byte(x, k) = 0
        BY <2>2, HighBytes
      <3> QED
        BY <1>1, <3>2, <3>3
    <2> QED
      BY <2>1, <2>2
  <1>7. \A k \in Nat : k < 8 => e[base + p.at + o + k] = Byte(x, k)
    BY <1>6
  <1> QED
    BY <1>5, <1>7 DEF Part

LEMMA ReadsMoved ==
  ASSUME NEW l, l.start \in Nat, NEW size \in Nat, Shaped(l, size), NEW limit \in Nat,
         l.start + size <= limit, NEW i \in Ops(l), NEW d, NEW e,
         Relocation(l.placed[i].item.b) # 0,
         NEW lo, lo = l.start + (l.placed[i].at + Relocation(l.placed[i].item.b)),
         Spared(d, e, lo, 4, limit), NEW w, w = AddressAt(d, lo) + l.start, Put4(e, lo, w),
         Reads(d, l, i, 0)
  PROVE  Reads(e, l, i, l.start)
  <1> SUFFICES ASSUME l.placed[i].item.b # "if"
      PROVE  /\ Legible(e, l.start, l.placed[i])
             /\ Instr(l.placed[i].item.b) \in DOMAIN DestAt =>
                  Aimed(e, l, i, l.start) \/ (l.placed[i].item.b \in Labelled /\ Meant(l, i) = {})
    BY DEF Reads
  <1>1. PICK p : p = l.placed[i]
    OBVIOUS
  <1>2. PICK from \in Nat : from = l.start
    OBVIOUS
  <1>3. /\ p.at \in Nat /\ p.item.b \in Emitted /\ p.item.b # "if" /\ Relocation(p.item.b) # 0
        /\ End(p) \in Nat /\ End(p) <= size
    BY <1>1, ShapedGives
  <1>4. PICK o \in Nat : o = Relocation(p.item.b)
    BY <1>3, RelocationFits
  <1>5. /\ p.item.b # "jump" /\ Instr(p.item.b) \in DOMAIN DestAt /\ DestAt[Instr(p.item.b)] = o
    BY <1>3, <1>4, Relocations
  <1>6. /\ o = DestPlace(ItemType(p.item.b)) /\ ItemType(p.item.b) \in DestTypes
        /\ 1 <= o /\ o + Wide(p.item.b) <= Length(p.item.b)
    BY <1>3, <1>5, Offsets
  <1>7. Wide(p.item.b) = 8
    BY <1>5 DEF Wide
  <1>8. PICK len \in Nat : len = Length(p.item.b)
    BY <1>3, LengthIsNat
  <1>9. lo \in Nat /\ lo = from + p.at + o /\ lo + 8 <= limit /\ from + End(p) <= limit
    <2>1. End(p) = p.at + len /\ o + 8 <= len
      BY <1>6, <1>7, <1>8 DEF End
    <2> QED
      BY <1>1, <1>2, <1>3, <1>4, <1>8, <2>1
  <1>10. /\ Legible(d, from, p)
         /\ Aimed(d, l, i, 0) \/ (p.item.b \in Labelled /\ Meant(l, i) = {})
    BY <1>1, <1>2, <1>5 DEF Reads
  <1>11. Legible(e, from, p)
    <2>1. Clear(p.item.b, o, 4)
      <3> SUFFICES ASSUME NEW k \in DOMAIN RegsAt(Instr(p.item.b))
          PROVE  RegsAt(Instr(p.item.b))[k] + 1 <= o \/ o + 4 <= RegsAt(Instr(p.item.b))[k]
        BY DEF Clear
      <3>1. RegisterAt(p.item.b, RegsAt(Instr(p.item.b))[k])
        BY <1>3, Offsets
      <3> QED
        BY <1>6, <1>7, <3>1 DEF RegisterAt
    <2>2. 4 \in Nat /\ 1 <= o
      BY <1>6
    <2>4. Rewritten(d, e, from, p, o, 4)
      BY <1>9 DEF Rewritten
    <2>5. Legible(d, from, p) /\ p.at \in Nat /\ p.item.b \in Emitted /\ p.item.b # "if"
      BY <1>3, <1>10
    <2> QED
      BY <2>1, <2>2, <2>4, <2>5, SparedLegible
  <1>12. ASSUME Aimed(d, l, i, 0) PROVE Aimed(e, l, i, l.start)
    <2>1. PICK v \in Wanted(l, i) : Part(d, from, p, o, 8, v + 0)
      BY <1>1, <1>2, <1>5, <1>7, <1>12 DEF Aimed
    <2>2. v \in Nat
      BY <2>1, WantedIsNat
    <2>3. Part(d, from, p, o, 8, v)
      <3>1. v + 0 = v
        BY <2>2
      <3> QED
        BY <2>1, <3>1
    <2>4. Part(e, from, p, o, 8, v + from)
      BY <1>2, <1>3, <1>9, <2>2, <2>3, PartMoved
    <2> QED
      BY <1>1, <1>2, <1>5, <1>7, <2>4 DEF Aimed
  <1> QED
    BY <1>1, <1>2, <1>10, <1>11, <1>12

LEMMA BroughtRelocation ==
  ASSUME NEW l, l.start \in Nat, NEW size \in Nat, Shaped(l, size), NEW limit \in Nat,
         l.start + size <= limit, NEW d, NEW e, NEW S, NEW relocs \in Seq(S), NEW n \in Nat,
         n + 1 \in DOMAIN relocs, Listed(l, relocs), NEW reloc, reloc = relocs[n + 1],
         NEW lo, lo = l.start + reloc, Spared(d, e, lo, 4, limit),
         NEW w, w = AddressAt(d, lo) + l.start, Put4(e, lo, w),
         NEW pl, NEW st, NEW constants, NEW c, Brought(d, pl, st, l, relocs, n, constants, c)
  PROVE  Brought(e, pl, st, l, relocs, n + 1, constants, c)
  <1> SUFFICES ASSUME ~ForwardCall(l), NEW i \in Ops(l)
      PROVE  /\ Reads(e, l, i, IF Moved(l, i, relocs, n + 1) THEN l.start ELSE 0)
             /\ (l.placed[i].item.b # "set_integer" /\ Linked(l, i, constants, c)) => Given(e, pl, st, l, i)
    BY DEF Brought
  <1>1. /\ Reads(d, l, i, IF Moved(l, i, relocs, n) THEN l.start ELSE 0)
        /\ (l.placed[i].item.b # "set_integer" /\ Linked(l, i, constants, c)) => Given(d, pl, st, l, i)
    BY DEF Brought
  <1>2. PICK j \in Ops(l) : MovedBy(relocs, n + 1, l.placed[j])
    BY ListedIs
  <1>3. PICK p : p = l.placed[j]
    OBVIOUS
  <1>4. Relocation(p.item.b) # 0 /\ reloc = p.at + Relocation(p.item.b)
    BY <1>2, <1>3 DEF MovedBy
  <1>5. p.item.b \in Emitted /\ p.at \in Nat
    BY <1>3, ShapedGives
  <1>6. PICK o \in Nat : o = Relocation(p.item.b)
    BY <1>4, <1>5, RelocationFits
  <1>7. o + 4 <= Length(p.item.b) /\ o < Length(p.item.b) /\ lo = l.start + (p.at + o)
    BY <1>4, <1>5, <1>6, RelocationFits, ListOffsets
  <1>8. \A r \in DOMAIN relocs : r \in Nat
    OBVIOUS
  <1>9. \A m : Moved(l, i, relocs, m) <=> \E r \in DOMAIN relocs : r <= m /\ MovedBy(relocs, r, l.placed[i])
    BY ListedIs
  <1>10. CASE i # j
    <2>1. Copied(d, l.start, e, l.start, l.placed[i])
      BY <1>3, <1>7, <1>10, BesideCopied
    <2>2. ~MovedBy(relocs, n + 1, l.placed[i])
      <3> SUFFICES ASSUME MovedBy(relocs, n + 1, l.placed[i]) PROVE FALSE
        OBVIOUS
      <3>1. PICK q : q = l.placed[i]
        OBVIOUS
      <3>2. Relocation(q.item.b) # 0 /\ reloc = q.at + Relocation(q.item.b)
        BY <3>1 DEF MovedBy
      <3>3. q.item.b \in Emitted
        BY <3>1, ShapedGives
      <3>4. PICK u \in Nat : u = Relocation(q.item.b) /\ u < Length(q.item.b)
        BY <3>2, <3>3, ListOffsets
      <3> QED
        BY <1>3, <1>4, <1>6, <1>7, <1>10, <3>1, <3>2, <3>4, OwnOffset
    <2>3. Moved(l, i, relocs, n + 1) <=> Moved(l, i, relocs, n)
      <3>1. \A r \in DOMAIN relocs : r <= n + 1 <=> r <= n \/ r = n + 1
        BY <1>8
      <3> QED
        BY <1>9, <2>2, <3>1
    <2>4. PICK by : by = IF Moved(l, i, relocs, n) THEN l.start ELSE 0
      OBVIOUS
    <2>5. Reads(d, l, i, by)
      BY <1>1, <2>4
    <2>6. Reads(e, l, i, by)
      BY <2>1, <2>5, ReadsCopied
    <2>7. ASSUME l.placed[i].item.b # "set_integer", Linked(l, i, constants, c)
          PROVE  Given(e, pl, st, l, i)
      <3>1. Given(d, pl, st, l, i) /\ l.placed[i].item.b \in Constants
        BY <1>1, <2>7, LinkedGives
      <3> QED
        BY <2>1, <2>5, <3>1, NothingLost, BroughtBeside
    <2> QED
      BY <2>3, <2>4, <2>6, <2>7
  <1>11. CASE i = j
    <2>1. Moved(l, i, relocs, n + 1)
      BY <1>2, <1>9, <1>11
    <2>2. ~Moved(l, i, relocs, n)
      <3> SUFFICES ASSUME NEW r \in DOMAIN relocs, r <= n, MovedBy(relocs, r, l.placed[i]) PROVE FALSE
        BY <1>9
      <3>1. relocs[r] = relocs[n + 1]
        BY <1>2, <1>11 DEF MovedBy
      <3>2. r = n + 1
        BY <3>1, ListedIs
      <3> QED
        BY <1>8, <3>2
    <2>3. Reads(d, l, i, 0)
      BY <1>1, <2>2
    <2>4. Reads(e, l, i, l.start)
      BY <1>3, <1>4, <1>6, <1>7, <1>11, <2>3, ReadsMoved
    <2>5. ~Linked(l, i, constants, c)
      <3> SUFFICES ASSUME p.item.b \in Constants PROVE FALSE
        BY <1>3, <1>11, LinkedGives
      <3>1. p.item.b # "if"
        BY DEF Constants
      <3>2. Instr(p.item.b) \in DOMAIN DestAt
        BY <1>4, <1>5, <3>1, Relocations
      <3> QED
        BY <1>5, <3>1, <3>2, Offsets
    <2> QED
      BY <2>1, <2>4, <2>5
  <1> QED
    BY <1>10, <1>11

LEMMA DecodingRelocation ==
  ASSUME LInv, Located, Present, Decoding, LoadRelocation
  PROVE  Decoding'
  <1>1. /\ Applying("relocs", chunk.relocs) /\ program' = Relocated(chunk.relocs[done + 1])
        /\ UNCHANGED <<chunk, placed, blocks, next, pc, loaded, start, program_size, part, pool, store>>
    BY DEF LoadRelocation, genVars
  <1> DEFINE l == loaded[Len(loaded)]
  <1>2. pc = "loading"
    BY <1>1 DEF Applying
  <1>3. /\ l.start = start /\ start \in Nat /\ program_size \in Nat /\ chunk.size \in Nat
        /\ start + chunk.size <= program_size /\ Shaped(l, chunk.size) /\ Listed(l, chunk.relocs)
        /\ Brought(program, pool, store, l, chunk.relocs, RelocsDone, chunk.constants, ConstantsDone)
        /\ chunk.relocs \in Seq(Within(chunk.size, 8)) /\ Len(loaded) \in DOMAIN loaded
    BY <1>2, LoadingFacts
  <1>4. PICK reloc : reloc = chunk.relocs[done + 1]
    OBVIOUS
  <1>5. /\ done + 1 \in DOMAIN chunk.relocs /\ reloc \in Within(chunk.size, 8)
        /\ part = "relocs" /\ done' = done + 1 /\ done \in Nat
    BY <1>1, <1>3, <1>4, NextEntry DEF LInv, Parted
  <1>6. reloc \in Nat /\ reloc + 4 <= chunk.size
    BY <1>3, <1>5 DEF Within
  <1>7. PICK w : w = AddressAt(program, start + reloc) + start
    OBVIOUS
  <1>8. program' = WriteAt(program, start + reloc, 4, w)
    BY <1>1, <1>4, <1>7 DEF Relocated, LowWord, AddressAt, WriteAt
  <1>9. /\ Spared(program, program', start + reloc, 4, program_size)
        /\ Put4(program', start + reloc, w) /\ SameBelow(program, program', start)
    BY <1>2, <1>6, <1>8, WrittenBehind
  <1>10. Coded'
    BY <1>1, <1>2, CodedLoading DEF Decoding
  <1>11. Past'
    BY <1>1, <1>2, <1>3, <1>9, NothingLost, PastKept DEF Decoding
  <1>12. Apart'
    BY <1>1, <1>2, ApartKept DEF Decoding
  <1>13. RelocsDone = done /\ RelocsDone' = done + 1 /\ ConstantsDone' = ConstantsDone
    BY <1>1, <1>5 DEF RelocsDone, ConstantsDone
  <1>14. Brought(program', pool, store, l, chunk.relocs, done + 1, chunk.constants, ConstantsDone)
    <2>1. PICK lo : lo = start + reloc
      OBVIOUS
    <2>2. Brought(program, pool, store, l, chunk.relocs, done, chunk.constants, ConstantsDone)
      BY <1>3, <1>13
    <2> HIDE DEF l
    <2> QED
      BY <1>3, <1>4, <1>5, <1>7, <1>9, <2>1, <2>2, BroughtRelocation
  <1>15. Coming'
    BY <1>1, <1>13, <1>14 DEF Coming
  <1> QED
    BY <1>10, <1>11, <1>12, <1>15 DEF Decoding

LEMMA DecodingUnchanged ==
  ASSUME Decoding, UNCHANGED vars
  PROVE  Decoding'
  <1>1. UNCHANGED <<chunk, placed, blocks, next, pc, loaded, start, program_size, part, pool, store,
                    program, done>>
    BY DEF vars, genVars, vmVars
  <1>2. Coded' = Coded
    BY <1>1 DEF Coded, Making, Now, Alive
  <1>3. RelocsDone' = RelocsDone /\ ConstantsDone' = ConstantsDone
    BY <1>1 DEF RelocsDone, ConstantsDone
  <1>4. Coming' = Coming
    BY <1>1, <1>3 DEF Coming
  <1>5. Past' = Past /\ Apart' = Apart
    BY <1>1 DEF Past, Apart
  <1> QED
    BY <1>2, <1>4, <1>5 DEF Decoding

LEMMA DecodingInductive == Spec => []Decoding
  <1>1. Init => Decoding
    BY DecodingInitially
  <1>2. ASSUME LInv, Located, Resolving, Decoding, [Next]_vars
        PROVE  Decoding'
    <2>1. Present
      BY <1>2 DEF Resolving
    <2>2. CASE Generate /\ UNCHANGED vmVars
      BY <1>2, <2>2, DecodingGenerate
    <2>3. CASE ExpandProgram
      BY <1>2, <2>3, DecodingExpand
    <2>4. CASE LoadChunk
      BY <1>2, <2>1, <2>4, DecodingLoadChunk
    <2>5. CASE LoadSymbol
      BY <1>2, <2>5, DecodingSymbol
    <2>6. CASE LoadConstant
      BY <1>2, <2>1, <2>6, DecodingConstant
    <2>7. CASE LoadRelocation
      BY <1>2, <2>1, <2>7, DecodingRelocation
    <2>8. CASE LoadDebugEntry
      BY <1>2, <2>8, DecodingDebugEntry
    <2>9. CASE NextPart
      BY <1>2, <2>9, DecodingNextPart
    <2>10. CASE Loaded
      BY <1>2, <2>1, <2>10, DecodingLoaded
    <2>11. CASE UNCHANGED vars
      BY <1>2, <2>11, DecodingUnchanged
    <2> QED
      BY <1>2, <2>2, <2>3, <2>4, <2>5, <2>6, <2>7, <2>8, <2>9, <2>10, <2>11 DEF Next
  <1> QED
    BY <1>1, <1>2, Inductive, ResolvingInductive, DebuggingInductive, PTL DEF Spec

LEMMA PartHolds ==
  ASSUME NEW base \in Nat, NEW p, p.at \in Nat, NEW o \in Nat, NEW width \in Nat, NEW v,
         Part(program, base, p, o, width, v)
  PROVE  Holds(base + p.at + o, width, v)
  BY DEF Part, Holds

LEMMA DestArrived ==
  ASSUME NEW l, l.start \in Nat, NEW size \in Nat, Shaped(l, size), NEW i \in Ops(l),
         l.placed[i].item.b # "if", Instr(l.placed[i].item.b) \in DOMAIN DestAt,
         Reads(program, l, i, IF Relocation(l.placed[i].item.b) # 0 THEN l.start ELSE 0)
  PROVE  DestHolds(l, i)
  <1>1. PICK p : p = l.placed[i]
    OBVIOUS
  <1>2. PICK from \in Nat : from = l.start
    OBVIOUS
  <1>3. PICK by : by = IF Relocation(p.item.b) # 0 THEN from ELSE 0
    OBVIOUS
  <1>4. p.at \in Nat /\ p.item.b \in Emitted /\ p.item.b # "if" /\ Instr(p.item.b) \in DOMAIN DestAt
    BY <1>1, ShapedGives
  <1>5. Reads(program, l, i, by)
    BY <1>1, <1>2, <1>3
  <1>6. Aimed(program, l, i, by) \/ (p.item.b \in Labelled /\ Meant(l, i) = {})
    BY <1>1, <1>4, <1>5 DEF Reads
  <1>7. PICK o \in Nat : o = DestAt[Instr(p.item.b)]
    BY <1>4, Offsets
  <1>8. PICK a : a = from + p.at + o
    OBVIOUS
  <1>9. ASSUME Aimed(program, l, i, by)
        PROVE  \E v \in Wanted(l, i) : v \in Nat /\ Holds(a, Wide(p.item.b), v + by)
    <2>1. PICK v \in Wanted(l, i) : Part(program, from, p, o, Wide(p.item.b), v + by)
      BY <1>1, <1>2, <1>7, <1>9 DEF Aimed
    <2>2. v \in Nat
      BY WantedIsNat
    <2>3. PICK width \in Nat : width = Wide(p.item.b)
      BY DEF Wide
    <2>4. Holds(a, width, v + by)
      BY <1>4, <1>8, <2>1, <2>3, PartHolds
    <2> QED
      BY <2>2, <2>3, <2>4
  <1>10. a = l.start + l.placed[i].at + DestAt[Instr(l.placed[i].item.b)]
    BY <1>1, <1>2, <1>7, <1>8
  <1>11. CASE p.item.b \in Labelled
    <2>1. by = from /\ Wide(p.item.b) = 8
      BY <1>3, <1>4, <1>11, Relocations DEF Wide
    <2>2. ASSUME NEW j \in Meant(l, i), Meant(l, i) = {j}
          PROVE  Holds(a, 8, l.start + l.placed[j].at)
      <3>1. PICK v \in Nat : v \in Wanted(l, i) /\ Holds(a, Wide(p.item.b), v + by)
        BY <1>6, <1>9, <2>2
      <3>2. v = l.placed[j].at
        BY <1>1, <1>11, <2>2, <3>1 DEF Wanted
      <3>3. v + by = l.start + v
        BY <1>2, <2>1
      <3> QED
        BY <2>1, <3>1, <3>2, <3>3
    <2> QED
      BY <1>1, <1>10, <1>11, <2>2 DEF DestHolds
  <1>12. CASE p.item.b \notin Labelled
    <2>1. PICK v \in Nat : v \in Wanted(l, i) /\ Holds(a, Wide(p.item.b), v + by)
      BY <1>6, <1>9, <1>12
    <2>2. v = p.item.n
      BY <1>1, <1>12, <2>1 DEF Wanted
    <2>3. p.item.b \in {"jump", "goto", "litinteger", "call"}
      BY <1>4, <1>12, Relocations
    <2>4. v + by = IF p.item.b \in {"jump", "litinteger"} THEN p.item.n ELSE l.start + p.item.n
      <3>1. by = IF p.item.b \in {"jump", "litinteger"} THEN 0 ELSE from
        BY <1>3, <1>4, <2>3, Relocations
      <3> QED
        BY <1>2, <2>2, <3>1
    <2> QED
      BY <1>1, <1>10, <1>12, <2>1, <2>4 DEF DestHolds, Wide
  <1> QED
    BY <1>11, <1>12

LEMMA ConstArrived ==
  ASSUME NEW l, l.start \in Nat, NEW size \in Nat, Shaped(l, size), NEW i \in Ops(l),
         l.placed[i].item.b \in Constants, Given(program, pool, store, l, i)
  PROVE  ConstHolds(l, i)
  <1>1. PICK p : p = l.placed[i]
    OBVIOUS
  <1>2. p.at \in Nat /\ p.item.b \in Emitted /\ p.item.b # "if" /\ p.item.b \in Constants
    BY <1>1, ShapedGives DEF Constants
  <1>3. ConstAt[Instr(p.item.b)] = ConstantAt(p.item.b)
    BY <1>2, Rows DEF Row
  <1>4. PICK o \in Nat : o = ConstantAt(p.item.b)
    BY <1>2, Offsets
  <1>5. PICK id \in DOMAIN pool :
           /\ Part(program, l.start, p, ConstantAt(p.item.b), 4, id - 1)
           /\ IsGiven(pool, store, p, id)
    BY <1>1, GivenIs
  <1>6. PICK v : v = id - 1
    OBVIOUS
  <1>7. PICK from \in Nat : from = l.start
    OBVIOUS
  <1>8. Holds(from + p.at + o, 4, v)
    <2>1. 4 \in Nat /\ Part(program, from, p, o, 4, v)
      BY <1>4, <1>5, <1>6, <1>7
    <2> QED
      BY <1>2, <2>1, PartHolds
  <1>9. Holds(l.start + p.at + ConstAt[Instr(p.item.b)], 4, id - 1)
    BY <1>3, <1>4, <1>6, <1>7, <1>8
  <1>10. IF p.item.b = "set_string" THEN pool[id] = [type |-> "string", v |-> p.item.name]
         ELSE pool[id].type = "symbol" /\ store[pool[id].v] = p.item.name
    BY <1>5 DEF IsGiven
  <1> QED
    BY <1>1, <1>9, <1>10 DEF ConstHolds

LEMMA Decoded ==
  ASSUME NEW l, l.start \in Nat, NEW size \in Nat, Shaped(l, size), NEW i \in Ops(l),
         l.placed[i].item.b \notin {"if", "set_integer"}, ~ForwardCall(l),
         Arrived(program, pool, store, l)
  PROVE  Decodes(l, i)
  <1>1. PICK p : p = l.placed[i]
    OBVIOUS
  <1>2. p.at \in Nat /\ p.item.b \in Emitted /\ p.item.b # "if"
    BY <1>1, ShapedGives
  <1>3. /\ Reads(program, l, i, IF Relocation(p.item.b) # 0 THEN l.start ELSE 0)
        /\ p.item.b \in Constants \ {"set_integer"} => Given(program, pool, store, l, i)
    BY <1>1 DEF Arrived
  <1>4. Legible(program, l.start, p)
    BY <1>1, <1>2, <1>3 DEF Reads
  <1>5. /\ program[l.start + p.at] = Opcode[Instr(p.item.b)]
        /\ \A k \in DOMAIN RegsAt(Instr(p.item.b)) :
             program[l.start + p.at + RegsAt(Instr(p.item.b))[k]] = p.item.regs[k]
    BY <1>4 DEF Legible
  <1>6. Instr(p.item.b) \in DOMAIN DestAt => DestHolds(l, i)
    BY <1>1, <1>2, <1>3, DestArrived
  <1>7. Instr(p.item.b) \in DOMAIN ConstAt => ConstHolds(l, i)
    <2>1. Instr(p.item.b) \in DOMAIN ConstAt => p.item.b \in Constants \ {"set_integer"}
      BY <1>1, <1>2, Rows DEF Row
    <2> QED
      BY <1>1, <1>3, <2>1, ConstArrived
  <1>8. \A j \in Ops(l) : (j > i /\ \A k \in Ops(l) : k > i => j <= k) =>
                            l.placed[j].at = p.at + Size(Instr(p.item.b))
    <2>1. End(p) = p.at + Size(Instr(p.item.b))
      BY <1>2, Rows DEF Row, End
    <2>2. \A j \in Ops(l) : (j > i /\ \A k \in Ops(l) : k > i => j <= k) => l.placed[j].at = End(l.placed[i])
      BY DEF Shaped
    <2> QED
      BY <1>1, <2>1, <2>2
  <1> QED
    BY <1>1, <1>5, <1>6, <1>7, <1>8, Zenon DEF Decodes

\* Every instruction of a chunk that was loaded is read as its builder was asked for,
\* for every source, every chunk and program size and every instruction the generator
\* knows: InstructionsDecode, of hvm_gen_process_block, hvm_chunk_expand_if_necessary
\* and hvm_vm_load_chunk with its constants and relocations.
THEOREM InstructionsRead == Spec => []InstructionsDecode
  <1>1. ASSUME Decoding PROVE InstructionsDecode
    <2> SUFFICES ASSUME Settled, NEW m \in DOMAIN loaded, ~ForwardCall(loaded[m]),
                        NEW i \in Ops(loaded[m]), loaded[m].placed[i].item.b \notin {"if", "set_integer"}
        PROVE  Decodes(loaded[m], i)
      BY DEF InstructionsDecode
    <2>1. Arrived(program, pool, store, loaded[m])
      BY <1>1 DEF Settled, Decoding, Past
    <2>2. PICK size \in Nat : Shaped(loaded[m], size)
      BY <1>1 DEF Decoding, Apart
    <2>3. loaded[m].start \in Nat
      BY <1>1 DEF Decoding, Apart
    <2> QED
      BY <2>1, <2>2, <2>3, Decoded
  <1> QED
    BY <1>1, DecodingInductive, PTL
================================================================================
