-------------------------------- MODULE Generator --------------------------------
(***************************************************************************)
(* generator.c: builder calls put items into a block, and hvm_gen_chunk    *)
(* turns the root block into a chunk of byte code with its relocations,    *)
(* constants, subroutine symbols and debug entries.  Labels belong to      *)
(* their block; a use before the definition is patched at the block's end. *)
(*                                                                         *)
(* The chunk's data is kept byte by byte, because instructions overlap     *)
(* when an address is patched in the wrong place.  A name is a label, a    *)
(* subroutine, a symbol or a string.  The items of a nested block stand    *)
(* between the calls "block" and "end" (hvm_gen_push_block); blocks still  *)
(* open at the end of a source end there.                                  *)
(***************************************************************************)
EXTENDS Naturals, Sequences

CONSTANTS
  Programs,       \* sequences of chunk sources, each a sequence of builder calls
  Names,          \* labels, subroutine names, symbols, strings
  NULL,           \* the C null pointer
  ChunkInitial,   \* start_size of hvm_gen_chunk
  ChunkGrowth,    \* what hvm_chunk_expand adds
  Space           \* addresses and sizes are taken modulo Space (2^64)

VARIABLES
  sources,        \* chunk sources still to be built; the first is the present one
  pc,             \* "build", "process", "end" (of a block), "chunk", "loading", "exited"
  called,         \* builder calls made for the present source
  open,           \* build: for each open block the index of its last debug item, or 0
  items,          \* the items of the present chunk, nested blocks in line
  next,           \* process: items processed
  blocks,         \* process: the calls of hvm_gen_process_block, innermost last
  chunk,          \* the hvm_chunk, with the arrays of hvm_gen_data
  placed          \* history: where each instruction, label and debug item was put

genVars == <<sources, pc, called, open, items, next, blocks, chunk, placed>>

--------------------------------------------------------------------------------
(* Items: what a builder call asks for *)

OpsF == {"noop", "die", "clearcatch", "clearexception"}
OpsA1 == {"setexception", "throw", "gotoaddress", "return", "getclosure", "structnew"}
OpsA2 == {"move", "getlocal", "setlocal", "getglobal", "setglobal", "arraypush",
          "arrayshift", "arraypop", "arrayunshift", "arraylen", "arraynew"}
OpsA3 == {"arrayget", "arrayremove", "arrayset", "structget", "structdelete",
          "structset", "add", "lt", "gt", "lte", "gte", "eq", "and"}

Labelled == {"goto_label", "catch_label", "if_label", "litinteger_label", "call_label"}
Constants == {"callsymbolic", "callprimitive", "set_symbol", "set_string", "set_integer"}
DebugCalls == {"set_debug_line", "set_debug_entry", "set_debug_flags"}

\* item->type, that of the *_LABEL items being the one with their layout.  hvm_gen_if
\* asks for the layout of CATCH.
ItemType(b) ==
  CASE b \in OpsF -> "F" [] b \in OpsA1 -> "A1" [] b \in OpsA2 -> "A2" [] b \in OpsA3 -> "A3"
    [] b = "jump" -> "E"
    [] b \in {"goto", "goto_label"} -> "D1"
    [] b \in {"if", "catch_label"} -> "D2"
    [] b = "if_label" -> "D3"
    [] b \in {"litinteger", "litinteger_label"} -> "G"
    [] b \in {"set_symbol", "set_string", "set_integer"} -> "H"
    [] b \in {"call", "call_label"} -> "CALL"
    [] b \in {"callsymbolic", "callprimitive"} -> "CALLSYMBOLIC"
    [] b = "invokeaddress" -> "INVOKEADDRESS" [] b = "invokeprimitive" -> "INVOKEPRIMITIVE"

\* item->op
Instr(b) ==
  CASE b = "goto_label" -> "goto" [] b = "catch_label" -> "catch" [] b = "if_label" -> "if"
    [] b = "litinteger_label" -> "litinteger" [] b = "call_label" -> "call"
    [] b = "set_symbol" -> "setsymbol"
    [] b \in {"set_string", "set_integer"} -> "setstring"
    [] OTHER -> b

\* enum hvm_opcodes, as far as the generator uses it
Opcode ==
  [noop |-> 0, die |-> 1, jump |-> 2, goto |-> 3, return |-> 4, if |-> 5, call |-> 6,
   invokeaddress |-> 9, invokeprimitive |-> 10, setstring |-> 11, setsymbol |-> 15,
   getlocal |-> 17, setlocal |-> 18, getglobal |-> 19, setglobal |-> 20, add |-> 21,
   arraypush |-> 27, arrayshift |-> 28, arraypop |-> 29, arrayunshift |-> 30,
   arrayget |-> 31, arrayset |-> 32, arrayremove |-> 33, arraynew |-> 34, arraylen |-> 35,
   structset |-> 36, structget |-> 37, structdelete |-> 38, structnew |-> 39,
   litinteger |-> 41, move |-> 43, gotoaddress |-> 44, lt |-> 45, gt |-> 46, lte |-> 47,
   gte |-> 48, eq |-> 49, catch |-> 50, clearcatch |-> 51, clearexception |-> 52,
   setexception |-> 53, throw |-> 54, getclosure |-> 56, callsymbolic |-> 57,
   callprimitive |-> 58, and |-> 60]

\* A builder call, and the item it makes: registers, a name, a number (destination,
\* literal or line) and the flags of a debug entry.  INVOKESYMBOLIC and setstring have
\* items the generator does not know.
Unknown == {"invokesymbolic", "setstring"}
Emitted == OpsF \cup OpsA1 \cup OpsA2 \cup OpsA3 \cup Labelled \cup Constants
            \cup {"jump", "goto", "if", "litinteger", "call", "invokeaddress", "invokeprimitive"}
Builders == Emitted \cup Unknown \cup DebugCalls \cup {"label", "sub", "block", "end"}
\* The registers the layout of an item has, and the calls that pass a name.
Arity(b) ==
  CASE ItemType(b) \in {"F", "D1", "E"} -> 0
    [] ItemType(b) \in {"A2", "INVOKEADDRESS", "INVOKEPRIMITIVE"} -> 2
    [] ItemType(b) = "A3" -> 3
    [] OTHER -> 1
Named == Labelled \cup (Constants \ {"set_integer"}) \cup {"label", "sub"}
Call ==
  {c \in [b : Builders, regs : Seq(0 .. 255), name : Names \cup {NULL}, n : Nat] :
     /\ c.b \in Emitted => Len(c.regs) >= Arity(c.b)
     /\ c.b \in Named => c.name \in Names}
Item(b, regs, name, n, flags) ==
  [b |-> b, regs |-> regs, name |-> name, n |-> n, flags |-> flags]
NoDebug == Item("debug", <<>>, NULL, 0, 0)

ASSUME GeneratorAssumption ==
  /\ Programs \subseteq Seq(Seq(Call)) /\ NULL \notin Names
  \* The null pointer is no label's address.
  /\ NULL \notin Nat
  /\ ChunkInitial \in Nat /\ ChunkInitial > 16
  /\ ChunkGrowth \in Nat /\ ChunkGrowth >= 16 /\ Space \in Nat \ {0}

--------------------------------------------------------------------------------
(* Building *)

NewChunk ==
  [data |-> [a \in 0 .. ChunkInitial - 1 |-> 0], size |-> 0, capacity |-> ChunkInitial,
   relocs |-> <<>>, constants |-> <<>>, symbols |-> <<>>, debug_entries |-> <<>>]
NewBlock(id) ==
  [id |-> id, labels |-> [l \in Names |-> NULL], uses |-> <<>>, entry |-> NULL]

GenInit ==
  /\ sources \in Programs /\ sources # <<>>
  /\ pc = "build" /\ called = 0 /\ open = <<0>> /\ items = <<>>
  /\ next = 0 /\ blocks = <<>> /\ chunk = NewChunk /\ placed = <<>>

Top(stack) == stack[Len(stack)]
Pop(stack) == SubSeq(stack, 1, Len(stack) - 1)

\* The debug item a set_debug_line or set_debug_flags finds in its block.
LastDebug == IF Top(open) = 0 THEN NoDebug ELSE items[Top(open)]

PushItem(item, marks) ==
  /\ items' = Append(items, item)
  /\ open' = marks
  /\ called' = called + 1
  /\ UNCHANGED <<sources, pc, next, blocks, chunk, placed>>

\* The next builder call of the source is one of kinds.
NextCall == Head(sources)[called + 1]
Building(kinds) == pc = "build" /\ called < Len(Head(sources)) /\ NextCall.b \in kinds
Marked == [open EXCEPT ![Len(open)] = Len(items) + 1]

\* hvm_gen_push_block, and what comes after the items of the block
PushBlock == Building({"block"}) /\ PushItem(Item("block", <<>>, NULL, 0, 0), Append(open, 0))
LeaveBlock ==
  /\ Building({"end"}) /\ Len(open) > 1
  /\ PushItem(Item("end", <<>>, NULL, 0, 0), Pop(open))

SetDebugLine ==
  /\ Building({"set_debug_line"})
  /\ PushItem(Item("debug", <<>>, LastDebug.name, NextCall.n, LastDebug.flags), Marked)
SetDebugEntry ==
  /\ Building({"set_debug_entry"})
  /\ PushItem(Item("debug", <<>>, NextCall.name, NextCall.n, 0), Marked)
\* An assertion fails when the block has no debug entry yet.
SetDebugFlags ==
  /\ Building({"set_debug_flags"})
  /\ \/ Top(open) = 0 /\ pc' = "exited" /\ items' = items
     \/ /\ Top(open) # 0 /\ pc' = pc
        /\ items' = [items EXCEPT ![Top(open)].flags = NextCall.n]
  /\ called' = called + 1
  /\ UNCHANGED <<sources, open, next, blocks, chunk, placed>>

\* Every other builder pushes an item with its arguments.
PushOp ==
  /\ Building(Builders \ ({"block", "end"} \cup DebugCalls))
  /\ PushItem(Item(NextCall.b, NextCall.regs, NextCall.name, NextCall.n, 0), open)

\* hvm_gen_chunk, up to the processing of the root block
GenChunk ==
  /\ pc = "build" /\ called = Len(Head(sources))
  /\ pc' = "process" /\ next' = 0
  /\ blocks' = <<NewBlock(0)>> /\ chunk' = NewChunk /\ placed' = <<>>
  /\ UNCHANGED <<sources, called, open, items>>

--------------------------------------------------------------------------------
(* hvm_gen_process_block *)

Block == Top(blocks)
Current == items[next + 1]

\* hvm_chunk_expand_if_necessary, at the start of every iteration.  New memory is
\* written before it is read.
MustExpand_mNoSlack == chunk.size >= chunk.capacity
MustExpand == chunk.size + 16 >= chunk.capacity
Expanded ==
  IF ~MustExpand THEN chunk
  ELSE [chunk EXCEPT
          !.capacity = @ + ChunkGrowth,
          !.data = [a \in 0 .. chunk.capacity + ChunkGrowth - 1 |->
                      IF a < chunk.capacity THEN @[a] ELSE 0]]

\* The entry of a debug item that ends before address idx.
DebugEnd_mInclusive(idx) == idx
DebugEnd(idx) == (idx + Space - 1) % Space
Closed(chnk, entry) ==
  IF entry = NULL THEN chnk
  ELSE [chnk EXCEPT !.debug_entries =
          Append(@, [start |-> entry.ip, end |-> DebugEnd(chnk.size), line |-> entry.line,
                     name |-> entry.name, flags |-> entry.flags])]

\* One more item done, in the innermost block blk.
Processed(chnk, blk, what) ==
  /\ next' = next + 1
  /\ chunk' = chnk
  /\ blocks' = [blocks EXCEPT ![Len(blocks)] = blk]
  /\ placed' = Append(placed, what)
  /\ UNCHANGED <<sources, pc, called, open, items>>

\* The debug item in force: of the innermost block that has one.
InForce ==
  LET having == {i \in DOMAIN blocks : blocks[i].entry # NULL}
  IN IF having = {} THEN NULL
     ELSE blocks[CHOOSE i \in having : \A j \in having : j <= i].entry
Put(what) == [what |-> what, at |-> chunk.size, item |-> Current, block |-> Block.id,
              debug |-> InForce]

Processing(kinds) == pc = "process" /\ next < Len(items) /\ Current.b \in kinds

DebugItem ==
  /\ Processing({"debug"})
  /\ Processed(Closed(Expanded, Block.entry),
       [Block EXCEPT !.entry = [ip |-> chunk.size, line |-> Current.n, name |-> Current.name,
                                flags |-> Current.flags]],
       Put("debug"))

LabelItem ==
  /\ Processing({"label", "sub"})
  /\ Processed(
       IF Current.b = "label" THEN Expanded
       ELSE [Expanded EXCEPT !.symbols = Append(@, [index |-> chunk.size, name |-> Current.name])],
       [Block EXCEPT !.labels[Current.name] = chunk.size],
       Put("label"))

BlockItem ==
  /\ Processing({"block"})
  /\ next' = next + 1
  /\ chunk' = Expanded
  /\ blocks' = Append(blocks, NewBlock(next + 1))
  /\ UNCHANGED <<sources, pc, called, open, items, placed>>

\* Out of the loop over the items of the innermost block.
EndOfItems_mRunsPast ==
  /\ pc = "process"
  /\ \/ next = Len(items) /\ next' = next + 1
     \/ next < Len(items) /\ Current.b = "end" /\ next' = next + 1
  /\ pc' = "end"
  /\ UNCHANGED <<sources, called, open, items, blocks, chunk, placed>>
EndOfItems ==
  /\ pc = "process"
  /\ \/ next = Len(items) /\ next' = next
     \/ next < Len(items) /\ Current.b = "end" /\ next' = next + 1
  /\ pc' = "end"
  /\ UNCHANGED <<sources, called, open, items, blocks, chunk, placed>>

--------------------------------------------------------------------------------
(* Instructions *)

\* Byte k of an integer, which is below 2^32.
Byte(v, k) == IF k < 4 THEN (v \div 2 ^ (8 * k)) % 256 ELSE 0

\* memcpy of every field [at, width, val] to the address at + its own
Write(data, at, fields) ==
  [a \in DOMAIN data |->
     LET here == {f \in fields : a \in at + f.at .. at + f.at + f.width - 1}
     IN IF here = {} THEN data[a]
        ELSE LET f == CHOOSE f \in here : TRUE IN Byte(f.val, a - at - f.at)]

TagSize == 3
\* The WRITEs of an item of each type, its destination, literal or difference being
\* dest and its index in the chunk's constants sub.
Fields(item, dest, sub) ==
  LET Reg(at, k) == [at |-> at, width |-> 1, val |-> item.regs[k]]
      Word(at) == [at |-> at, width |-> 8, val |-> dest]
      Const(at) == [at |-> at, width |-> 4, val |-> sub]
      Tag == [at |-> 1, width |-> TagSize, val |-> 0]
      type == ItemType(item.b)
  IN {[at |-> 0, width |-> 1, val |-> Opcode[Instr(item.b)]]} \cup
     CASE type = "F" -> {}
       [] type = "A1" -> {Reg(1, 1)}
       [] type = "A2" -> {Reg(1, 1), Reg(2, 2)}
       [] type = "A3" -> {Reg(1, 1), Reg(2, 2), Reg(3, 3)}
       [] type = "D1" -> {Word(1)}
       [] type = "D2" -> {Word(1), Reg(9, 1)}
       [] type = "D3" -> {Reg(1, 1), Word(2)}
       [] type = "E" -> {[at |-> 1, width |-> 4, val |-> dest]}
       [] type = "G" -> {Reg(1, 1), Word(2)}
       [] type = "H" -> {Reg(1, 1), Const(2)}
       [] type = "CALL" -> {Tag, Word(1 + TagSize), Reg(9 + TagSize, 1)}
       [] type = "CALLSYMBOLIC" -> {Tag, Const(1 + TagSize), Reg(5 + TagSize, 1)}
       [] type = "INVOKEADDRESS" -> {Tag, Reg(1 + TagSize, 1), Reg(2 + TagSize, 2)}
       [] type = "INVOKEPRIMITIVE" -> {Reg(1, 1), Reg(2, 2)}

\* chunk->size += ...
Length(b) ==
  LET type == ItemType(b)
  IN CASE type = "F" -> 1 [] type = "A1" -> 2
       [] type \in {"A2", "INVOKEPRIMITIVE"} -> 3 [] type = "A3" -> 4
       [] type = "D1" -> 9 [] type \in {"D2", "D3", "G"} -> 10 [] type = "E" -> 5
       [] type = "H" -> 6 [] type = "CALL" -> 10 + TagSize
       [] type = "CALLSYMBOLIC" -> 6 + TagSize [] type = "INVOKEADDRESS" -> 3 + TagSize

\* RELOCATION: the offset of the address to be relocated, 0 for none
Relocation(b) ==
  CASE ItemType(b) \in {"D1", "D2"} -> 1
    [] ItemType(b) = "D3" \/ b = "litinteger_label" -> 2
    [] ItemType(b) = "CALL" -> 1 + TagSize
    [] OTHER -> 0

\* GET_LABEL: the offset that is noted for patching when the label is not known yet
UseAt_mOpOnly(b) == 1
UseAt(b) ==
  CASE b \in {"goto_label", "catch_label"} -> 1
    [] b \in {"if_label", "litinteger_label"} -> 2
    [] b = "call_label" -> TagSize + 4

\* Where a constant of the instruction is, and its type
ConstantAt(b) == IF ItemType(b) = "H" THEN 2 ELSE 1 + TagSize
ConstantType(b) ==
  CASE b = "set_string" -> "string" [] b = "set_integer" -> "int" [] OTHER -> "symbol"

\* The item of hvm_gen_if ends before the register that is read from it.
Overread == IF Current.b = "if" THEN {0, 255} ELSE {0}

OpItem ==
  /\ Processing(Emitted)
  /\ \E junk \in Overread :
     LET b == Current.b
         known == b \in Labelled /\ Block.labels[Current.name] # NULL
         dest == IF known THEN Block.labels[Current.name]
                 ELSE IF b \in Labelled THEN 0 ELSE Current.n
         item == IF b = "if" THEN [Current EXCEPT !.regs = <<junk>>] ELSE Current
         at == chunk.size
     IN Processed(
          [Expanded EXCEPT
             !.data = Write(@, at, Fields(item, dest, Len(chunk.constants))),
             !.size = @ + Length(b),
             !.relocs = IF Relocation(b) = 0 THEN @ ELSE Append(@, at + Relocation(b)),
             !.constants = IF b \notin Constants THEN @
                           ELSE Append(@, [index |-> at + ConstantAt(b),
                                           type |-> ConstantType(b), name |-> Current.name])],
          [Block EXCEPT
             !.uses = IF b \in Labelled /\ ~known
                      THEN <<[name |-> Current.name, idx |-> at + UseAt(b)]>> \o @ ELSE @],
          Put("op"))

\* An item type without a case: exit(1)
UnknownItem ==
  /\ Processing(Unknown)
  /\ pc' = "exited"
  /\ UNCHANGED <<sources, called, open, items, next, blocks, chunk, placed>>

--------------------------------------------------------------------------------
(* The end of a block *)

\* The next use of a label is patched; a label not found leaves it zero.
PatchLabel ==
  /\ pc = "end" /\ Block.uses # <<>>
  /\ LET use == Head(Block.uses)
         dest == Block.labels[use.name]
     IN chunk' = IF dest = NULL THEN chunk
                 ELSE [chunk EXCEPT !.data =
                         Write(@, use.idx, {[at |-> 0, width |-> 8, val |-> dest]})]
  /\ blocks' = [blocks EXCEPT ![Len(blocks)].uses = Tail(@)]
  /\ UNCHANGED <<sources, pc, called, open, items, next, placed>>

\* The last debug entry is closed; the root block ends the chunk.
CloseBlock ==
  /\ pc = "end" /\ Block.uses = <<>>
  /\ chunk' = Closed(chunk, Block.entry)
  /\ blocks' = Pop(blocks)
  /\ pc' = IF Len(blocks) = 1 THEN "chunk" ELSE "process"
  /\ UNCHANGED <<sources, called, open, items, next, placed>>

Generate ==
  \/ PushBlock \/ LeaveBlock \/ SetDebugLine \/ SetDebugEntry \/ SetDebugFlags \/ PushOp
  \/ GenChunk
  \/ DebugItem \/ LabelItem \/ BlockItem \/ OpItem \/ UnknownItem
  \/ EndOfItems \/ PatchLabel \/ CloseBlock
================================================================================
