----------------------------- MODULE GeneratorProofs -----------------------------
(***************************************************************************)
(* Lemmas about Generator, for every source, set of names and chunk size:  *)
(* what its operators compute, and the invariant of building a chunk.      *)
(***************************************************************************)
EXTENDS Generator, Numbers

--------------------------------------------------------------------------------
(* Bytes *)

LEMMA ByteFacts ==
  ASSUME NEW v \in Nat, NEW k \in Nat
  PROVE  Byte(v, k) \in 0 .. 255
  <1>1. 8 * k \in Nat
    OBVIOUS
  <1>2. 2 ^ (8 * k) \in Nat \ {0}
    BY <1>1, PowerPositive
  <1>3. \A p \in Nat \ {0} : v \div p \in Nat
    OBVIOUS
  <1>a. \A q \in Nat : q % 256 \in 0 .. 255
    OBVIOUS
  <1>5. v \div 2 ^ (8 * k) \in Nat
    BY <1>2, <1>3
  <1>6. (v \div 2 ^ (8 * k)) % 256 \in 0 .. 255
    BY <1>a, <1>5
  <1> QED
    BY <1>6 DEF Byte

\* A field of an instruction: where it is, how wide, and its value.
Field == [at : Nat, width : Nat, val : Nat]

LEMMA WriteFacts ==
  ASSUME NEW cap \in Nat, NEW data \in [0 .. cap - 1 -> 0 .. 255], NEW at \in Nat,
         NEW fields \in SUBSET Field
  PROVE  Write(data, at, fields) \in [0 .. cap - 1 -> 0 .. 255]
  <1> DEFINE here(a) == {f \in fields : a \in at + f.at .. at + f.at + f.width - 1}
             byte(a) == LET f == CHOOSE f \in here(a) : TRUE IN Byte(f.val, a - at - f.at)
  <1>1. ASSUME NEW a \in 0 .. cap - 1, here(a) # {} PROVE byte(a) \in 0 .. 255
    <2> DEFINE f == CHOOSE f \in here(a) : TRUE
    <2>1. f \in here(a)
      BY <1>1
    <2>2. f \in Field /\ a \in at + f.at .. at + f.at + f.width - 1
      BY <2>1
    <2> HIDE DEF f
    <2>3. f.at \in Nat /\ f.val \in Nat /\ f.width \in Nat
      BY <2>2 DEF Field
    <2>4. a - at - f.at \in Nat
      BY <2>2, <2>3
    <2>5. Byte(f.val, a - at - f.at) \in 0 .. 255
      BY <2>3, <2>4, ByteFacts
    <2> QED
      BY <2>5 DEF f
  <1>2. Write(data, at, fields) = [a \in 0 .. cap - 1 |-> IF here(a) = {} THEN data[a] ELSE byte(a)]
    BY DEF Write
  <1> HIDE DEF here, byte
  <1> DEFINE val(a) == IF here(a) = {} THEN data[a] ELSE byte(a)
  <1>3. \A a \in 0 .. cap - 1 : val(a) \in 0 .. 255
    BY <1>1
  <1>4. Write(data, at, fields) = [a \in 0 .. cap - 1 |-> val(a)]
    BY <1>2
  <1> HIDE DEF val
  <1> QED
    BY <1>3, <1>4

LEMMA OpcodeFacts ==
  ASSUME NEW b \in Emitted
  PROVE  Opcode[Instr(b)] \in Nat
  BY DEF Emitted, OpsF, OpsA1, OpsA2, OpsA3, Labelled, Constants, Instr, Opcode

\* What an item looks like by its type.
LEMMA TypeFacts ==
  ASSUME NEW b \in Emitted
  PROVE  /\ ItemType(b) \in {"F", "A1", "A2", "A3", "E", "D1", "D2", "D3", "G", "H", "CALL",
                             "CALLSYMBOLIC", "INVOKEADDRESS", "INVOKEPRIMITIVE"}
         /\ b \in Constants => ItemType(b) \in {"H", "CALLSYMBOLIC"}
         /\ b \in Labelled => ItemType(b) \in {"D1", "D2", "D3", "G", "CALL"}
         /\ b = "litinteger_label" => ItemType(b) = "G"
  <1>1. b \in Labelled => ItemType(b) \in {"D1", "D2", "D3", "G", "CALL"}
    BY DEF OpsF, OpsA1, OpsA2, OpsA3, Labelled, ItemType
  <1>2. b \in Constants => ItemType(b) \in {"H", "CALLSYMBOLIC"}
    BY DEF OpsF, OpsA1, OpsA2, OpsA3, Constants, ItemType
  <1>3. b = "litinteger_label" => ItemType(b) = "G"
    BY DEF OpsF, OpsA1, OpsA2, OpsA3, ItemType
  <1>a. b \in OpsF \cup OpsA1 \cup OpsA2 \cup OpsA3 => ItemType(b) \in {"F", "A1", "A2", "A3"}
    <2>1. b \in OpsF => ItemType(b) = "F"
      BY DEF OpsF, OpsA1, OpsA2, OpsA3, ItemType
    <2>2. b \in OpsA1 => ItemType(b) = "A1"
      BY DEF OpsF, OpsA1, OpsA2, OpsA3, ItemType
    <2>3. b \in OpsA2 => ItemType(b) = "A2"
      BY DEF OpsF, OpsA1, OpsA2, OpsA3, ItemType
    <2>4. b \in OpsA3 => ItemType(b) = "A3"
      BY DEF OpsF, OpsA1, OpsA2, OpsA3, ItemType
    <2> QED
      BY <2>1, <2>2, <2>3, <2>4
  <1>5. b \in {"jump", "goto", "if", "litinteger", "call", "invokeaddress", "invokeprimitive"} =>
          ItemType(b) \in {"E", "D1", "D2", "G", "CALL", "INVOKEADDRESS", "INVOKEPRIMITIVE"}
    BY DEF OpsF, OpsA1, OpsA2, OpsA3, ItemType
  <1> QED
    BY <1>1, <1>2, <1>3, <1>a, <1>5 DEF Emitted

LEMMA LayoutFacts ==
  ASSUME NEW b \in Emitted
  PROVE  /\ Length(b) \in 1 .. 13
         /\ Relocation(b) \in Nat /\ (Relocation(b) # 0 => Relocation(b) + 8 <= Length(b))
         /\ Arity(b) \in 0 .. 3
         /\ b \in Constants => ConstantAt(b) \in Nat /\ ConstantAt(b) + 4 <= Length(b)
         /\ b \in Labelled => UseAt(b) \in Nat /\ UseAt(b) + 8 <= 15
  <1>1. Length(b) \in 1 .. 13
    BY TypeFacts DEF Length, TagSize
  <1>2. Relocation(b) \in Nat /\ (Relocation(b) # 0 => Relocation(b) + 8 <= Length(b))
    BY TypeFacts DEF Length, Relocation, TagSize
  <1>3. b \in Constants => ConstantAt(b) \in Nat /\ ConstantAt(b) + 4 <= Length(b)
    BY TypeFacts DEF Length, ConstantAt, TagSize
  <1>a. b \in Labelled => UseAt(b) \in Nat /\ UseAt(b) + 8 <= 15
    BY DEF Labelled, UseAt, TagSize
  <1>5. Arity(b) \in 0 .. 3
    BY TypeFacts DEF Arity
  <1> QED
    BY <1>1, <1>2, <1>3, <1>a, <1>5

LEMMA Elements ==
  ASSUME NEW S, NEW t \in Seq(S), NEW i \in 1 .. Len(t)
  PROVE  t[i] \in S
  OBVIOUS

LEMMA HeadTail ==
  ASSUME NEW S, NEW t \in Seq(S), t # <<>>
  PROVE  Head(t) \in S /\ Tail(t) \in Seq(S)
  OBVIOUS

LEMMA AppendFacts ==
  ASSUME NEW S, NEW t \in Seq(S), NEW x \in S
  PROVE  Append(t, x) \in Seq(S) /\ Len(Append(t, x)) = Len(t) + 1 /\ Append(t, x) # <<>>
  <1>1. Append(t, x) \in Seq(S) /\ Len(Append(t, x)) = Len(t) + 1 /\ Len(t) \in Nat
    OBVIOUS
  <1>2. Len(Append(t, x)) # 0 /\ Len(<<>>) = 0
    BY <1>1
  <1> QED
    BY <1>1, <1>2

LEMMA PopFacts ==
  ASSUME NEW S, NEW t \in Seq(S), t # <<>>
  PROVE  /\ Pop(t) \in Seq(S) /\ Len(Pop(t)) = Len(t) - 1 /\ Len(t) \in Nat \ {0}
         /\ Len(t) # 1 => Pop(t) # <<>>
  <1>1. Len(t) \in Nat /\ Len(t) # 0
    OBVIOUS
  <1>2. 1 \in 1 .. Len(t) + 1 /\ Len(t) - 1 \in 0 .. Len(t)
    BY <1>1
  <1>3. Pop(t) = [i \in 1 .. Len(t) - 1 |-> t[i]]
    BY <1>1 DEF Pop
  <1>4. \A i \in 1 .. Len(t) - 1 : t[i] \in S
    BY <1>1
  <1>5. Pop(t) \in Seq(S) /\ Len(Pop(t)) = Len(t) - 1
    BY <1>1, <1>2, <1>3, <1>4
  <1>6. Len(<<>>) = 0
    OBVIOUS
  <1> QED
    BY <1>1, <1>5, <1>6

LEMMA Registers ==
  ASSUME NEW t \in Seq(0 .. 255), NEW i \in 1 .. Len(t)
  PROVE  t[i] \in Nat
  <1> DEFINE S == 0 .. 255
  <1>1. t \in Seq(S)
    OBVIOUS
  <1>2. S \subseteq Nat
    OBVIOUS
  <1> HIDE DEF S
  <1> QED
    BY <1>1, <1>2, Elements

LEMMA FieldsFacts ==
  ASSUME NEW item, item.b \in Emitted, item.regs \in Seq(0 .. 255),
         Len(item.regs) >= Arity(item.b), NEW dest \in Nat, NEW sub \in Nat
  PROVE  Fields(item, dest, sub) \in SUBSET Field
  <1> DEFINE b == item.b
             R(at, k) == [at |-> at, width |-> 1, val |-> item.regs[k]]
             Of(type) ==
               CASE type = "F" -> {}
                 [] type = "A1" -> {R(1, 1)}
                 [] type = "A2" -> {R(1, 1), R(2, 2)}
                 [] type = "A3" -> {R(1, 1), R(2, 2), R(3, 3)}
                 [] type = "D1" -> {[at |-> 1, width |-> 8, val |-> dest]}
                 [] type = "D2" -> {[at |-> 1, width |-> 8, val |-> dest], R(9, 1)}
                 [] type = "D3" -> {R(1, 1), [at |-> 2, width |-> 8, val |-> dest]}
                 [] type = "E" -> {[at |-> 1, width |-> 4, val |-> dest]}
                 [] type = "G" -> {R(1, 1), [at |-> 2, width |-> 8, val |-> dest]}
                 [] type = "H" -> {R(1, 1), [at |-> 2, width |-> 4, val |-> sub]}
                 [] type = "CALL" -> {[at |-> 1, width |-> TagSize, val |-> 0],
                                      [at |-> 1 + TagSize, width |-> 8, val |-> dest],
                                      R(9 + TagSize, 1)}
                 [] type = "CALLSYMBOLIC" -> {[at |-> 1, width |-> TagSize, val |-> 0],
                                              [at |-> 1 + TagSize, width |-> 4, val |-> sub],
                                              R(5 + TagSize, 1)}
                 [] type = "INVOKEADDRESS" -> {[at |-> 1, width |-> TagSize, val |-> 0],
                                               R(1 + TagSize, 1), R(2 + TagSize, 2)}
                 [] type = "INVOKEPRIMITIVE" -> {R(1, 1), R(2, 2)}
  <1>1. Fields(item, dest, sub) = {[at |-> 0, width |-> 1, val |-> Opcode[Instr(b)]]} \cup Of(ItemType(b))
    BY DEF Fields
  <1>2. [at |-> 0, width |-> 1, val |-> Opcode[Instr(b)]] \in Field
    BY OpcodeFacts DEF Field
  <1>a. ASSUME NEW at \in Nat, NEW w \in Nat, NEW v \in Nat
        PROVE  [at |-> at, width |-> w, val |-> v] \in Field
    BY DEF Field
  <1>3. ASSUME NEW at \in Nat, NEW k \in 1 .. Arity(b) PROVE R(at, k) \in Field
    <2>2. Arity(b) \in 0 .. 3 /\ Len(item.regs) \in Nat
      BY LayoutFacts
    <2>3. k \in 1 .. Len(item.regs)
      BY <2>2
    <2>4. item.regs[k] \in Nat
      BY <2>3, Registers
    <2> QED
      BY <2>4, <1>a
  <1> HIDE DEF R
  <1>5. ItemType(b) \in {"F", "E", "D1"} => Of(ItemType(b)) \subseteq Field
    BY <1>a
  <1>6. ItemType(b) \in {"A1", "D2", "D3", "G", "H", "CALL", "CALLSYMBOLIC"} =>
          Of(ItemType(b)) \subseteq Field
    <2> SUFFICES ASSUME ItemType(b) \in {"A1", "D2", "D3", "G", "H", "CALL", "CALLSYMBOLIC"}
                 PROVE  Of(ItemType(b)) \subseteq Field
      OBVIOUS
    <2>1. Arity(b) = 1
      BY DEF Arity
    <2>2. \A at \in Nat : R(at, 1) \in Field
      BY <2>1, <1>3
    <2>8. /\ R(1, 1) \in Field /\ R(9, 1) \in Field
          /\ [at |-> 1, width |-> 8, val |-> dest] \in Field
          /\ [at |-> 2, width |-> 8, val |-> dest] \in Field
          /\ [at |-> 2, width |-> 4, val |-> sub] \in Field
      BY <2>2, <1>a
    <2>3. CASE ItemType(b) \in {"A1", "D2", "D3"}
      <3>1. Of("A1") \subseteq Field /\ Of("D2") \subseteq Field /\ Of("D3") \subseteq Field
        BY <2>8
      <3> QED
        BY <2>3, <3>1
    <2>4. CASE ItemType(b) \in {"G", "H"}
      <3>1. Of("G") \subseteq Field /\ Of("H") \subseteq Field
        BY <2>8
      <3> QED
        BY <2>4, <3>1
    <2>5. CASE ItemType(b) = "CALL"
      <3>1. [at |-> 1, width |-> TagSize, val |-> 0] \in Field
        BY <1>a DEF TagSize
      <3>2. [at |-> 1 + TagSize, width |-> 8, val |-> dest] \in Field
        BY <1>a, <2>2 DEF TagSize
      <3>3. R(9 + TagSize, 1) \in Field
        BY <1>a, <2>2 DEF TagSize
      <3>4. Of(ItemType(b)) = {[at |-> 1, width |-> TagSize, val |-> 0], [at |-> 1 + TagSize, width |-> 8, val |-> dest],
                               R(9 + TagSize, 1)}
        BY <2>5
      <3> QED
        BY <3>1, <3>2, <3>3, <3>4
    <2>6. CASE ItemType(b) = "CALLSYMBOLIC"
      <3>1. [at |-> 1, width |-> TagSize, val |-> 0] \in Field
        BY <1>a DEF TagSize
      <3>2. [at |-> 1 + TagSize, width |-> 4, val |-> sub] \in Field
        BY <1>a, <2>2 DEF TagSize
      <3>3. R(5 + TagSize, 1) \in Field
        BY <1>a, <2>2 DEF TagSize
      <3>4. Of(ItemType(b)) = {[at |-> 1, width |-> TagSize, val |-> 0], [at |-> 1 + TagSize, width |-> 4, val |-> sub],
                               R(5 + TagSize, 1)}
        BY <2>6
      <3> QED
        BY <3>1, <3>2, <3>3, <3>4
    <2> QED
      BY <2>3, <2>4, <2>5, <2>6
  <1>7. ItemType(b) \in {"A2", "INVOKEADDRESS", "INVOKEPRIMITIVE"} => Of(ItemType(b)) \subseteq Field
    <2> SUFFICES ASSUME ItemType(b) \in {"A2", "INVOKEADDRESS", "INVOKEPRIMITIVE"}
                 PROVE  Of(ItemType(b)) \subseteq Field
      OBVIOUS
    <2>1. Arity(b) = 2
      BY DEF Arity
    <2>2. \A at \in Nat : R(at, 1) \in Field /\ R(at, 2) \in Field
      BY <2>1, <1>3
    <2>3. CASE ItemType(b) \in {"A2", "INVOKEPRIMITIVE"}
      BY <2>2, <2>3
    <2>4. CASE ItemType(b) = "INVOKEADDRESS"
      <3>1. [at |-> 1, width |-> TagSize, val |-> 0] \in Field
        BY <1>a DEF TagSize
      <3>2. R(1 + TagSize, 1) \in Field
        BY <1>a, <2>2 DEF TagSize
      <3>3. R(2 + TagSize, 2) \in Field
        BY <1>a, <2>2 DEF TagSize
      <3>4. Of(ItemType(b)) = {[at |-> 1, width |-> TagSize, val |-> 0], R(1 + TagSize, 1),
                               R(2 + TagSize, 2)}
        BY <2>4
      <3> QED
        BY <3>1, <3>2, <3>3, <3>4
    <2> QED
      BY <2>3, <2>4
  <1>8. ItemType(b) = "A3" => Of(ItemType(b)) \subseteq Field
    <2> SUFFICES ASSUME ItemType(b) = "A3" PROVE Of(ItemType(b)) \subseteq Field
      OBVIOUS
    <2>1. Arity(b) = 3
      BY DEF Arity
    <2> QED
      BY <2>1, <1>3
  <1> HIDE DEF Of, b
  <1>9. Of(ItemType(b)) \subseteq Field
    BY <1>5, <1>6, <1>7, <1>8, TypeFacts DEF b
  <1> QED
    BY <1>1, <1>2, <1>9

--------------------------------------------------------------------------------
(* The parts of a chunk under construction *)

\* Offsets at which width bytes are inside size.
Within(size, width) == {a \in Nat : a + width <= size}
\* What PushItem pushes: the arguments of a well-formed call, or a debug item.
Items ==
  {i \in [b : Builders \cup {"debug"}, regs : Seq(0 .. 255), name : Names \cup {NULL},
          n : Nat, flags : Nat] :
     /\ i.b \in Emitted => Len(i.regs) >= Arity(i.b)
     /\ i.b \in Named => i.name \in Names}
Symbol == [index : Nat, name : Names]
Constant(size) ==
  {c \in [index : Within(size, 4), type : {"string", "int", "symbol"}, name : Names \cup {NULL}] :
     c.type = "symbol" => c.name \in Names}
DebugEntry == [start : Nat, end : Nat, line : Nat, name : Names \cup {NULL}, flags : Nat]
Entry == [ip : Nat, line : Nat, name : Names \cup {NULL}, flags : Nat]
Uses(capacity) == [name : Names, idx : Within(capacity, 8)]
OpenBlock(capacity) ==
  [id : Nat, labels : [Names -> Nat \cup {NULL}], uses : Seq(Uses(capacity)), entry : Entry \cup {NULL}]

\* A chunk whose instructions, relocations and constants are inside it.
IsChunk(c) ==
  /\ c = [data |-> c.data, size |-> c.size, capacity |-> c.capacity, relocs |-> c.relocs,
          constants |-> c.constants, symbols |-> c.symbols, debug_entries |-> c.debug_entries]
  /\ c.size \in Nat /\ c.capacity \in Nat /\ c.size <= c.capacity
  /\ c.data \in [0 .. c.capacity - 1 -> 0 .. 255]
  /\ c.relocs \in Seq(Within(c.size, 8))
  /\ c.constants \in Seq(Constant(c.size))
  /\ c.symbols \in Seq(Symbol)
  /\ c.debug_entries \in Seq(DebugEntry)

LEMMA SeqMonotone ==
  ASSUME NEW S, NEW T, S \subseteq T, NEW t \in Seq(S)
  PROVE  t \in Seq(T)
  OBVIOUS

LEMMA WithinMonotone ==
  ASSUME NEW m \in Nat, NEW n \in Nat, m <= n, NEW w \in Nat
  PROVE  Within(m, w) \subseteq Within(n, w)
  BY DEF Within

LEMMA ConstantMonotone ==
  ASSUME NEW m \in Nat, NEW n \in Nat, m <= n
  PROVE  Constant(m) \subseteq Constant(n)
  <1>1. Within(m, 4) \subseteq Within(n, 4)
    BY WithinMonotone
  <1> QED
    BY <1>1 DEF Constant

LEMMA OpenBlockMonotone ==
  ASSUME NEW m \in Nat, NEW n \in Nat, m <= n
  PROVE  OpenBlock(m) \subseteq OpenBlock(n)
  <1>1. Within(m, 8) \subseteq Within(n, 8)
    BY WithinMonotone
  <1>2. Uses(m) \subseteq Uses(n)
    BY <1>1 DEF Uses
  <1>3. Seq(Uses(m)) \subseteq Seq(Uses(n))
    BY <1>2, SeqMonotone
  <1> QED
    BY <1>3 DEF OpenBlock

LEMMA ChunkOf ==
  ASSUME NEW size \in Nat, NEW capacity \in Nat, size <= capacity,
         NEW data \in [0 .. capacity - 1 -> 0 .. 255], NEW relocs \in Seq(Within(size, 8)),
         NEW constants \in Seq(Constant(size)), NEW symbols \in Seq(Symbol),
         NEW debug_entries \in Seq(DebugEntry), NEW c,
         c = [data |-> data, size |-> size, capacity |-> capacity, relocs |-> relocs,
              constants |-> constants, symbols |-> symbols, debug_entries |-> debug_entries]
  PROVE  IsChunk(c)
  <1>1. /\ c.data = data /\ c.size = size /\ c.capacity = capacity /\ c.relocs = relocs
        /\ c.constants = constants /\ c.symbols = symbols /\ c.debug_entries = debug_entries
    OBVIOUS
  <1> QED
    BY <1>1, Zenon DEF IsChunk

LEMMA ChunkGrown ==
  ASSUME NEW capacity1, NEW data1, NEW c,
         IsChunk(c)
  PROVE  [c EXCEPT !.capacity = capacity1, !.data = data1] =
           [data |-> data1, size |-> c.size, capacity |-> capacity1, relocs |-> c.relocs,
            constants |-> c.constants, symbols |-> c.symbols, debug_entries |-> c.debug_entries]
  <1>0. c = [data |-> c.data, size |-> c.size, capacity |-> c.capacity, relocs |-> c.relocs,
              constants |-> c.constants, symbols |-> c.symbols, debug_entries |-> c.debug_entries]
    BY DEF IsChunk
  <1> DEFINE c1 == [c EXCEPT !.capacity = capacity1]
  <1>1. c1 = [data |-> c.data, size |-> c.size, capacity |-> capacity1, relocs |-> c.relocs,
              constants |-> c.constants, symbols |-> c.symbols, debug_entries |-> c.debug_entries]
    BY <1>0
  <1> HIDE DEF c1
  <1>2. [c1 EXCEPT !.data = data1] =
          [data |-> data1, size |-> c.size, capacity |-> capacity1, relocs |-> c.relocs,
           constants |-> c.constants, symbols |-> c.symbols, debug_entries |-> c.debug_entries]
    BY <1>1
  <1> QED
    BY <1>2, Zenon DEF c1

Appended(c, data, size, relocs, constants) ==
  [c EXCEPT !.data = data, !.size = size, !.relocs = relocs, !.constants = constants]

LEMMA ChunkAppended ==
  ASSUME NEW data1, NEW size1, NEW relocs1, NEW constants1, NEW c,
         IsChunk(c)
  PROVE  Appended(c, data1, size1, relocs1, constants1) =
           [data |-> data1, size |-> size1, capacity |-> c.capacity, relocs |-> relocs1,
            constants |-> constants1, symbols |-> c.symbols, debug_entries |-> c.debug_entries]
  <1>0. c = [data |-> c.data, size |-> c.size, capacity |-> c.capacity, relocs |-> c.relocs,
              constants |-> c.constants, symbols |-> c.symbols, debug_entries |-> c.debug_entries]
    BY DEF IsChunk
  <1> DEFINE c1 == [c EXCEPT !.data = data1]
             c2 == [c1 EXCEPT !.size = size1]
             c3 == [c2 EXCEPT !.relocs = relocs1]
  <1>1. c1 = [data |-> data1, size |-> c.size, capacity |-> c.capacity, relocs |-> c.relocs,
              constants |-> c.constants, symbols |-> c.symbols, debug_entries |-> c.debug_entries]
    BY <1>0
  <1> HIDE DEF c1
  <1>2. c2 = [data |-> data1, size |-> size1, capacity |-> c.capacity, relocs |-> c.relocs,
              constants |-> c.constants, symbols |-> c.symbols, debug_entries |-> c.debug_entries]
    BY <1>1
  <1> HIDE DEF c2
  <1>3. c3 = [data |-> data1, size |-> size1, capacity |-> c.capacity, relocs |-> relocs1,
              constants |-> c.constants, symbols |-> c.symbols, debug_entries |-> c.debug_entries]
    BY <1>2
  <1> HIDE DEF c3
  <1>4. [c3 EXCEPT !.constants = constants1] =
          [data |-> data1, size |-> size1, capacity |-> c.capacity, relocs |-> relocs1,
           constants |-> constants1, symbols |-> c.symbols, debug_entries |-> c.debug_entries]
    BY <1>3
  <1> QED
    BY <1>4, Zenon DEF Appended, c1, c2, c3

LEMMA NewChunkFacts == IsChunk(NewChunk)
  BY GeneratorAssumption DEF IsChunk, NewChunk

LEMMA ExpandedFacts ==
  ASSUME IsChunk(chunk)
  PROVE  /\ IsChunk(Expanded)
         /\ Expanded.size = chunk.size /\ chunk.capacity <= Expanded.capacity
         /\ chunk.size + 16 <= Expanded.capacity
         /\ Expanded.relocs = chunk.relocs /\ Expanded.constants = chunk.constants
         /\ Expanded.symbols = chunk.symbols /\ Expanded.debug_entries = chunk.debug_entries
  <1>1. CASE ~MustExpand
    BY <1>1 DEF Expanded, MustExpand, IsChunk
  <1>2. CASE MustExpand
    <2>0. chunk = [data |-> chunk.data, size |-> chunk.size, capacity |-> chunk.capacity, relocs |-> chunk.relocs,
                    constants |-> chunk.constants, symbols |-> chunk.symbols,
                    debug_entries |-> chunk.debug_entries]
      BY DEF IsChunk
    <2>a. /\ chunk.size \in Nat /\ chunk.capacity \in Nat /\ chunk.size <= chunk.capacity
          /\ chunk.data \in [0 .. chunk.capacity - 1 -> 0 .. 255]
      BY DEF IsChunk
    <2> DEFINE cap == chunk.capacity + ChunkGrowth
               data == [a \in 0 .. chunk.capacity + ChunkGrowth - 1 |->
                          IF a < chunk.capacity THEN chunk.data[a] ELSE 0]
               e == [data |-> data, size |-> chunk.size, capacity |-> cap, relocs |-> chunk.relocs,
                     constants |-> chunk.constants, symbols |-> chunk.symbols,
                     debug_entries |-> chunk.debug_entries]
    <2>1. Expanded = [chunk EXCEPT !.capacity = cap, !.data = data]
      BY <1>2 DEF Expanded
    <2>2. [chunk EXCEPT !.capacity = cap, !.data = data] = e
      <3> HIDE DEF data, cap
      <3> QED
        BY ChunkGrown, Zenon
    <2>3. cap \in Nat /\ chunk.capacity <= cap /\ chunk.size + 16 <= cap
      <3>1. \A m, n, g \in Nat : m <= n /\ g >= 16 => n + g \in Nat /\ n <= n + g /\ m + 16 <= n + g
        OBVIOUS
      <3>2. ChunkGrowth \in Nat /\ ChunkGrowth >= 16
        BY GeneratorAssumption
      <3> QED
        BY <2>a, <3>1, <3>2
    <2>4. data \in [0 .. cap - 1 -> 0 .. 255]
      <3>1. 0 .. chunk.capacity + ChunkGrowth - 1 = 0 .. cap - 1
        <4>1. \A n, g \in Nat : 0 .. n + g - 1 = 0 .. (n + g) - 1
          OBVIOUS
        <4>2. ChunkGrowth \in Nat
          BY GeneratorAssumption
        <4> QED
          BY <2>a, <4>1, <4>2
      <3>2. ASSUME NEW a \in 0 .. cap - 1
            PROVE  (IF a < chunk.capacity THEN chunk.data[a] ELSE 0) \in 0 .. 255
        <4> HIDE DEF cap
        <4>1. CASE a < chunk.capacity
          <5>1. a \in 0 .. chunk.capacity - 1
            BY <2>a, <4>1, <2>3
          <5> QED
            BY <4>1, <5>1, <2>a
        <4> QED
          BY <4>1
      <3> HIDE DEF cap
      <3> QED
        BY <3>1, <3>2
    <2> HIDE DEF data, cap
    <2>5. IsChunk(e)
      <3>1. chunk.size <= cap
        BY <2>a, <2>3
      <3>2. /\ chunk.relocs \in Seq(Within(chunk.size, 8)) /\ chunk.symbols \in Seq(Symbol)
            /\ chunk.constants \in Seq(Constant(chunk.size))
            /\ chunk.debug_entries \in Seq(DebugEntry)
        BY DEF IsChunk
      <3> QED
        BY <2>a, <2>3, <2>4, <3>1, <3>2, ChunkOf
    <2> QED
      BY <2>1, <2>2, <2>3, <2>5
  <1> QED
    BY <1>1, <1>2

LEMMA ClosedFacts ==
  ASSUME NEW c, IsChunk(c), NEW entry \in Entry \cup {NULL}
  PROVE  /\ IsChunk(Closed(c, entry))
         /\ Closed(c, entry).size = c.size /\ Closed(c, entry).capacity = c.capacity
         /\ Closed(c, entry).symbols = c.symbols
         /\ Closed(c, entry).debug_entries =
              IF entry = NULL THEN c.debug_entries
              ELSE Append(c.debug_entries,
                          [start |-> entry.ip, end |-> DebugEnd(c.size), line |-> entry.line,
                           name |-> entry.name, flags |-> entry.flags])
  <1>1. CASE entry = NULL
    BY <1>1 DEF Closed
  <1>2. CASE entry # NULL
    <2>0. c = [data |-> c.data, size |-> c.size, capacity |-> c.capacity, relocs |-> c.relocs,
                    constants |-> c.constants, symbols |-> c.symbols,
                    debug_entries |-> c.debug_entries]
      BY DEF IsChunk
    <2> DEFINE de == [start |-> entry.ip, end |-> DebugEnd(c.size), line |-> entry.line,
                      name |-> entry.name, flags |-> entry.flags]
               e == [data |-> c.data, size |-> c.size, capacity |-> c.capacity, relocs |-> c.relocs,
                     constants |-> c.constants, symbols |-> c.symbols,
                     debug_entries |-> Append(c.debug_entries, de)]
    <2>1. Closed(c, entry) = [c EXCEPT !.debug_entries = Append(@, de)]
      BY <1>2 DEF Closed
    <2>2. [c EXCEPT !.debug_entries = Append(@, de)] = e
      <3> HIDE DEF de
      <3> QED
        BY <2>0, SMTT(30)
    <2>3. DebugEnd(c.size) \in Nat
      BY GeneratorAssumption DEF DebugEnd, IsChunk
    <2>4. de \in DebugEntry
      BY <1>2, <2>3, SMTT(30) DEF Entry, DebugEntry
    <2> HIDE DEF de
    <2>5. Append(c.debug_entries, de) \in Seq(DebugEntry)
      BY <2>4 DEF IsChunk
    <2>6. IsChunk(e)
      BY <2>5 DEF IsChunk
    <2>7. /\ e.size = c.size /\ e.capacity = c.capacity /\ e.symbols = c.symbols
          /\ e.debug_entries = Append(c.debug_entries, de)
      OBVIOUS
    <2> HIDE DEF e
    <2> QED
      BY <1>2, <2>1, <2>2, <2>6, <2>7 DEF de
  <1> QED
    BY <1>1, <1>2

\* The chunk after an instruction of builder b with these fields.
Emit(b, name, fields) ==
  [Expanded EXCEPT
     !.data = Write(@, chunk.size, fields),
     !.size = @ + Length(b),
     !.relocs = IF Relocation(b) = 0 THEN @ ELSE Append(@, chunk.size + Relocation(b)),
     !.constants = IF b \notin Constants THEN @
                   ELSE Append(@, [index |-> chunk.size + ConstantAt(b),
                                   type |-> ConstantType(b), name |-> name])]

LEMMA EmitFacts ==
  ASSUME IsChunk(chunk), NEW b \in Emitted, NEW name \in Names \cup {NULL},
         b \in Named => name \in Names, NEW fields \in SUBSET Field
  PROVE  /\ IsChunk(Emit(b, name, fields))
         /\ Emit(b, name, fields).capacity = Expanded.capacity
         /\ Emit(b, name, fields).symbols = chunk.symbols
         /\ Emit(b, name, fields).size = chunk.size + Length(b)
         /\ Emit(b, name, fields).debug_entries = chunk.debug_entries
  <1> DEFINE e == Expanded
             size == e.size + Length(b)
             data == Write(e.data, chunk.size, fields)
             relocs == IF Relocation(b) = 0 THEN e.relocs
                       ELSE Append(e.relocs, chunk.size + Relocation(b))
             cnst == [index |-> chunk.size + ConstantAt(b), type |-> ConstantType(b), name |-> name]
             constants == IF b \notin Constants THEN e.constants ELSE Append(e.constants, cnst)
             c == [data |-> data, size |-> size, capacity |-> e.capacity, relocs |-> relocs,
                   constants |-> constants, symbols |-> e.symbols, debug_entries |-> e.debug_entries]
  <1>1. /\ IsChunk(e) /\ e.size = chunk.size /\ chunk.size + 16 <= e.capacity
        /\ e.symbols = chunk.symbols /\ e.debug_entries = chunk.debug_entries
    BY ExpandedFacts
  <1>2. Emit(b, name, fields) = Appended(e, data, size, relocs, constants)
    BY DEF Emit, Appended
  <1> HIDE DEF e
  <1>3. /\ e.size \in Nat /\ e.capacity \in Nat
        /\ e.data \in [0 .. e.capacity - 1 -> 0 .. 255]
        /\ e.relocs \in Seq(Within(e.size, 8)) /\ e.constants \in Seq(Constant(e.size))
        /\ e.symbols \in Seq(Symbol) /\ e.debug_entries \in Seq(DebugEntry)
    BY <1>1 DEF IsChunk
  <1>4. size \in Nat /\ e.size <= size /\ size <= e.capacity
    <2>1. Length(b) \in 1 .. 13
      BY LayoutFacts
    <2>2. \A n, m \in Nat : \A l \in 1 .. 13 : n + 16 <= m => n + l \in Nat /\ n <= n + l /\ n + l <= m
      OBVIOUS
    <2> QED
      BY <2>1, <2>2, <1>1, <1>3
  <1>5. data \in [0 .. e.capacity - 1 -> 0 .. 255]
    BY <1>1, <1>3, WriteFacts
  <1>6. relocs \in Seq(Within(size, 8))
    <2>1. e.relocs \in Seq(Within(size, 8))
      BY <1>3, <1>4, WithinMonotone, SeqMonotone
    <2>2. Relocation(b) # 0 => chunk.size + Relocation(b) \in Within(size, 8)
      <3>1. /\ Relocation(b) \in Nat /\ Length(b) \in Nat
            /\ Relocation(b) # 0 => Relocation(b) + 8 <= Length(b)
        BY LayoutFacts
      <3>2. \A n, r, l \in Nat : r + 8 <= l => n + r \in Within(n + l, 8)
        BY DEF Within
      <3> QED
        BY <3>1, <3>2, <1>1, <1>3
    <2> HIDE DEF size
    <2> QED
      BY <2>1, <2>2
  <1>7. constants \in Seq(Constant(size))
    <2>1. e.constants \in Seq(Constant(size))
      BY <1>3, <1>4, ConstantMonotone, SeqMonotone
    <2>2. ASSUME b \in Constants PROVE cnst \in Constant(size)
      <3>1. ConstantAt(b) \in Nat /\ Length(b) \in Nat /\ ConstantAt(b) + 4 <= Length(b)
        BY <2>2, LayoutFacts
      <3>4. \A n, k, l \in Nat : k + 4 <= l => n + k \in Within(n + l, 4)
        BY DEF Within
      <3>2. chunk.size + ConstantAt(b) \in Within(size, 4)
        BY <3>1, <3>4, <1>1, <1>3
      <3>3. ConstantType(b) \in {"string", "int", "symbol"} /\ (ConstantType(b) = "symbol" => b \in Named)
        BY <2>2 DEF ConstantType, Named, Constants
      <3> HIDE DEF size
      <3> QED
        BY <3>2, <3>3 DEF Constant
    <2> HIDE DEF size, cnst
    <2> QED
      BY <2>1, <2>2
  <1>8. Appended(e, data, size, relocs, constants) = c
    <2> HIDE DEF data, size, relocs, constants
    <2> QED
      BY <1>1, ChunkAppended
  <1> HIDE DEF data, size, relocs, constants
  <1>9. IsChunk(c)
    BY <1>3, <1>4, <1>5, <1>6, <1>7, ChunkOf
  <1>10. /\ c.capacity = e.capacity /\ c.symbols = e.symbols /\ c.size = size
         /\ c.debug_entries = e.debug_entries
    OBVIOUS
  <1> HIDE DEF c
  <1>11. size = chunk.size + Length(b)
    BY <1>1 DEF size
  <1> QED
    BY <1>1, <1>2, <1>8, <1>9, <1>10, <1>11 DEF e

--------------------------------------------------------------------------------
(* The invariant of building a chunk *)

Stages == {"build", "process", "end", "chunk", "loading", "idle", "exited"}
\* There is a source until the last one is loaded.
Sourced == sources \in Seq(Seq(Call)) /\ (pc # "idle" => sources # <<>>)
\* The items pushed so far, and the blocks open while they are.
Built ==
  /\ called \in Nat /\ items \in Seq(Items) /\ next \in Nat /\ next <= Len(items)
  /\ open \in Seq(0 .. Len(items)) /\ open # <<>>
\* The blocks in work, whose uses of labels are inside the chunk's memory.
Opened ==
  /\ blocks \in Seq(OpenBlock(chunk.capacity))
  /\ pc \in {"process", "end"} => blocks # <<>>
GenInv == pc \in Stages /\ Sourced /\ Built /\ IsChunk(chunk) /\ Opened

LEMMA GenInitial ==
  ASSUME GenInit
  PROVE  GenInv
  <1>1. pc \in Stages
    BY DEF GenInit, Stages
  <1>2. Sourced
    BY GeneratorAssumption DEF GenInit, Sourced
  <1>3. Built
    BY DEF GenInit, Built
  <1>4. IsChunk(chunk)
    BY NewChunkFacts DEF GenInit
  <1>5. Opened
    BY DEF GenInit, Opened
  <1> QED
    BY <1>1, <1>2, <1>3, <1>4, <1>5 DEF GenInv

LEMMA NextCallFacts ==
  ASSUME GenInv, NEW kinds, Building(kinds)
  PROVE  NextCall \in Call /\ NextCall.b \in kinds
  <1>1. Head(sources) \in Seq(Call)
    BY DEF GenInv, Sourced, Building
  <1>2. called + 1 \in 1 .. Len(Head(sources))
    BY <1>1 DEF GenInv, Built, Building
  <1> QED
    BY <1>1, <1>2, Elements DEF NextCall, Building

LEMMA TopOfOpen ==
  ASSUME GenInv
  PROVE  /\ Len(open) \in Nat \ {0} /\ Top(open) \in 0 .. Len(items)
         /\ Marked \in Seq(0 .. Len(items) + 1) /\ Marked # <<>>
         /\ open \in Seq(0 .. Len(items) + 1)
  <1> DEFINE S == 0 .. Len(items)
             T == 0 .. Len(items) + 1
  <1>1. open \in Seq(S) /\ open # <<>> /\ Len(items) \in Nat
    BY DEF GenInv, Built
  <1>2. S \subseteq T /\ Len(items) + 1 \in T
    BY <1>1
  <1> HIDE DEF S, T
  <1>3. open \in Seq(T)
    BY <1>1, <1>2, SeqMonotone
  <1>4. Len(open) \in Nat \ {0} /\ Top(open) \in S
    BY <1>1, Elements DEF Top
  <1>5. Marked \in Seq(T) /\ Marked # <<>>
    BY <1>2, <1>3, <1>4 DEF Marked
  <1> QED
    BY <1>3, <1>4, <1>5 DEF S, T

LEMMA PushItemStep ==
  ASSUME GenInv, NEW item \in Items, NEW marks \in Seq(0 .. Len(items) + 1), marks # <<>>,
         PushItem(item, marks)
  PROVE  GenInv'
  <1>1. items' \in Seq(Items) /\ Len(items') = Len(items) + 1 /\ Len(items) \in Nat
    BY DEF GenInv, Built, PushItem
  <1>2. next' \in Nat /\ next' <= Len(items') /\ called' \in Nat
    BY <1>1 DEF GenInv, Built, PushItem
  <1>3. open' \in Seq(0 .. Len(items')) /\ open' # <<>>
    BY <1>1 DEF PushItem
  <1>4. Built'
    BY <1>1, <1>2, <1>3 DEF Built
  <1>5. UNCHANGED <<sources, pc, blocks, chunk>>
    BY DEF PushItem
  <1> QED
    BY <1>4, <1>5 DEF GenInv, Sourced, Opened, IsChunk

LEMMA PlainItems ==
  ASSUME NEW b \in {"block", "end", "debug"}, NEW name \in Names \cup {NULL}, NEW n \in Nat,
         NEW flags \in Nat
  PROVE  Item(b, <<>>, name, n, flags) \in Items
  <1>1. b \notin Emitted /\ b \notin Named
    BY DEF Emitted, OpsF, OpsA1, OpsA2, OpsA3, Labelled, Constants, Named
  <1>2. b \in Builders \cup {"debug"}
    BY DEF Builders
  <1>3. <<>> \in Seq(0 .. 255)
    OBVIOUS
  <1> QED
    BY <1>1, <1>2, <1>3 DEF Item, Items

LEMMA CallFacts ==
  ASSUME NEW c \in Call
  PROVE  /\ c.b \in Builders /\ c.regs \in Seq(0 .. 255) /\ c.name \in Names \cup {NULL}
         /\ c.n \in Nat
         /\ c.b \in Emitted => Len(c.regs) >= Arity(c.b)
         /\ c.b \in Named => c.name \in Names
  BY DEF Call

LEMMA LastDebugFacts ==
  ASSUME GenInv
  PROVE  LastDebug.name \in Names \cup {NULL} /\ LastDebug.flags \in Nat
  <1>1. CASE Top(open) = 0
    BY <1>1 DEF LastDebug, NoDebug, Item
  <1>2. CASE Top(open) # 0
    <2>1. Top(open) \in 1 .. Len(items)
      BY <1>2, TopOfOpen
    <2>2. items[Top(open)] \in Items
      BY <2>1, Elements DEF GenInv, Built
    <2> QED
      BY <1>2, <2>2 DEF LastDebug, Items
  <1> QED
    BY <1>1, <1>2

LEMMA PushBlockStep ==
  ASSUME GenInv, PushBlock
  PROVE  GenInv'
  <1> DEFINE T == 0 .. Len(items) + 1
  <1>1. open \in Seq(T)
    BY TopOfOpen
  <1>2. 0 \in T
    BY DEF GenInv, Built
  <1> HIDE DEF T
  <1>3. Append(open, 0) \in Seq(T) /\ Append(open, 0) # <<>>
    BY <1>1, <1>2, AppendFacts
  <1>4. Item("block", <<>>, NULL, 0, 0) \in Items
    BY PlainItems
  <1>5. PushItem(Item("block", <<>>, NULL, 0, 0), Append(open, 0))
    BY DEF PushBlock
  <1> QED
    BY <1>3, <1>4, <1>5, PushItemStep, Zenon DEF T

LEMMA LeaveBlockStep ==
  ASSUME GenInv, LeaveBlock
  PROVE  GenInv'
  <1> DEFINE T == 0 .. Len(items) + 1
  <1>1. open \in Seq(T) /\ Len(open) > 1
    BY TopOfOpen DEF LeaveBlock
  <1> HIDE DEF T
  <1>2. Pop(open) \in Seq(T) /\ Pop(open) # <<>>
    <2>1. open # <<>>
      BY DEF GenInv, Built
    <2>2. Len(open) # 1
      <3>1. Len(open) \in Nat /\ Len(open) > 1
        BY <1>1
      <3>2. \A n \in Nat : n > 1 => n # 1
        OBVIOUS
      <3> QED
        BY <3>1, <3>2
    <2> QED
      BY <1>1, <2>1, <2>2, PopFacts
  <1>3. Item("end", <<>>, NULL, 0, 0) \in Items
    BY PlainItems
  <1>4. PushItem(Item("end", <<>>, NULL, 0, 0), Pop(open))
    BY DEF LeaveBlock
  <1> QED
    BY <1>2, <1>3, <1>4, PushItemStep, Zenon DEF T

LEMMA SetDebugLineStep ==
  ASSUME GenInv, SetDebugLine
  PROVE  GenInv'
  <1>1. NextCall.n \in Nat
    BY NextCallFacts, CallFacts DEF SetDebugLine
  <1>2. Item("debug", <<>>, LastDebug.name, NextCall.n, LastDebug.flags) \in Items
    BY <1>1, LastDebugFacts, PlainItems
  <1> QED
    BY <1>2, TopOfOpen, PushItemStep DEF SetDebugLine

LEMMA SetDebugEntryStep ==
  ASSUME GenInv, SetDebugEntry
  PROVE  GenInv'
  <1>1. NextCall.n \in Nat /\ NextCall.name \in Names \cup {NULL}
    BY NextCallFacts, CallFacts DEF SetDebugEntry
  <1>2. Item("debug", <<>>, NextCall.name, NextCall.n, 0) \in Items
    BY <1>1, PlainItems
  <1> QED
    BY <1>2, TopOfOpen, PushItemStep DEF SetDebugEntry

LEMMA SetDebugFlagsStep ==
  ASSUME GenInv, SetDebugFlags
  PROVE  GenInv'
  <1>1. NextCall.n \in Nat
    BY NextCallFacts, CallFacts DEF SetDebugFlags
  <1>2. items' \in Seq(Items) /\ Len(items') = Len(items) /\ pc' \in {pc, "exited"}
    <2>1. CASE Top(open) = 0
      BY <2>1 DEF SetDebugFlags, GenInv, Built
    <2>2. CASE Top(open) # 0
      <3> DEFINE k == Top(open)
                 i == items[k]
                 j == [i EXCEPT !.flags = NextCall.n]
      <3>1. k \in 1 .. Len(items)
        BY <2>2, TopOfOpen
      <3>2. i \in Items
        BY <3>1, Elements DEF GenInv, Built
      <3>3. j \in Items
        BY <3>2, <1>1 DEF Items
      <3>4. items' = [items EXCEPT ![k] = j] /\ pc' = pc
        BY <2>2 DEF SetDebugFlags
      <3>5. items \in Seq(Items)
        BY DEF GenInv, Built
      <3> HIDE DEF k, j
      <3> QED
        BY <3>1, <3>3, <3>4, <3>5
    <2> QED
      BY <2>1, <2>2
  <1>3. called' \in Nat /\ UNCHANGED <<sources, open, next, blocks, chunk>>
    BY DEF SetDebugFlags, GenInv, Built
  <1>4. Built'
    BY <1>2, <1>3 DEF GenInv, Built
  <1>5. pc' \in Stages /\ (pc' = pc \/ pc' = "exited") /\ pc = "build"
    BY <1>2 DEF SetDebugFlags, Building, GenInv, Stages
  <1>6. Sourced' /\ Opened' /\ IsChunk(chunk)'
    BY <1>3, <1>5 DEF GenInv, Sourced, Opened, IsChunk
  <1> QED
    BY <1>4, <1>5, <1>6 DEF GenInv

LEMMA PushOpStep ==
  ASSUME GenInv, PushOp
  PROVE  GenInv'
  <1>1. NextCall \in Call
    BY NextCallFacts DEF PushOp
  <1>2. Item(NextCall.b, NextCall.regs, NextCall.name, NextCall.n, 0) \in Items
    BY <1>1, CallFacts DEF Item, Items
  <1>3. open # <<>>
    BY DEF GenInv, Built
  <1> QED
    BY <1>2, <1>3, TopOfOpen, PushItemStep DEF PushOp

LEMMA GenChunkStep ==
  ASSUME GenInv, GenChunk
  PROVE  GenInv'
  <1>1. pc' = "process" /\ next' = 0 /\ blocks' = <<NewBlock(0)>> /\ chunk' = NewChunk
        /\ UNCHANGED <<sources, called, open, items>> /\ pc = "build"
    BY DEF GenChunk
  <1>2. IsChunk(chunk')
    BY <1>1, NewChunkFacts
  <1>3. NewBlock(0) \in OpenBlock(chunk'.capacity)
    BY DEF NewBlock, OpenBlock
  <1>4. Opened'
    BY <1>1, <1>3 DEF Opened
  <1>5. Built' /\ Sourced' /\ pc' \in Stages
    BY <1>1 DEF GenInv, Built, Sourced, Stages
  <1> QED
    BY <1>2, <1>4, <1>5 DEF GenInv, IsChunk

LEMMA BlockFacts ==
  ASSUME GenInv, pc \in {"process", "end"}
  PROVE  /\ Block \in OpenBlock(chunk.capacity)
         /\ Len(blocks) \in Nat \ {0} /\ blocks # <<>>
  <1>1. blocks \in Seq(OpenBlock(chunk.capacity)) /\ blocks # <<>>
    BY DEF GenInv, Opened
  <1>2. Len(blocks) \in Nat \ {0}
    BY <1>1
  <1> QED
    BY <1>1, <1>2, Elements DEF Block, Top

LEMMA CurrentFacts ==
  ASSUME GenInv, NEW kinds, Processing(kinds)
  PROVE  Current \in Items /\ Current.b \in kinds
  <1>1. next + 1 \in 1 .. Len(items)
    BY DEF GenInv, Built, Processing
  <1> QED
    BY <1>1, Elements DEF GenInv, Built, Current, Processing

LEMMA ItemFacts ==
  ASSUME NEW i \in Items
  PROVE  /\ i.b \in Builders \cup {"debug"} /\ i.regs \in Seq(0 .. 255)
         /\ i.name \in Names \cup {NULL} /\ i.n \in Nat /\ i.flags \in Nat
         /\ i.b \in Emitted => Len(i.regs) >= Arity(i.b)
         /\ i.b \in Named => i.name \in Names
  BY DEF Items

\* The innermost block replaced, in a chunk that may have grown.
LEMMA BlocksUpdated ==
  ASSUME GenInv, pc \in {"process", "end"}, NEW capacity \in Nat, chunk.capacity <= capacity,
         NEW blk \in OpenBlock(capacity)
  PROVE  /\ [blocks EXCEPT ![Len(blocks)] = blk] \in Seq(OpenBlock(capacity))
         /\ [blocks EXCEPT ![Len(blocks)] = blk] # <<>>
  <1>1. OpenBlock(chunk.capacity) \subseteq OpenBlock(capacity)
    BY OpenBlockMonotone DEF GenInv, IsChunk
  <1>2. blocks \in Seq(OpenBlock(capacity)) /\ blocks # <<>>
    BY <1>1, SeqMonotone DEF GenInv, Opened
  <1> QED
    BY <1>2

LEMMA ProcessedStep ==
  ASSUME GenInv, pc = "process", next < Len(items), NEW chnk, IsChunk(chnk),
         chunk.capacity <= chnk.capacity, NEW blk \in OpenBlock(chnk.capacity), NEW what,
         Processed(chnk, blk, what)
  PROVE  GenInv'
  <1>1. /\ next' = next + 1 /\ chunk' = chnk /\ blocks' = [blocks EXCEPT ![Len(blocks)] = blk]
        /\ UNCHANGED <<sources, pc, called, open, items>>
    BY DEF Processed
  <1>2. chnk.capacity \in Nat
    BY DEF IsChunk
  <1>3. Opened'
    BY <1>1, <1>2, BlocksUpdated DEF Opened
  <1>4. Built' /\ Sourced' /\ pc' \in Stages
    BY <1>1 DEF GenInv, Built, Sourced
  <1>5. IsChunk(chunk)'
    BY <1>1 DEF IsChunk
  <1> QED
    BY <1>3, <1>4, <1>5 DEF GenInv

LEMMA DebugItemStep ==
  ASSUME GenInv, DebugItem
  PROVE  GenInv'
  <1> DEFINE entry == [ip |-> chunk.size, line |-> Current.n, name |-> Current.name,
                       flags |-> Current.flags]
             chnk == Closed(Expanded, Block.entry)
             blk == [Block EXCEPT !.entry = entry]
  <1>1. pc = "process" /\ next < Len(items) /\ Processed(chnk, blk, Put("debug"))
    BY DEF DebugItem, Processing
  <1>2. IsChunk(chunk) /\ chunk.size \in Nat /\ chunk.capacity \in Nat
    BY DEF GenInv, IsChunk
  <1>3. Block \in OpenBlock(chunk.capacity)
    BY <1>1, BlockFacts
  <1>4. Block.entry \in Entry \cup {NULL}
    BY <1>3 DEF OpenBlock
  <1>5. IsChunk(Expanded) /\ chunk.capacity <= Expanded.capacity
    BY <1>2, ExpandedFacts
  <1>6. IsChunk(chnk) /\ chnk.capacity = Expanded.capacity
    BY <1>4, <1>5, ClosedFacts
  <1>7. entry \in Entry
    BY <1>2, CurrentFacts, ItemFacts DEF DebugItem, Entry
  <1>8. chnk.capacity \in Nat /\ chunk.capacity <= chnk.capacity
    BY <1>5, <1>6 DEF IsChunk
  <1> HIDE DEF entry, chnk
  <1>9. blk \in OpenBlock(chnk.capacity)
    <2>1. Block \in OpenBlock(chnk.capacity)
      BY <1>2, <1>3, <1>8, OpenBlockMonotone
    <2> QED
      BY <2>1, <1>7 DEF OpenBlock
  <1> HIDE DEF blk
  <1> QED
    BY <1>1, <1>6, <1>8, <1>9, ProcessedStep

LEMMA LabelItemStep ==
  ASSUME GenInv, LabelItem
  PROVE  GenInv'
  <1> DEFINE sym == [index |-> chunk.size, name |-> Current.name]
             chnk == IF Current.b = "label" THEN Expanded
                     ELSE [Expanded EXCEPT !.symbols = Append(@, sym)]
             blk == [Block EXCEPT !.labels[Current.name] = chunk.size]
  <1>1. pc = "process" /\ next < Len(items) /\ Processed(chnk, blk, Put("label"))
    BY DEF LabelItem, Processing
  <1>2. IsChunk(chunk) /\ chunk.size \in Nat /\ chunk.capacity \in Nat
    BY DEF GenInv, IsChunk
  <1>3. Block \in OpenBlock(chunk.capacity)
    BY <1>1, BlockFacts
  <1>4. Current.name \in Names
    <2>1. Current \in Items /\ Current.b \in {"label", "sub"}
      BY CurrentFacts DEF LabelItem
    <2>2. Current.b \in Named
      BY <2>1 DEF Named
    <2> QED
      BY <2>1, <2>2, ItemFacts
  <1>5. IsChunk(Expanded) /\ chunk.capacity <= Expanded.capacity
    BY <1>2, ExpandedFacts
  <1>6. IsChunk(chnk) /\ chnk.capacity = Expanded.capacity
    <2>1. CASE Current.b = "label"
      BY <2>1, <1>5
    <2>2. CASE Current.b # "label"
      <3> DEFINE e == Expanded
                 c == [data |-> e.data, size |-> e.size, capacity |-> e.capacity, relocs |-> e.relocs,
                       constants |-> e.constants, symbols |-> Append(e.symbols, sym),
                       debug_entries |-> e.debug_entries]
      <3>1. sym \in Symbol
        BY <1>2, <1>4 DEF Symbol
      <3>2. chnk = [e EXCEPT !.symbols = Append(e.symbols, sym)] /\ IsChunk(e)
        BY <2>2, <1>5
      <3> HIDE DEF sym, e
      <3>3. e = [data |-> e.data, size |-> e.size, capacity |-> e.capacity, relocs |-> e.relocs,
                 constants |-> e.constants, symbols |-> e.symbols, debug_entries |-> e.debug_entries]
        BY <3>2 DEF IsChunk
      <3>4. [e EXCEPT !.symbols = Append(e.symbols, sym)] = c
        BY <3>3, SMTT(30)
      <3>5. /\ e.size \in Nat /\ e.capacity \in Nat /\ e.size <= e.capacity
            /\ e.data \in [0 .. e.capacity - 1 -> 0 .. 255]
            /\ e.relocs \in Seq(Within(e.size, 8)) /\ e.constants \in Seq(Constant(e.size))
            /\ e.symbols \in Seq(Symbol) /\ e.debug_entries \in Seq(DebugEntry)
        BY <3>2 DEF IsChunk
      <3>6. Append(e.symbols, sym) \in Seq(Symbol)
        BY <3>1, <3>5, AppendFacts
      <3>7. IsChunk(c)
        BY <3>5, <3>6, ChunkOf
      <3>8. c.capacity = e.capacity
        OBVIOUS
      <3> HIDE DEF c, chnk
      <3> QED
        BY <3>2, <3>4, <3>7, <3>8 DEF e
    <2> QED
      BY <2>1, <2>2
  <1>7. chnk.capacity \in Nat /\ chunk.capacity <= chnk.capacity
    BY <1>5, <1>6 DEF IsChunk
  <1> HIDE DEF chnk
  <1>8. blk \in OpenBlock(chnk.capacity)
    <2>1. Block \in OpenBlock(chnk.capacity)
      BY <1>2, <1>3, <1>7, OpenBlockMonotone
    <2> QED
      BY <2>1, <1>2, <1>4 DEF OpenBlock
  <1> HIDE DEF blk
  <1> QED
    BY <1>1, <1>6, <1>7, <1>8, ProcessedStep

LEMMA BlockItemStep ==
  ASSUME GenInv, BlockItem
  PROVE  GenInv'
  <1>1. /\ pc = "process" /\ next < Len(items) /\ next' = next + 1 /\ chunk' = Expanded
        /\ blocks' = Append(blocks, NewBlock(next + 1))
        /\ UNCHANGED <<sources, pc, called, open, items>>
    BY DEF BlockItem, Processing
  <1>2. IsChunk(chunk) /\ chunk.capacity \in Nat
    BY DEF GenInv, IsChunk
  <1>3. IsChunk(Expanded) /\ chunk.capacity <= Expanded.capacity /\ Expanded.capacity \in Nat
    BY <1>2, ExpandedFacts DEF IsChunk
  <1>4. Opened'
    <2> DEFINE S == OpenBlock(Expanded.capacity)
    <2>1. OpenBlock(chunk.capacity) \subseteq S
      BY <1>2, <1>3, OpenBlockMonotone
    <2>2. NewBlock(next + 1) \in S
      BY DEF GenInv, Built, NewBlock, OpenBlock
    <2> HIDE DEF S
    <2>3. blocks \in Seq(S)
      BY <2>1, SeqMonotone DEF GenInv, Opened
    <2>4. blocks' \in Seq(S) /\ blocks' # <<>>
      BY <1>1, <2>2, <2>3, AppendFacts
    <2> QED
      BY <1>1, <2>4 DEF Opened, S
  <1>5. Built' /\ Sourced' /\ pc' \in Stages
    BY <1>1 DEF GenInv, Built, Sourced
  <1>6. IsChunk(chunk)'
    BY <1>1, <1>3 DEF IsChunk
  <1> QED
    BY <1>4, <1>5, <1>6 DEF GenInv

LEMMA EndOfItemsStep ==
  ASSUME GenInv, EndOfItems
  PROVE  GenInv'
  <1>1. /\ pc = "process" /\ pc' = "end"
        /\ UNCHANGED <<sources, called, open, items, blocks, chunk>>
        /\ next' = next \/ (next < Len(items) /\ next' = next + 1)
    BY DEF EndOfItems
  <1>2. Built' /\ Sourced' /\ pc' \in Stages
    BY <1>1 DEF GenInv, Built, Sourced, Stages
  <1>3. Opened' /\ IsChunk(chunk)'
    BY <1>1 DEF GenInv, Opened, IsChunk
  <1> QED
    BY <1>2, <1>3 DEF GenInv

LEMMA UnknownItemStep ==
  ASSUME GenInv, UnknownItem
  PROVE  GenInv'
  <1>1. /\ pc = "process" /\ pc' = "exited"
        /\ UNCHANGED <<sources, called, open, items, next, blocks, chunk>>
    BY DEF UnknownItem, Processing
  <1>2. Built' /\ Sourced' /\ pc' \in Stages
    BY <1>1 DEF GenInv, Built, Sourced, Stages
  <1>3. Opened' /\ IsChunk(chunk)'
    BY <1>1 DEF GenInv, Opened, IsChunk
  <1> QED
    BY <1>2, <1>3 DEF GenInv

\* The block after an instruction that uses a label not known yet.
Using(b, name, unknown) ==
  [Block EXCEPT !.uses = IF unknown THEN <<[name |-> name, idx |-> chunk.size + UseAt(b)]>> \o @ ELSE @]

\* Whether the label of an instruction is not known yet, and its destination.
Unsettled == Current.b \in Labelled /\ Block.labels[Current.name] = NULL
Destination ==
  IF Current.b \in Labelled THEN (IF Unsettled THEN 0 ELSE Block.labels[Current.name])
  ELSE Current.n
\* What OpItem does to chunk and block.
LEMMA OpItemEffect ==
  ASSUME GenInv, OpItem
  PROVE  \E fields \in SUBSET Field, unknown \in BOOLEAN :
           /\ unknown => Current.b \in Labelled
           /\ unknown = Unsettled
           /\ Current.b # "if" => fields = Fields(Current, Destination, Len(chunk.constants))
           /\ Processed(Emit(Current.b, Current.name, fields),
                        Using(Current.b, Current.name, unknown), Put("op"))
  <1> DEFINE b == Current.b
             known == b \in Labelled /\ Block.labels[Current.name] # NULL
             dest == IF known THEN Block.labels[Current.name]
                     ELSE IF b \in Labelled THEN 0 ELSE Current.n
             item(junk) == IF b = "if" THEN [Current EXCEPT !.regs = <<junk>>] ELSE Current
             fields(junk) == Fields(item(junk), dest, Len(chunk.constants))
             unknown == b \in Labelled /\ ~known
  <1>1. PICK junk \in Overread :
          Processed([Expanded EXCEPT
             !.data = Write(@, chunk.size, fields(junk)),
             !.size = @ + Length(b),
             !.relocs = IF Relocation(b) = 0 THEN @ ELSE Append(@, chunk.size + Relocation(b)),
             !.constants = IF b \notin Constants THEN @
                           ELSE Append(@, [index |-> chunk.size + ConstantAt(b),
                                           type |-> ConstantType(b), name |-> Current.name])],
          [Block EXCEPT
             !.uses = IF unknown
                      THEN <<[name |-> Current.name, idx |-> chunk.size + UseAt(b)]>> \o @ ELSE @],
          Put("op"))
    BY Zenon DEF OpItem
  <1>2. Processed(Emit(b, Current.name, fields(junk)), Using(b, Current.name, unknown), Put("op"))
    <2> HIDE DEF b, fields, unknown
    <2> QED
      BY <1>1, Zenon DEF Emit, Using
  <1>3. pc = "process" /\ Current \in Items /\ b \in Emitted
    BY CurrentFacts DEF OpItem, Processing
  <1>4. dest \in Nat
    <2>1. b \in Labelled => Current.name \in Names
      BY <1>3, ItemFacts DEF Named
    <2>2. Block.labels \in [Names -> Nat \cup {NULL}]
      BY <1>3, BlockFacts DEF OpenBlock
    <2>3. Current.n \in Nat
      BY <1>3, ItemFacts
    <2> HIDE DEF b
    <2> QED
      BY <2>1, <2>2, <2>3
  <1>5. Len(chunk.constants) \in Nat
    BY DEF GenInv, IsChunk
  <1>6. fields(junk) \in SUBSET Field
    <2>1. CASE b = "if"
      <3>1. junk \in 0 .. 255
        BY DEF Overread
      <3>2. item(junk) = [Current EXCEPT !.regs = <<junk>>]
        BY <2>1
      <3>3. item(junk).b = b /\ item(junk).regs = <<junk>>
        BY <1>3, <3>2 DEF Items
      <3>4. <<junk>> \in Seq(0 .. 255) /\ Len(<<junk>>) = 1
        BY <3>1
      <3>5. Arity("if") = 1
        BY DEF Arity, ItemType, OpsF, OpsA1, OpsA2, OpsA3
      <3>6. Len(item(junk).regs) >= Arity(item(junk).b)
        BY <3>3, <3>4, <3>5, <2>1
      <3> HIDE DEF item, dest, b
      <3> QED
        BY <1>3, <1>4, <1>5, <3>3, <3>4, <3>6, FieldsFacts
    <2>2. CASE b # "if"
      <3>1. item(junk) = Current
        BY <2>2
      <3>2. Current.regs \in Seq(0 .. 255) /\ Len(Current.regs) >= Arity(Current.b)
        BY <1>3, ItemFacts
      <3> HIDE DEF item, dest
      <3> QED
        BY <1>3, <1>4, <1>5, <3>1, <3>2, FieldsFacts
    <2> QED
      BY <2>1, <2>2
  <1>7. unknown \in BOOLEAN /\ (unknown => b \in Labelled) /\ unknown = Unsettled
    BY DEF Unsettled
  <1>8. b # "if" => fields(junk) = Fields(Current, Destination, Len(chunk.constants))
    BY DEF Unsettled, Destination
  <1> HIDE DEF fields, unknown
  <1> QED
    BY <1>2, <1>6, <1>7, <1>8

LEMMA OpItemStep ==
  ASSUME GenInv, OpItem
  PROVE  GenInv'
  <1>1. PICK fields \in SUBSET Field, unknown \in BOOLEAN :
           /\ unknown => Current.b \in Labelled
           /\ Processed(Emit(Current.b, Current.name, fields),
                        Using(Current.b, Current.name, unknown), Put("op"))
    BY OpItemEffect
  <1> DEFINE chnk == Emit(Current.b, Current.name, fields)
             blk == Using(Current.b, Current.name, unknown)
  <1>2. /\ pc = "process" /\ next < Len(items) /\ Current \in Items
        /\ Current.b \in Emitted
    BY CurrentFacts DEF OpItem, Processing
  <1>3. IsChunk(chunk) /\ chunk.size \in Nat /\ chunk.capacity \in Nat
    BY DEF GenInv, IsChunk
  <1>4. /\ IsChunk(Expanded) /\ chunk.capacity <= Expanded.capacity
        /\ chunk.size + 16 <= Expanded.capacity
    BY <1>3, ExpandedFacts
  <1>5. Current.name \in Names \cup {NULL} /\ (Current.b \in Named => Current.name \in Names)
    BY <1>2, ItemFacts
  <1>6. IsChunk(chnk) /\ chnk.capacity = Expanded.capacity
    BY <1>2, <1>3, <1>5, EmitFacts
  <1> HIDE DEF chnk
  <1>7. chnk.capacity \in Nat /\ chunk.capacity <= chnk.capacity
    BY <1>4, <1>6 DEF IsChunk
  <1>8. Block \in OpenBlock(chnk.capacity)
    BY <1>2, <1>3, <1>7, BlockFacts, OpenBlockMonotone
  <1>9. blk \in OpenBlock(chnk.capacity)
    <2>1. CASE unknown
      <3> DEFINE use == [name |-> Current.name, idx |-> chunk.size + UseAt(Current.b)]
                 S == Uses(chnk.capacity)
      <3>1. Current.b \in Labelled /\ Current.name \in Names
        BY <2>1, <1>1, <1>5 DEF Named
      <3>2. UseAt(Current.b) \in Nat /\ UseAt(Current.b) + 8 <= 15
        BY <3>1, <1>2, LayoutFacts
      <3>3. chunk.size + UseAt(Current.b) \in Within(chnk.capacity, 8)
        <4>1. \A n, u, m \in Nat : n + 16 <= m /\ u + 8 <= 15 => n + u \in Within(m, 8)
          BY DEF Within
        <4> QED
          BY <4>1, <3>2, <1>3, <1>4, <1>6, <1>7
      <3>4. use \in S
        BY <3>1, <3>3 DEF Uses
      <3>5. Block.uses \in Seq(S)
        BY <1>8 DEF OpenBlock
      <3> HIDE DEF use, S
      <3>6. <<use>> \o Block.uses \in Seq(S)
        BY <3>4, <3>5
      <3>7. blk = [Block EXCEPT !.uses = <<use>> \o Block.uses]
        BY <2>1 DEF Using, use
      <3> HIDE DEF blk
      <3> QED
        BY <3>6, <3>7, <1>8 DEF OpenBlock, S
    <2>2. CASE ~unknown
      <3>1. blk = [Block EXCEPT !.uses = Block.uses]
        BY <2>2 DEF Using
      <3> QED
        BY <3>1, <1>8 DEF OpenBlock
    <2> QED
      BY <2>1, <2>2
  <1> HIDE DEF blk
  <1> QED
    BY <1>1, <1>2, <1>6, <1>7, <1>9, ProcessedStep DEF chnk, blk

LEMMA PatchLabelStep ==
  ASSUME GenInv, PatchLabel
  PROVE  GenInv'
  <1> DEFINE use == Head(Block.uses)
             dest == Block.labels[use.name]
             S == OpenBlock(chunk.capacity)
             blk == [Block EXCEPT !.uses = Tail(Block.uses)]
  <1>1. /\ pc = "end" /\ Block.uses # <<>>
        /\ chunk' = IF dest = NULL THEN chunk
                    ELSE [chunk EXCEPT !.data =
                            Write(@, use.idx, {[at |-> 0, width |-> 8, val |-> dest]})]
        /\ UNCHANGED <<sources, pc, called, open, items, next>>
    BY DEF PatchLabel
  <1>2. Block \in S /\ Block = blocks[Len(blocks)]
    BY <1>1, BlockFacts DEF Block, Top
  <1>3. blocks' = [blocks EXCEPT ![Len(blocks)] = blk]
    BY <1>2 DEF PatchLabel
  <1>4. IsChunk(chunk) /\ chunk.capacity \in Nat
    BY DEF GenInv, IsChunk
  <1>5. /\ Block.uses \in Seq(Uses(chunk.capacity))
        /\ Block.labels \in [Names -> Nat \cup {NULL}]
    BY <1>2 DEF OpenBlock
  <1>6. use \in Uses(chunk.capacity) /\ Tail(Block.uses) \in Seq(Uses(chunk.capacity))
    BY <1>1, <1>5, HeadTail, Zenon
  <1>7. use.name \in Names /\ use.idx \in Nat
    BY <1>6 DEF Uses, Within
  <1>8. blk \in S
    BY <1>2, <1>6 DEF OpenBlock
  <1> HIDE DEF use, blk
  <1>9. IsChunk(chunk') /\ chunk'.capacity = chunk.capacity
    <2>1. CASE dest = NULL
      BY <2>1, <1>1, <1>4
    <2>2. CASE dest # NULL
      <3> DEFINE data == Write(chunk.data, use.idx, {[at |-> 0, width |-> 8, val |-> dest]})
                 c == [data |-> data, size |-> chunk.size, capacity |-> chunk.capacity,
                       relocs |-> chunk.relocs, constants |-> chunk.constants,
                       symbols |-> chunk.symbols, debug_entries |-> chunk.debug_entries]
      <3>1. dest \in Nat
        BY <2>2, <1>5, <1>7
      <3>2. {[at |-> 0, width |-> 8, val |-> dest]} \in SUBSET Field
        BY <3>1 DEF Field
      <3>3. /\ chunk.data \in [0 .. chunk.capacity - 1 -> 0 .. 255] /\ chunk.size \in Nat
            /\ chunk.size <= chunk.capacity
            /\ chunk.relocs \in Seq(Within(chunk.size, 8))
            /\ chunk.constants \in Seq(Constant(chunk.size))
            /\ chunk.symbols \in Seq(Symbol) /\ chunk.debug_entries \in Seq(DebugEntry)
        BY <1>4 DEF IsChunk
      <3>4. chunk = [data |-> chunk.data, size |-> chunk.size, capacity |-> chunk.capacity,
                     relocs |-> chunk.relocs, constants |-> chunk.constants,
                     symbols |-> chunk.symbols, debug_entries |-> chunk.debug_entries]
        BY <1>4 DEF IsChunk
      <3>5. data \in [0 .. chunk.capacity - 1 -> 0 .. 255]
        BY <1>4, <1>7, <3>2, <3>3, WriteFacts
      <3>6. chunk' = [chunk EXCEPT !.data = data]
        BY <1>1, <2>2
      <3> HIDE DEF data, dest
      <3>7. chunk' = c
        BY <3>4, <3>6
      <3>8. IsChunk(c)
        BY <1>4, <3>3, <3>5, ChunkOf
      <3>9. c.capacity = chunk.capacity
        OBVIOUS
      <3> HIDE DEF c
      <3> QED
        BY <3>7, <3>8, <3>9
    <2> QED
      BY <2>1, <2>2
  <1>10. Opened'
    <2>1. blocks' \in Seq(S) /\ blocks' # <<>>
      BY <1>1, <1>3, <1>4, <1>8, BlocksUpdated
    <2> QED
      BY <2>1, <1>9 DEF Opened
  <1>11. Built' /\ Sourced' /\ pc' \in Stages
    BY <1>1 DEF GenInv, Built, Sourced
  <1>12. IsChunk(chunk)'
    BY <1>9 DEF IsChunk
  <1> QED
    BY <1>10, <1>11, <1>12 DEF GenInv

LEMMA CloseBlockStep ==
  ASSUME GenInv, CloseBlock
  PROVE  GenInv'
  <1>1. /\ pc = "end" /\ chunk' = Closed(chunk, Block.entry) /\ blocks' = Pop(blocks)
        /\ pc' = IF Len(blocks) = 1 THEN "chunk" ELSE "process"
        /\ UNCHANGED <<sources, called, open, items, next>>
    BY DEF CloseBlock
  <1>2. Block.entry \in Entry \cup {NULL}
    BY <1>1, BlockFacts DEF OpenBlock
  <1>3. IsChunk(chunk') /\ chunk'.capacity = chunk.capacity
    BY <1>1, <1>2, ClosedFacts DEF GenInv
  <1>4. blocks \in Seq(OpenBlock(chunk.capacity)) /\ blocks # <<>>
    BY <1>1 DEF GenInv, Opened
  <1>5. blocks' \in Seq(OpenBlock(chunk.capacity)) /\ (Len(blocks) # 1 => blocks' # <<>>)
    BY <1>1, <1>4, PopFacts
  <1>6. Opened'
    BY <1>1, <1>3, <1>5 DEF Opened
  <1>7. Built' /\ Sourced' /\ pc' \in Stages
    BY <1>1 DEF GenInv, Built, Sourced, Stages
  <1>8. IsChunk(chunk)'
    BY <1>3 DEF IsChunk
  <1> QED
    BY <1>6, <1>7, <1>8 DEF GenInv

LEMMA GenerateStep ==
  ASSUME GenInv, Generate
  PROVE  GenInv'
  BY PushBlockStep, LeaveBlockStep, SetDebugLineStep, SetDebugEntryStep, SetDebugFlagsStep,
     PushOpStep, GenChunkStep, DebugItemStep, LabelItemStep, BlockItemStep, OpItemStep,
     UnknownItemStep, EndOfItemsStep, PatchLabelStep, CloseBlockStep DEF Generate

--------------------------------------------------------------------------------
(* Bytes of numbers *)

LEMMA Powers == 2 ^ 0 = 1 /\ 2 ^ 8 = 256 /\ 2 ^ 16 = 256 * 256 /\ 2 ^ 24 = 256 * (256 * 256)
  <1>1. \A n \in Nat : 2 ^ (n + 1) = 2 * 2 ^ n
    BY PowerDoubles
  <1>2. 2 ^ (0 + 1) = 2 /\ 2 ^ (1 + 1) = 4 /\ 2 ^ (2 + 1) = 8 /\ 2 ^ (3 + 1) = 16
    BY <1>1, PowerZero
  <1>3. 2 ^ 4 = 16
    BY <1>2
  <1>4. 2 ^ (4 + 1) = 32 /\ 2 ^ (5 + 1) = 64 /\ 2 ^ (6 + 1) = 128 /\ 2 ^ (7 + 1) = 256
    BY <1>1, <1>3
  <1>5. 2 ^ 8 = 256
    BY <1>4
  <1>6. 2 ^ (8 + 1) = 512 /\ 2 ^ (9 + 1) = 1024 /\ 2 ^ (10 + 1) = 2048 /\ 2 ^ (11 + 1) = 4096
    BY <1>1, <1>5
  <1>7. 2 ^ 12 = 4096
    BY <1>6
  <1>8. 2 ^ (12 + 1) = 8192 /\ 2 ^ (13 + 1) = 16384 /\ 2 ^ (14 + 1) = 32768 /\ 2 ^ (15 + 1) = 65536
    BY <1>1, <1>7
  <1>9. 2 ^ 16 = 65536
    BY <1>8
  <1>10. 2 ^ (16 + 1) = 131072 /\ 2 ^ (17 + 1) = 262144 /\ 2 ^ (18 + 1) = 524288 /\ 2 ^ (19 + 1) = 1048576
    BY <1>1, <1>9
  <1>11. 2 ^ 20 = 1048576
    BY <1>10
  <1>12. 2 ^ (20 + 1) = 2097152 /\ 2 ^ (21 + 1) = 4194304 /\ 2 ^ (22 + 1) = 8388608 /\ 2 ^ (23 + 1) = 16777216
    BY <1>1, <1>11
  <1>13. 2 ^ 24 = 16777216
    BY <1>12
  <1> QED
    BY PowerZero, <1>5, <1>9, <1>13

\* A number by its four low bytes, and its bytes by them.
Number(r0, r1, r2, r3, q) == r0 + 256 * (r1 + 256 * (r2 + 256 * (r3 + 256 * q)))

LEMMA Digit ==
  ASSUME NEW v \in Nat
  PROVE  \E q, r \in Nat : r < 256 /\ v = 256 * q + r
  <1>1. v \div 256 \in Nat /\ v % 256 \in Nat /\ v % 256 < 256 /\ v = 256 * (v \div 256) + (v % 256)
    OBVIOUS
  <1> QED
    BY <1>1, Zenon

LEMMA LowByte ==
  ASSUME NEW q \in Nat, NEW r \in Nat, r < 256
  PROVE  (256 * q + r) % 256 = r /\ (256 * q + r) \div 256 = q
  OBVIOUS

LEMMA TwoBytes ==
  ASSUME NEW q \in Nat, NEW r \in Nat, NEW s \in Nat, r < 256, s < 256
  PROVE  (256 * (256 * q + s) + r) \div (256 * 256) = q
  OBVIOUS

LEMMA ThreeBytes ==
  ASSUME NEW q \in Nat, NEW r \in Nat, NEW s \in Nat, NEW t \in Nat, r < 256, s < 256, t < 256
  PROVE  (256 * (256 * (256 * q + t) + s) + r) \div (256 * (256 * 256)) = q
  OBVIOUS

LEMMA BytesOf ==
  ASSUME NEW r0 \in Nat, NEW r1 \in Nat, NEW r2 \in Nat, NEW r3 \in Nat, NEW q \in Nat,
         r0 < 256, r1 < 256, r2 < 256, r3 < 256,
         NEW v, v = Number(r0, r1, r2, r3, q)
  PROVE  Byte(v, 0) = r0 /\ Byte(v, 1) = r1 /\ Byte(v, 2) = r2 /\ Byte(v, 3) = r3
  <1> DEFINE q3 == 256 * q + r3
             q2 == 256 * q3 + r2
             q1 == 256 * q2 + r1
  <1>1. q1 \in Nat /\ q2 \in Nat /\ q3 \in Nat
    OBVIOUS
  <1>2. v = 256 * q1 + r0 /\ v = 256 * (256 * q2 + r1) + r0 /\ v = 256 * (256 * (256 * q3 + r2) + r1) + r0
    BY DEF Number
  <1>3. q3 % 256 = r3 /\ q2 % 256 = r2 /\ q1 % 256 = r1
    BY LowByte, <1>1
  <1> HIDE DEF q1, q2, q3
  <1>4. v % 256 = r0 /\ v \div 256 = q1
    BY <1>1, <1>2, LowByte
  <1>5. v \div (256 * 256) = q2
    BY <1>1, <1>2, TwoBytes
  <1>6. v \div (256 * (256 * 256)) = q3
    BY <1>1, <1>2, ThreeBytes
  <1>7. v \div 1 = v
    BY <1>1, <1>2
  <1>8. /\ Byte(v, 0) = (v \div 2 ^ (8 * 0)) % 256 /\ Byte(v, 1) = (v \div 2 ^ (8 * 1)) % 256
        /\ Byte(v, 2) = (v \div 2 ^ (8 * 2)) % 256 /\ Byte(v, 3) = (v \div 2 ^ (8 * 3)) % 256
        /\ 8 * 0 = 0 /\ 8 * 1 = 8 /\ 8 * 2 = 16 /\ 8 * 3 = 24
    BY DEF Byte
  <1>9. /\ Byte(v, 0) = (v \div 1) % 256 /\ Byte(v, 1) = (v \div 256) % 256
        /\ Byte(v, 2) = (v \div (256 * 256)) % 256
        /\ Byte(v, 3) = (v \div (256 * (256 * 256))) % 256
    <2>1. Byte(v, 0) = (v \div 1) % 256 /\ Byte(v, 1) = (v \div 256) % 256
      BY <1>8, Powers
    <2>2. Byte(v, 2) = (v \div (256 * 256)) % 256
      BY <1>8, Powers
    <2>3. Byte(v, 3) = (v \div (256 * (256 * 256))) % 256
      BY <1>8, Powers
    <2> QED
      BY <2>1, <2>2, <2>3
  <1> QED
    BY <1>3, <1>4, <1>5, <1>6, <1>7, <1>9

LEMMA Digits ==
  ASSUME NEW v \in Nat
  PROVE  \E r0, r1, r2, r3, q \in Nat :
           /\ r0 < 256 /\ r1 < 256 /\ r2 < 256 /\ r3 < 256 /\ v = Number(r0, r1, r2, r3, q)
           /\ Byte(v, 0) = r0 /\ Byte(v, 1) = r1 /\ Byte(v, 2) = r2 /\ Byte(v, 3) = r3
  <1>1. PICK q0, r0 \in Nat : r0 < 256 /\ v = 256 * q0 + r0
    BY Digit, Zenon
  <1>2. PICK q1, r1 \in Nat : r1 < 256 /\ q0 = 256 * q1 + r1
    BY Digit, Zenon
  <1>3. PICK q2, r2 \in Nat : r2 < 256 /\ q1 = 256 * q2 + r2
    BY Digit, Zenon
  <1>4. PICK q3, r3 \in Nat : r3 < 256 /\ q2 = 256 * q3 + r3
    BY Digit, Zenon
  <1>5. v = Number(r0, r1, r2, r3, q3)
    BY <1>1, <1>2, <1>3, <1>4 DEF Number
  <1>a. r0 < 256 /\ r1 < 256 /\ r2 < 256 /\ r3 < 256
    BY <1>1, <1>2, <1>3, <1>4
  <1>6. Byte(v, 0) = r0 /\ Byte(v, 1) = r1 /\ Byte(v, 2) = r2 /\ Byte(v, 3) = r3
    BY <1>a, <1>5, BytesOf
  <1> WITNESS r0 \in Nat, r1 \in Nat, r2 \in Nat, r3 \in Nat, q3 \in Nat
  <1> QED
    BY <1>a, <1>5, <1>6

LEMMA HighPart ==
  ASSUME NEW w \in Nat, NEW q \in Nat
  PROVE  \A x \in Nat : x = w + 256 * (256 * (256 * (256 * q))) =>
           /\ Byte(w, 0) = Byte(x, 0) /\ Byte(w, 1) = Byte(x, 1)
           /\ Byte(w, 2) = Byte(x, 2) /\ Byte(w, 3) = Byte(x, 3)
  <1>1. PICK t0, t1, t2, t3, u \in Nat :
           /\ t0 < 256 /\ t1 < 256 /\ t2 < 256 /\ t3 < 256 /\ w = Number(t0, t1, t2, t3, u)
           /\ Byte(w, 0) = t0 /\ Byte(w, 1) = t1 /\ Byte(w, 2) = t2 /\ Byte(w, 3) = t3
    BY Digits, Zenon
  <1>2. \A x \in Nat : x = w + 256 * (256 * (256 * (256 * q))) => x = Number(t0, t1, t2, t3, u + q)
    BY <1>1 DEF Number
  <1>3. PICK y \in Nat : y = u + q
    OBVIOUS
  <1>4. t0 < 256 /\ t1 < 256 /\ t2 < 256 /\ t3 < 256
    BY <1>1
  <1>5. ASSUME NEW x \in Nat, x = Number(t0, t1, t2, t3, y)
        PROVE  Byte(x, 0) = t0 /\ Byte(x, 1) = t1 /\ Byte(x, 2) = t2 /\ Byte(x, 3) = t3
    BY <1>5, <1>4, BytesOf
  <1> QED
    BY <1>1, <1>2, <1>3, <1>5

LEMMA OneByte ==
  ASSUME NEW v \in Nat, v < 256
  PROVE  Byte(v, 0) = v
  <1>1. v = Number(v, 0, 0, 0, 0)
    BY DEF Number
  <1> QED
    BY <1>1, BytesOf

LEMMA HighBytes ==
  ASSUME NEW v, NEW k \in Nat, k >= 4
  PROVE  Byte(v, k) = 0
  <1>1. ~(k < 4)
    OBVIOUS
  <1> QED
    BY <1>1, Zenon DEF Byte

\* Reading four bytes and writing them back with s added leaves those of the sum.
LEMMA BytesAdded ==
  ASSUME NEW v \in Nat, NEW s \in Nat, NEW w,
         w = Byte(v, 0) + 2 ^ 8 * Byte(v, 1) + 2 ^ 16 * Byte(v, 2) + 2 ^ 24 * Byte(v, 3) + s
  PROVE  /\ w \in Nat
         /\ Byte(w, 0) = Byte(v + s, 0) /\ Byte(w, 1) = Byte(v + s, 1)
         /\ Byte(w, 2) = Byte(v + s, 2) /\ Byte(w, 3) = Byte(v + s, 3)
  <1>1. PICK r0, r1, r2, r3, q \in Nat :
           /\ r0 < 256 /\ r1 < 256 /\ r2 < 256 /\ r3 < 256 /\ v = Number(r0, r1, r2, r3, q)
           /\ Byte(v, 0) = r0 /\ Byte(v, 1) = r1 /\ Byte(v, 2) = r2 /\ Byte(v, 3) = r3
    BY Digits, Zenon
  <1>3. w = Number(r0, r1, r2, r3, 0) + s
    <2>1. w = r0 + 256 * r1 + (256 * 256) * r2 + (256 * (256 * 256)) * r3 + s
      BY <1>1, Powers, Zenon
    <2> QED
      BY <2>1 DEF Number
  <1>4. w \in Nat
    BY <1>3 DEF Number
  <1>5. v + s = w + 256 * (256 * (256 * (256 * q)))
    <2>1. v = Number(r0, r1, r2, r3, 0) + 256 * (256 * (256 * (256 * q)))
      BY <1>1 DEF Number
    <2> QED
      BY <2>1, <1>3, <1>4 DEF Number
  <1> QED
    BY <1>4, <1>5, HighPart
================================================================================
