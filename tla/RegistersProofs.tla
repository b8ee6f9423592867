--------------------------- MODULE RegistersProofs ---------------------------
(***************************************************************************)
(* Register numbers, for every value of the constants: first how the       *)
(* compiler gives them out, then what a capture records of a compilation.  *)
(*                                                                         *)
(* Numbering and binding, for every set of objects, every lists and any    *)
(* size of the register files: the invariant ties the three views of a     *)
(* table together and says where a held register can lie, among the used   *)
(* physical ones, or behind them and below the counter.                    *)
(*                                                                         *)
(* The capture session, for any number of functions, budgets and graphs:   *)
(* one invariant per part of the session, each beside Base, which types    *)
(* the compiler and says which functions the session records.              *)
(***************************************************************************)
EXTENDS Registers, CaptureSession, NaturalProofs

Typed ==
    /\ in \in Inputs
    /\ used \in [Class -> SUBSET Phys]
    /\ span \in [Class -> 0 .. NPhys] /\ savedFree \in [Class -> Nat]
    /\ counter \in [Class -> Nat] /\ last \in [Class -> Nat]
    /\ first \in [Class -> Nat] /\ checkpoint \in [Class -> Nat]
    /\ initialLast \in [Class -> Nat]
    /\ reg \in [Object -> Nat] /\ second \in [Object -> Nat]
    /\ bank \in [Object -> Class \cup {"none"}]
    /\ walk \in 1 .. Len(Walks) + 1 /\ pos \in Nat \ {0}
    /\ regPc \in {"bind", "walk", "lower", "closed", "assert"}
    /\ issued \in [Class -> SUBSET Nat]

\* The totals are those of the table.
TableAgrees ==
    \A c \in Class : span[c] = SpanOf(c, used[c]) /\ savedFree[c] = SavedFreeOf(c, used[c])

Lowered == regPc \in {"lower", "closed"}

\* The landmarks lie behind the physical registers and below the counter.
LandmarksOrdered ==
    \A c \in Class :
        /\ NPhys <= counter[c] /\ NPhys <= checkpoint[c]
        /\ first[c] <= counter[c] /\ checkpoint[c] <= counter[c]
        /\ Lowered => first[c] <= checkpoint[c]
        /\ regPc = "closed" => last[c] = counter[c]

\* A register an object may hold in class c.
Holdable(c, r) ==
    \/ r \in used[c]
    \/ NPhys <= r /\ r < counter[c] /\ (Lowered => r < checkpoint[c])

Holds(o) ==
    /\ reg[o] = 0 => second[o] = 0
    /\ reg[o] # 0 => bank[o] \in Class /\ Holdable(bank[o], reg[o])
    /\ second[o] # 0 => Holdable(bank[o], second[o])

ObjectsHold == \A o \in Object : Holds(o)

ObjectsApart ==
    \A a, b \in Object : a # b /\ bank[a] = bank[b] => RegsOf(a) \cap RegsOf(b) = {}

\* A temporary's number was above the checkpoint when it was given.
IssuedInWindow ==
    \A c \in Class : \A n \in issued[c] :
        /\ Lowered /\ checkpoint[c] <= n /\ first[c] <= n
        /\ n < counter[c] \/ n < last[c]

IInv == /\ Typed /\ TableAgrees /\ LandmarksOrdered
        /\ ObjectsHold /\ ObjectsApart /\ IssuedInWindow
-----------------------------------------------------------------------------
LEMMA LowestIsLeast ==
    ASSUME NEW S \in SUBSET Phys, S # {}
    PROVE  LowestOf(S) \in S /\ \A y \in S : LowestOf(S) <= y
  <1>1. S \in SUBSET Nat
    BY FileAssumption DEF Phys
  <1>2. \E m \in S : \A y \in S : m <= y
    BY <1>1, LeastElement
  <1>3. QED
    BY <1>2 DEF LowestOf

LEMMA HighestIsGreatest ==
    ASSUME NEW S \in SUBSET Phys, S # {}
    PROVE  HighestOf(S) \in S /\ \A y \in S : HighestOf(S) >= y
  <1> DEFINE T == { NPhys - x : x \in S }
  <1>1. T \in SUBSET Nat /\ T # {}
    BY FileAssumption DEF Phys
  <1>2. PICK m \in T : \A k \in T : m <= k
    BY <1>1, LeastElement
  <1>3. PICK x \in S : m = NPhys - x
    BY <1>2
  <1>4. ASSUME NEW y \in S PROVE x >= y
    <2>1. NPhys - y \in T
      OBVIOUS
    <2>2. NPhys - x <= NPhys - y
      BY <1>2, <1>3, <2>1
    <2>3. x \in Int /\ y \in Int /\ NPhys \in Int
      BY FileAssumption DEF Phys
    <2>4. QED
      BY <2>2, <2>3
  <1>5. \E z \in S : \A y \in S : z >= y
    BY <1>4
  <1>6. QED
    BY <1>5 DEF HighestOf

\* The totals of a table have their types.
LEMMA TotalsTyped ==
    ASSUME NEW c \in Class, NEW u \in SUBSET Phys
    PROVE  SpanOf(c, u) \in 0 .. NPhys /\ SavedFreeOf(c, u) \in Nat
  <1> DEFINE s == { r \in u : r >= ScanFrom[c] }
             v == { r \in Phys : r > SavedFloor[c] /\ r \notin u }
  <1>1. NPhys \in Nat
    BY FileAssumption
  <1>2. SpanOf(c, u) \in 0 .. NPhys
    <2>1. CASE s = {}
      BY <1>1, <2>1 DEF SpanOf
    <2>2. CASE s # {}
      <3>1. LowestOf(s) \in s
        BY <2>2, LowestIsLeast
      <3>2. LowestOf(s) \in Phys
        BY <3>1
      <3>3. SpanOf(c, u) = NPhys - LowestOf(s)
        BY <2>2 DEF SpanOf
      <3>4. QED
        BY <1>1, <3>2, <3>3 DEF Phys
    <2>3. QED
      BY <2>1, <2>2
  <1>3. SavedFreeOf(c, u) \in Nat
    <2>1. IsFiniteSet(Phys)
      BY <1>1, FS_Interval DEF Phys
    <2>2. IsFiniteSet(v)
      BY <2>1, FS_Subset
    <2>3. Cardinality(v) \in Nat
      BY <2>2, FS_CardinalityType
    <2>4. QED
      BY <2>3 DEF SavedFreeOf
  <1>4. QED
    BY <1>2, <1>3

\* Two registers are free for a pair when two saved ones are.
LEMMA PairIsFree ==
    ASSUME NEW c \in Class, NEW u \in SUBSET Phys, SavedFreeOf(c, u) >= 2
    PROVE  \E a, b \in Phys : /\ a # b /\ a >= ScanFrom[c] /\ b >= ScanFrom[c]
                              /\ a \notin u /\ b \notin u
  <1> DEFINE v == { r \in Phys : r > SavedFloor[c] /\ r \notin u }
  <1>1. IsFiniteSet(v) /\ Cardinality(v) >= 2
    <2>1. IsFiniteSet(Phys)
      BY FileAssumption, FS_Interval DEF Phys
    <2>2. IsFiniteSet(v)
      BY <2>1, FS_Subset
    <2>3. QED
      BY <2>2 DEF SavedFreeOf
  <1>2. v # {}
    BY <1>1, FS_EmptySet
  <1>3. PICK a : a \in v
    BY <1>2
  <1>4. Cardinality(v \ {a}) = Cardinality(v) - 1 /\ IsFiniteSet(v \ {a})
    BY <1>1, <1>3, FS_RemoveElement
  <1>5. v \ {a} # {}
    <2>1. Cardinality(v) \in Nat
      BY <1>1, FS_CardinalityType
    <2>2. Cardinality(v \ {a}) # 0
      BY <1>1, <1>4, <2>1
    <2>3. QED
      BY <2>2, FS_EmptySet
  <1>6. PICK b : b \in v \ {a}
    BY <1>5
  <1>7. \A r \in v : r >= ScanFrom[c]
    <2> SUFFICES ASSUME NEW r \in v PROVE r >= ScanFrom[c]
      OBVIOUS
    <2>1. r \in Int /\ ScanFrom[c] \in Int /\ SavedFloor[c] \in Int
      BY FileAssumption DEF Phys
    <2>2. ScanFrom[c] <= SavedFloor[c] + 1 /\ r > SavedFloor[c]
      BY FileAssumption
    <2>3. QED
      BY <2>1, <2>2
  <1>8. QED
    BY <1>3, <1>6, <1>7
-----------------------------------------------------------------------------
LEMMA RecordKeeps ==
    ASSUME Typed, TableAgrees, NEW c \in Class, NEW regs \in SUBSET Phys,
           Record(c, regs)
    PROVE  /\ used' \in [Class -> SUBSET Phys]
           /\ span' \in [Class -> 0 .. NPhys] /\ savedFree' \in [Class -> Nat]
           /\ TableAgrees'
           /\ used'[c] = used[c] \cup regs
           /\ \A d \in Class : used[d] \subseteq used'[d]
  <1>1. used[c] \in SUBSET Phys /\ used[c] \cup regs \in SUBSET Phys
    BY DEF Typed
  <1>2. CASE regs \subseteq used[c]
    <2>1. UNCHANGED table
      BY <1>2 DEF Record
    <2>2. QED
      BY <1>2, <2>1 DEF table, Typed, TableAgrees
  <1>3. CASE ~(regs \subseteq used[c])
    <2> DEFINE u == used[c] \cup regs
               sp == SpanOf(c, u)
               sv == SavedFreeOf(c, u)
    <2>1. sp \in 0 .. NPhys /\ sv \in Nat
      BY <1>1, TotalsTyped
    <2>2. /\ used' = [used EXCEPT ![c] = u]
          /\ span' = [span EXCEPT ![c] = sp]
          /\ savedFree' = [savedFree EXCEPT ![c] = sv]
      BY <1>3 DEF Record
    <2>3. TableAgrees'
      <3> SUFFICES ASSUME NEW d \in Class
                   PROVE  /\ span'[d] = SpanOf(d, used'[d])
                          /\ savedFree'[d] = SavedFreeOf(d, used'[d])
        BY DEF TableAgrees, SpanOf, SavedFreeOf
      <3>1. CASE d = c
        BY <2>2, <3>1 DEF Typed
      <3>2. CASE d # c
        <4>1. used'[d] = used[d] /\ span'[d] = span[d] /\ savedFree'[d] = savedFree[d]
          BY <2>2, <3>2 DEF Typed
        <4>2. QED
          BY <4>1 DEF TableAgrees
      <3>3. QED
        BY <3>1, <3>2
    <2> HIDE DEF sp, sv
    <2>4. QED
      BY <1>1, <2>1, <2>2, <2>3 DEF Typed
  <1>4. QED
    BY <1>2, <1>3

\* A register no object of class c can hold.
Fresh(c, x) == x \notin used[c] /\ (x \in Phys \/ x >= counter[c])

LEMMA FreshIsNotHoldable ==
    ASSUME Typed, LandmarksOrdered, NEW c \in Class, NEW x \in Nat, Fresh(c, x)
    PROVE  ~Holdable(c, x)
  <1>1. counter[c] \in Nat /\ NPhys \in Nat
    BY FileAssumption DEF Typed
  <1>2. QED
    BY <1>1 DEF Fresh, Holdable, Phys

\* An object without registers gets r1 and r2 (0 for none) of class c.
LEMMA GivenRegisters ==
    ASSUME IInv, NEW o \in Object, reg[o] = 0, NEW c \in Class,
           NEW r1 \in Nat, NEW r2 \in Nat, r1 = 0 => r2 = 0,
           ~Lowered, ~Lowered',
           reg'[o] = r1, second'[o] = r2, bank'[o] = c,
           \A p \in Object \ {o} :
               reg'[p] = reg[p] /\ second'[p] = second[p] /\ bank'[p] = bank[p],
           \A x \in {r1, r2} \ {0} : Fresh(c, x) /\ Holdable(c, x)',
           \A d \in Class : used[d] \subseteq used'[d] /\ counter[d] <= counter'[d],
           counter' \in [Class -> Nat]
    PROVE  ObjectsHold' /\ ObjectsApart'
  <1>1. \A d \in Class, x \in Nat : Holdable(d, x) => Holdable(d, x)'
    <2> SUFFICES ASSUME NEW d \in Class, NEW x \in Nat, Holdable(d, x)
                 PROVE  Holdable(d, x)'
      OBVIOUS
    <2>1. counter[d] \in Nat /\ counter'[d] \in Nat /\ counter[d] <= counter'[d]
      BY DEF IInv, Typed
    <2>2. used[d] \subseteq used'[d]
      OBVIOUS
    <2>3. QED
      BY <2>1, <2>2 DEF Holdable
  <1>2. \A p \in Object : reg[p] \in Nat /\ second[p] \in Nat
    BY DEF IInv, Typed
  <1>3. ObjectsHold'
    <2> SUFFICES ASSUME NEW p \in Object PROVE Holds(p)'
      BY DEF ObjectsHold
    <2>1. CASE p = o
      <3>1. reg'[p] = r1 /\ second'[p] = r2 /\ bank'[p] = c
        BY <2>1
      <3>2. r1 # 0 => Holdable(c, r1)'
        OBVIOUS
      <3>3. r2 # 0 => Holdable(c, r2)'
        OBVIOUS
      <3>4. QED
        BY <3>1, <3>2, <3>3 DEF Holds, Holdable, Lowered
    <2>2. CASE p # o
      <3>1. reg'[p] = reg[p] /\ second'[p] = second[p] /\ bank'[p] = bank[p]
        BY <2>2
      <3>2. /\ reg[p] = 0 => second[p] = 0
            /\ reg[p] # 0 => bank[p] \in Class /\ Holdable(bank[p], reg[p])
            /\ second[p] # 0 => Holdable(bank[p], second[p])
        BY DEF IInv, ObjectsHold, Holds
      <3>3. second[p] # 0 => reg[p] # 0
        BY <3>2
      <3> DEFINE d == bank[p]
                 x == reg[p]
                 y == second[p]
      <3>4. x # 0 => d \in Class /\ Holdable(d, x)
        BY <3>2
      <3>5. y # 0 => d \in Class /\ Holdable(d, y)
        BY <3>2, <3>3
      <3> HIDE DEF d, x, y
      <3>6. x \in Nat /\ y \in Nat
        BY <1>2 DEF x, y
      <3>7. QED
        BY <1>1, <3>1, <3>2, <3>4, <3>5, <3>6 DEF Holds, Holdable, Lowered, d, x, y
    <2>3. QED
      BY <2>1, <2>2
  <1>4. \A p \in Object \ {o} : bank[p] = c => {r1, r2} \cap RegsOf(p) \subseteq {0}
    <2> SUFFICES ASSUME NEW p \in Object \ {o}, bank[p] = c,
                        NEW x \in {r1, r2} \cap RegsOf(p), x # 0
                 PROVE  FALSE
      OBVIOUS
    <2>1. x \in Nat /\ Fresh(c, x)
      OBVIOUS
    <2>2. ~Holdable(c, x)
      BY <2>1, FreshIsNotHoldable DEF IInv
    <2>3. Holdable(c, x)
      BY <1>2 DEF IInv, ObjectsHold, Holds, RegsOf
    <2>4. QED
      BY <2>2, <2>3
  <1>5. ObjectsApart'
    <2> SUFFICES ASSUME NEW a \in Object, NEW b \in Object, a # b, bank'[a] = bank'[b]
                 PROVE  RegsOf(a)' \cap RegsOf(b)' = {}
      BY DEF ObjectsApart
    <2>1. RegsOf(o)' \subseteq {r1, r2} /\ 0 \notin RegsOf(o)'
      BY DEF RegsOf
    <2>2. \A p \in Object \ {o} : RegsOf(p)' = RegsOf(p) /\ bank'[p] = bank[p]
      BY DEF RegsOf
    <2>3. CASE a = o
      <3>1. bank[b] = c /\ b \in Object \ {o}
        BY <2>2, <2>3
      <3>2. QED
        BY <1>4, <2>1, <2>2, <2>3, <3>1
    <2>4. CASE b = o
      <3>1. bank[a] = c /\ a \in Object \ {o}
        BY <2>2, <2>4
      <3>2. QED
        BY <1>4, <2>1, <2>2, <2>4, <3>1
    <2>5. CASE a # o /\ b # o
      BY <2>2, <2>5 DEF IInv, ObjectsApart
    <2>6. QED
      BY <2>3, <2>4, <2>5
  <1>6. QED
    BY <1>3, <1>5
-----------------------------------------------------------------------------
LEMMA InitHolds == Init => IInv
  <1> SUFFICES ASSUME Init PROVE IInv
    OBVIOUS
  <1>1. NPhys \in Nat /\ NPhys # 0
    BY FileAssumption
  <1>2. \A c \in Class : {} \in SUBSET Phys /\ SavedFreeOf(c, {}) \in Nat
    BY TotalsTyped
  <1>3. Typed
    BY <1>1, <1>2 DEF Init, Typed, Walks
  <1>4. TableAgrees
    <2>1. \A c \in Class : SpanOf(c, {}) = 0
      BY DEF SpanOf
    <2>2. QED
      BY <2>1 DEF Init, TableAgrees
  <1>5. LandmarksOrdered /\ IssuedInWindow
    BY <1>1 DEF Init, LandmarksOrdered, IssuedInWindow, Lowered
  <1>6. ObjectsHold /\ ObjectsApart
    BY DEF Init, ObjectsHold, Holds, ObjectsApart, RegsOf
  <1>7. QED
    BY <1>3, <1>4, <1>5, <1>6 DEF IInv

\* The table gains registers; nobody's registers or numbers change.
LEMMA ReserveKeeps ==
    ASSUME IInv, NEW c \in Class, NEW r \in Phys, Reserve(c, r)
    PROVE  IInv'
  <1>1. {r} \in SUBSET Phys /\ Record(c, {r})
    BY DEF Reserve
  <1>2. /\ used' \in [Class -> SUBSET Phys]
        /\ span' \in [Class -> 0 .. NPhys] /\ savedFree' \in [Class -> Nat]
        /\ TableAgrees'
        /\ \A d \in Class : used[d] \subseteq used'[d]
    BY <1>1, RecordKeeps DEF IInv
  <1>3. UNCHANGED <<in, counter, first, last, checkpoint, initialLast, reg, second,
                    bank, walk, pos, regPc, issued>>
    BY DEF Reserve, window, info
  <1>4. Typed' /\ LandmarksOrdered' /\ IssuedInWindow' /\ ObjectsApart'
    BY <1>2, <1>3 DEF IInv, Typed, LandmarksOrdered, IssuedInWindow, Lowered,
                      ObjectsApart, RegsOf
  <1>5. ObjectsHold'
    BY <1>2, <1>3 DEF IInv, ObjectsHold, Holds, Holdable, Lowered
  <1>6. QED
    BY <1>2, <1>4, <1>5 DEF IInv

LEMMA BindKeeps ==
    ASSUME IInv, NEW o \in Object, NEW c \in Class, NEW r \in Phys, Bind(o, c, r)
    PROVE  IInv'
  <1>1. /\ {r} \in SUBSET Phys /\ Record(c, {r}) /\ r \notin used[c] /\ r \in Nat
        /\ r # 0 /\ reg[o] = 0
    BY FileAssumption DEF Bind, Phys
  <1>2. /\ used' \in [Class -> SUBSET Phys]
        /\ span' \in [Class -> 0 .. NPhys] /\ savedFree' \in [Class -> Nat]
        /\ TableAgrees' /\ r \in used'[c]
        /\ \A d \in Class : used[d] \subseteq used'[d]
    BY <1>1, RecordKeeps DEF IInv
  <1>3. /\ UNCHANGED <<in, counter, first, last, checkpoint, initialLast, second,
                       walk, pos, regPc, issued>>
        /\ reg' = [reg EXCEPT ![o] = r] /\ bank' = [bank EXCEPT ![o] = c]
        /\ regPc = "bind"
    BY DEF Bind, window
  <1>4. Typed' /\ LandmarksOrdered' /\ IssuedInWindow'
    BY <1>1, <1>2, <1>3 DEF IInv, Typed, LandmarksOrdered, IssuedInWindow, Lowered
  <1>5. ObjectsHold' /\ ObjectsApart'
    <2>1. ~Lowered /\ ~Lowered' /\ second[o] = 0
      BY <1>1, <1>3 DEF IInv, ObjectsHold, Holds, Lowered
    <2>2. /\ reg'[o] = r /\ second'[o] = 0 /\ bank'[o] = c
          /\ \A p \in Object \ {o} :
               reg'[p] = reg[p] /\ second'[p] = second[p] /\ bank'[p] = bank[p]
      BY <1>3, <2>1 DEF IInv, Typed
    <2>3. Fresh(c, r) /\ Holdable(c, r)'
      BY <1>1, <1>2 DEF Fresh, Holdable
    <2>4. \A d \in Class : counter[d] <= counter'[d]
      BY <1>3 DEF IInv, Typed
    <2>5. \A x \in {r, 0} \ {0} : Fresh(c, x) /\ Holdable(c, x)'
      BY <2>3 DEF Holdable, Fresh
    <2>6. counter' \in [Class -> Nat]
      BY <1>3 DEF IInv, Typed
    <2>7. /\ \A d \in Class : used[d] \subseteq used'[d] /\ counter[d] <= counter'[d]
          /\ 0 \in Nat
      BY <1>2, <2>4
    <2>8. QED
      BY <1>1, <2>1, <2>2, <2>5, <2>6, <2>7, GivenRegisters
  <1>6. QED
    BY <1>2, <1>4, <1>5 DEF IInv

LEMMA BindPairKeeps ==
    ASSUME IInv, NEW o \in Object, NEW r1 \in Phys, NEW r2 \in Phys,
           BindPair(o, r1, r2)
    PROVE  IInv'
  <1>1. /\ {r1, r2} \in SUBSET Phys /\ Record("GPR", {r1, r2})
        /\ r1 \notin used["GPR"] /\ r2 \notin used["GPR"]
        /\ r1 \in Nat /\ r2 \in Nat /\ r1 # 0 /\ reg[o] = 0 /\ "GPR" \in Class
    BY FileAssumption DEF BindPair, Phys, Class
  <1>2. /\ used' \in [Class -> SUBSET Phys]
        /\ span' \in [Class -> 0 .. NPhys] /\ savedFree' \in [Class -> Nat]
        /\ TableAgrees' /\ {r1, r2} \subseteq used'["GPR"]
        /\ \A d \in Class : used[d] \subseteq used'[d]
    BY <1>1, RecordKeeps DEF IInv
  <1>3. /\ UNCHANGED <<in, counter, first, last, checkpoint, initialLast,
                       walk, pos, regPc, issued>>
        /\ reg' = [reg EXCEPT ![o] = r1] /\ second' = [second EXCEPT ![o] = r2]
        /\ bank' = [bank EXCEPT ![o] = "GPR"]
        /\ regPc = "bind"
    BY DEF BindPair, window
  <1>4. Typed' /\ LandmarksOrdered' /\ IssuedInWindow'
    BY <1>1, <1>2, <1>3 DEF IInv, Typed, LandmarksOrdered, IssuedInWindow, Lowered
  <1>5. ObjectsHold' /\ ObjectsApart'
    <2>1. ~Lowered /\ ~Lowered'
      BY <1>3 DEF Lowered
    <2>2. /\ reg'[o] = r1 /\ second'[o] = r2 /\ bank'[o] = "GPR"
          /\ \A p \in Object \ {o} :
               reg'[p] = reg[p] /\ second'[p] = second[p] /\ bank'[p] = bank[p]
      BY <1>3 DEF IInv, Typed
    <2>3. \A x \in {r1, r2} \ {0} : Fresh("GPR", x) /\ Holdable("GPR", x)'
      BY <1>1, <1>2 DEF Fresh, Holdable
    <2>4. \A d \in Class : counter[d] <= counter'[d]
      BY <1>3 DEF IInv, Typed
    <2>5. counter' \in [Class -> Nat]
      BY <1>3 DEF IInv, Typed
    <2>6. QED
      BY <1>1, <1>2, <2>1, <2>2, <2>3, <2>4, <2>5, GivenRegisters
  <1>6. QED
    BY <1>2, <1>4, <1>5 DEF IInv
-----------------------------------------------------------------------------
\* What one visit of an object leaves behind.
NumberedWell ==
    /\ used' \in [Class -> SUBSET Phys]
    /\ span' \in [Class -> 0 .. NPhys] /\ savedFree' \in [Class -> Nat]
    /\ counter' \in [Class -> Nat] /\ \A d \in Class : counter[d] <= counter'[d]
    /\ reg' \in [Object -> Nat] /\ second' \in [Object -> Nat]
    /\ bank' \in [Object -> Class \cup {"none"}]
    /\ regPc' \in {"walk", "assert"}
    /\ TableAgrees' /\ ObjectsHold' /\ ObjectsApart'

\* Nothing is given.
LEMMA NothingGiven ==
    ASSUME IInv, regPc = "walk", UNCHANGED <<info, table, counter>>,
           regPc' \in {"walk", "assert"}
    PROVE  NumberedWell
  <1>1. UNCHANGED <<reg, second, bank, used, span, savedFree, counter>>
    BY DEF info, table
  <1>2. ~Lowered /\ ~Lowered'
    BY DEF Lowered
  <1>3. ObjectsHold' /\ ObjectsApart' /\ TableAgrees'
    BY <1>1, <1>2 DEF IInv, ObjectsHold, Holds, Holdable, ObjectsApart, RegsOf,
                      TableAgrees, SpanOf, SavedFreeOf
  <1>4. \A d \in Class : counter[d] <= counter'[d]
    BY <1>1 DEF IInv, Typed
  <1>5. QED
    BY <1>1, <1>3, <1>4 DEF IInv, Typed, NumberedWell

LEMMA AllocateOneKeeps ==
    ASSUME IInv, regPc = "walk", NEW o \in Object, reg[o] = 0, NEW c \in Class,
           AllocateOne(c, o)
    PROVE  NumberedWell
  <1>1. /\ bank' = [bank EXCEPT ![o] = c] /\ second' = second /\ regPc' = "walk"
        /\ second[o] = 0
    BY DEF AllocateOne, IInv, ObjectsHold, Holds
  <1>2. ~Lowered /\ ~Lowered'
    BY <1>1 DEF Lowered
  <1>3. NPhys \in Nat /\ NPhys # 0 /\ \A d \in Class : counter[d] \in Nat /\ NPhys <= counter[d]
    BY FileAssumption DEF IInv, Typed, LandmarksOrdered
  <1>4. used \in [Class -> SUBSET Phys]
    BY DEF IInv, Typed
  <1>5. \A d \in Class : counter[d] <= counter[d]
    BY <1>3
  <1>6. ASSUME NEW r \in Nat, reg'[o] = r,
               \A p \in Object \ {o} : reg'[p] = reg[p],
               r # 0 => Fresh(c, r) /\ Holdable(c, r)',
               \A d \in Class : used[d] \subseteq used'[d] /\ counter[d] <= counter'[d],
               counter' \in [Class -> Nat]
        PROVE  ObjectsHold' /\ ObjectsApart'
    <2>1. /\ second'[o] = 0 /\ bank'[o] = c
          /\ \A p \in Object \ {o} :
               reg'[p] = reg[p] /\ second'[p] = second[p] /\ bank'[p] = bank[p]
      BY <1>1, <1>6 DEF IInv, Typed
    <2>2. \A x \in {r, 0} \ {0} : Fresh(c, x) /\ Holdable(c, x)'
      BY <1>6 DEF Fresh, Holdable
    <2>3. QED
      BY <1>2, <1>6, <2>1, <2>2, GivenRegisters
  <1>7. bank' \in [Object -> Class \cup {"none"}] /\ second' \in [Object -> Nat]
    BY <1>1 DEF IInv, Typed
  <1>8. CASE in.virtual /\ reg' = [reg EXCEPT ![o] = counter[c]]
             /\ counter' = [counter EXCEPT ![c] = @ + 1] /\ UNCHANGED table
    <2>1. counter' \in [Class -> Nat] /\ \A d \in Class : counter[d] <= counter'[d]
      <3>1. counter \in [Class -> Nat]
        BY DEF IInv, Typed
      <3>2. \A d \in Class : counter'[d] = IF d = c THEN counter[d] + 1 ELSE counter[d]
        BY <1>8, <3>1
      <3>3. counter' = [d \in Class |-> counter'[d]]
        BY <1>8, <3>1
      <3>4. \A d \in Class : counter'[d] \in Nat /\ counter[d] <= counter'[d]
        BY <1>3, <3>2
      <3>5. QED
        BY <3>3, <3>4
    <2>2. UNCHANGED <<used, span, savedFree>>
      BY <1>8 DEF table
    <2>3. reg'[o] = counter[c] /\ \A p \in Object \ {o} : reg'[p] = reg[p]
      BY <1>8 DEF IInv, Typed
    <2>4. Fresh(c, counter[c])
      BY <1>3, <1>4 DEF Fresh, Phys
    <2>5. NPhys <= counter[c] /\ counter[c] < counter'[c]
      BY <1>3, <1>8 DEF IInv, Typed
    <2>6. PICK n \in Nat : n = counter[c]
      BY <1>3
    <2>7. Fresh(c, n) /\ Holdable(c, n)' /\ reg'[o] = n
      BY <1>2, <2>3, <2>4, <2>5, <2>6 DEF Holdable
    <2>8. ObjectsHold' /\ ObjectsApart'
      BY <1>6, <2>1, <2>2, <2>3, <2>7
    <2>9. TableAgrees'
      BY <2>2 DEF IInv, TableAgrees, SpanOf, SavedFreeOf
    <2>10. reg' \in [Object -> Nat]
      BY <1>3, <1>8 DEF IInv, Typed
    <2>11. QED
      BY <1>1, <1>7, <2>1, <2>2, <2>8, <2>9, <2>10 DEF NumberedWell, IInv, Typed
  <1>9. CASE ~in.virtual /\ Unused(c) # {} /\ reg' = [reg EXCEPT ![o] = HighestOf(Unused(c))]
             /\ Record(c, {HighestOf(Unused(c))}) /\ UNCHANGED counter
    <2> DEFINE r == HighestOf(Unused(c))
    <2>1. r \in Unused(c)
      BY <1>9, HighestIsGreatest DEF Unused
    <2>2. r \in Phys /\ r \notin used[c] /\ r \in Nat /\ {r} \in SUBSET Phys
      BY <2>1 DEF Unused, Phys
    <2>3. /\ reg' = [reg EXCEPT ![o] = r] /\ Record(c, {r})
      BY <1>9
    <2> HIDE DEF r
    <2>4. /\ used' \in [Class -> SUBSET Phys]
          /\ span' \in [Class -> 0 .. NPhys] /\ savedFree' \in [Class -> Nat]
          /\ TableAgrees' /\ r \in used'[c]
          /\ \A d \in Class : used[d] \subseteq used'[d]
      BY <2>2, <2>3, RecordKeeps DEF IInv
    <2>5. reg'[o] = r /\ \A p \in Object \ {o} : reg'[p] = reg[p]
      BY <2>3 DEF IInv, Typed
    <2>6. Fresh(c, r) /\ \A x : x = r => Holdable(c, x)'
      BY <2>2, <2>4 DEF Fresh, Holdable
    <2>7. reg' \in [Object -> Nat]
      BY <2>2, <2>3 DEF IInv, Typed
    <2>8. counter' \in [Class -> Nat] /\ \A d \in Class : counter[d] <= counter'[d]
      BY <1>5, <1>9 DEF IInv, Typed
    <2>9. PICK x \in Nat : x = r
      BY <2>2
    <2>10. Fresh(c, x) /\ Holdable(c, x)' /\ reg'[o] = x
      BY <2>5, <2>6, <2>9
    <2>11. ObjectsHold' /\ ObjectsApart'
      BY <1>6, <2>4, <2>5, <2>8, <2>10
    <2>12. QED
      BY <1>1, <1>7, <2>4, <2>7, <2>8, <2>11 DEF NumberedWell
  <1>10. CASE UNCHANGED <<reg, table, counter>>
    <2>1. UNCHANGED <<used, span, savedFree, reg, counter>>
      BY <1>10 DEF table
    <2>2. ObjectsHold' /\ ObjectsApart'
      BY <1>5, <1>6, <2>1 DEF IInv, Typed
    <2>3. TableAgrees'
      BY <2>1 DEF IInv, TableAgrees, SpanOf, SavedFreeOf
    <2>4. QED
      BY <1>1, <1>5, <1>7, <2>1, <2>2, <2>3 DEF NumberedWell, IInv, Typed
  <1>11. QED
    BY <1>8, <1>9, <1>10 DEF AllocateOne

LEMMA AllocatePairKeeps ==
    ASSUME IInv, regPc = "walk", NEW o \in Object, reg[o] = 0, AllocatePair(o)
    PROVE  NumberedWell
  <1> DEFINE c == "GPR"
             free == Unused(c)
             one  == HighestOf(free)
             two  == HighestOf(free \ {one})
  <1>1. /\ c \in Class /\ used \in [Class -> SUBSET Phys]
        /\ NPhys \in Nat /\ NPhys # 0
        /\ \A d \in Class : counter[d] \in Nat /\ NPhys <= counter[d]
    BY FileAssumption DEF IInv, Typed, LandmarksOrdered, Class
  <1>2. CASE in.virtual /\ reg' = [reg EXCEPT ![o] = counter[c]]
             /\ second' = [second EXCEPT ![o] = counter[c] + 1]
             /\ counter' = [counter EXCEPT ![c] = @ + 2]
             /\ bank' = [bank EXCEPT ![o] = c] /\ UNCHANGED <<table, regPc>>
    <2>1. counter' \in [Class -> Nat] /\ \A d \in Class : counter[d] <= counter'[d]
      <3>1. counter \in [Class -> Nat]
        BY DEF IInv, Typed
      <3>2. \A d \in Class : counter'[d] = IF d = c THEN counter[d] + 2 ELSE counter[d]
        BY <1>2, <3>1
      <3>3. counter' = [d \in Class |-> counter'[d]]
        BY <1>2, <3>1
      <3>4. \A d \in Class : counter'[d] \in Nat /\ counter[d] <= counter'[d]
        BY <1>1, <3>2
      <3>5. QED
        BY <3>3, <3>4
    <2>2. UNCHANGED <<used, span, savedFree>> /\ ~Lowered /\ ~Lowered'
      BY <1>2 DEF table, Lowered
    <2>3. PICK n \in Nat : n = counter[c]
      BY <1>1
    <2>4. PICK m \in Nat : m = n + 1
      BY <2>3
    <2>5. /\ reg'[o] = n /\ second'[o] = m /\ bank'[o] = c
          /\ \A p \in Object \ {o} :
               reg'[p] = reg[p] /\ second'[p] = second[p] /\ bank'[p] = bank[p]
      BY <1>2, <2>3, <2>4 DEF IInv, Typed
    <2>6. counter'[c] = n + 2 /\ NPhys <= n
      BY <1>1, <1>2, <2>3 DEF IInv, Typed
    <2>7. \A x \in {n, m} \ {0} : Fresh(c, x) /\ Holdable(c, x)'
      <3>1. \A x \in {n, m} : x \in Nat /\ counter[c] <= x /\ NPhys <= x /\ x < counter'[c]
        BY <1>1, <2>3, <2>4, <2>6
      <3>2. \A x \in {n, m} : x \notin used[c]
        BY <1>1, <3>1 DEF Phys
      <3>3. QED
        BY <1>1, <2>2, <3>1, <3>2 DEF Fresh, Holdable
    <2>8. ObjectsHold' /\ ObjectsApart'
      <3>1. n = 0 => m = 0
        BY <1>1, <2>6
      <3>2. \A d \in Class : used[d] \subseteq used'[d]
        BY <2>2
      <3>3. QED
        BY <1>1, <2>1, <2>2, <2>5, <2>7, <3>1, <3>2, GivenRegisters
    <2>9. TableAgrees'
      BY <2>2 DEF IInv, TableAgrees, SpanOf, SavedFreeOf
    <2>10. /\ reg' \in [Object -> Nat] /\ second' \in [Object -> Nat]
           /\ bank' \in [Object -> Class \cup {"none"}]
      BY <1>1, <1>2 DEF IInv, Typed
    <2>11. QED
      BY <1>2, <2>1, <2>2, <2>8, <2>9, <2>10 DEF NumberedWell, IInv, Typed
  <1>3. CASE savedFree[c] >= 2 /\ reg' = [reg EXCEPT ![o] = one]
             /\ second' = [second EXCEPT ![o] = two] /\ Record(c, {one, two})
             /\ bank' = [bank EXCEPT ![o] = c] /\ UNCHANGED <<counter, regPc>>
    <2>1. PICK a \in free, b \in free : a # b
      <3>1. SavedFreeOf(c, used[c]) >= 2
        BY <1>1, <1>3 DEF IInv, TableAgrees
      <3>2. \E a, b \in Phys : /\ a # b /\ a >= ScanFrom[c] /\ b >= ScanFrom[c]
                               /\ a \notin used[c] /\ b \notin used[c]
        BY <1>1, <3>1, PairIsFree
      <3>3. QED
        BY <3>2 DEF Unused
    <2>2. one \in free
      BY <2>1, HighestIsGreatest DEF Unused
    <2>3. two \in free \ {one}
      <3>1. free \ {one} # {} /\ free \ {one} \in SUBSET Phys
        BY <2>1 DEF Unused
      <3>2. QED
        BY <3>1, HighestIsGreatest
    <2> HIDE DEF one, two
    <2>4. PICK x \in Nat, y \in Nat : x = one /\ y = two
      BY <2>2, <2>3 DEF Unused, Phys
    <2>5. /\ x \in Phys /\ y \in Phys /\ x \notin used[c] /\ y \notin used[c]
          /\ x # 0 /\ {x, y} \in SUBSET Phys
      <3>1. x \in Phys /\ y \in Phys /\ x \notin used[c] /\ y \notin used[c]
            /\ x >= ScanFrom[c]
        BY <2>2, <2>3, <2>4 DEF Unused
      <3>2. ScanFrom[c] \in 1 .. NPhys - 1
        BY <1>1, FileAssumption
      <3>3. QED
        BY <1>1, <2>4, <3>1, <3>2
    <2>6. /\ reg' = [reg EXCEPT ![o] = x] /\ second' = [second EXCEPT ![o] = y]
          /\ Record(c, {x, y}) /\ UNCHANGED <<counter, regPc>>
          /\ bank' = [bank EXCEPT ![o] = c]
      BY <1>3, <2>4
    <2>7. /\ used' \in [Class -> SUBSET Phys]
          /\ span' \in [Class -> 0 .. NPhys] /\ savedFree' \in [Class -> Nat]
          /\ TableAgrees' /\ {x, y} \subseteq used'[c]
          /\ \A d \in Class : used[d] \subseteq used'[d]
      BY <1>1, <2>5, <2>6, RecordKeeps DEF IInv
    <2>8. /\ reg'[o] = x /\ second'[o] = y /\ bank'[o] = c
          /\ \A p \in Object \ {o} :
               reg'[p] = reg[p] /\ second'[p] = second[p] /\ bank'[p] = bank[p]
      BY <2>6 DEF IInv, Typed
    <2>9. counter' \in [Class -> Nat] /\ \A d \in Class : counter[d] <= counter'[d]
      BY <1>1, <2>6 DEF IInv, Typed
    <2>10. \A z \in {x, y} \ {0} : Fresh(c, z) /\ Holdable(c, z)'
      BY <2>5, <2>7 DEF Fresh, Holdable
    <2>11. ~Lowered /\ ~Lowered'
      BY <2>6 DEF Lowered
    <2>12. ObjectsHold' /\ ObjectsApart'
      <3>1. x = 0 => y = 0
        BY <2>5
      <3>2. \A d \in Class : used[d] \subseteq used'[d] /\ counter[d] <= counter'[d]
        BY <2>7, <2>9
      <3>3. QED
        BY <1>1, <2>8, <2>9, <2>10, <2>11, <3>1, <3>2, GivenRegisters
    <2>13. /\ reg' \in [Object -> Nat] /\ second' \in [Object -> Nat]
           /\ bank' \in [Object -> Class \cup {"none"}]
      BY <1>1, <2>6 DEF IInv, Typed
    <2>14. QED
      BY <2>6, <2>7, <2>9, <2>12, <2>13 DEF NumberedWell
  <1>4. CASE regPc' = "assert" /\ UNCHANGED <<info, table, counter>>
    BY <1>4, NothingGiven
  <1>5. QED
    BY <1>2, <1>3, <1>4 DEF AllocatePair

LEMMA VisitObjectKeeps == IInv /\ VisitObject => IInv'
  <1> SUFFICES ASSUME IInv, VisitObject PROVE IInv'
    OBVIOUS
  <1> DEFINE o == in.lists[Walks[walk]][pos]
  <1>1. /\ regPc = "walk" /\ PreallocateObject(o) /\ pos' = pos + 1
        /\ UNCHANGED <<in, first, last, checkpoint, initialLast, walk, issued>>
    BY DEF VisitObject, window
  <1>2. o \in Object /\ in.kind[o] \in Kind
    <2>1. in \in [kind : [Object -> Kind], lists : [1 .. 4 -> Seq(Object)],
                  virtual : BOOLEAN]
      BY InputsAssumption DEF IInv, Typed
    <2>2. walk \in 1 .. 5 /\ Walks[walk] \in 1 .. 4
      BY DEF IInv, Typed, VisitObject, Walks
    <2>3. in.lists[Walks[walk]] \in Seq(Object)
      BY <2>1, <2>2
    <2>4. pos \in 1 .. Len(in.lists[Walks[walk]])
      BY <2>3 DEF IInv, Typed, VisitObject
    <2>5. o \in Object
      BY <2>3, <2>4
    <2>6. QED
      BY <2>1, <2>5
  <1> HIDE DEF o
  <1>3. NumberedWell
    <2>1. CASE Skipped(o) \/ (in.kind[o] = "vector" /\ walk \notin 2 .. 4)
      BY <1>1, <2>1, NothingGiven DEF PreallocateObject
    <2>2. CASE ~Skipped(o) /\ in.kind[o] = "wide" /\ AllocatePair(o)
      BY <1>1, <1>2, <2>2, AllocatePairKeeps DEF Skipped
    <2>3. CASE ~Skipped(o) /\ in.kind[o] # "wide" /\ AllocateOne(ClassOf(o), o)
      <3>1. ClassOf(o) \in Class
        BY <1>2, <2>3 DEF ClassOf, Class, Kind, Skipped
      <3>2. QED
        BY <1>1, <1>2, <2>3, <3>1, AllocateOneKeeps DEF Skipped
    <2>4. QED
      BY <1>1, <2>1, <2>2, <2>3 DEF PreallocateObject
  <1>4. Typed'
    BY <1>1, <1>3 DEF IInv, Typed, NumberedWell
  <1>5. LandmarksOrdered'
    <2>1. ~Lowered' /\ regPc' # "closed"
      BY <1>3 DEF NumberedWell, Lowered
    <2>2. NPhys \in Nat /\ counter' \in [Class -> Nat]
      BY <1>3, FileAssumption DEF NumberedWell
    <2>3. QED
      BY <1>1, <1>3, <2>1, <2>2 DEF IInv, Typed, LandmarksOrdered, NumberedWell
  <1>6. IssuedInWindow'
    BY <1>1 DEF IInv, IssuedInWindow, Lowered
  <1>7. QED
    BY <1>3, <1>4, <1>5, <1>6 DEF IInv, NumberedWell
-----------------------------------------------------------------------------
\* Nothing held changes where the landmarks leave the checkpoint and the
\* class's counter above what is held.
LEMMA HoldingsStay ==
    ASSUME IInv, UNCHANGED <<used, reg, second, bank>>,
           \A c \in Class, x \in Nat : Holdable(c, x) => Holdable(c, x)'
    PROVE  ObjectsHold' /\ ObjectsApart'
  <1>1. ObjectsApart'
    BY DEF IInv, ObjectsApart, RegsOf
  <1>2. ASSUME NEW o \in Object PROVE Holds(o)'
    <2>1. PICK x \in Nat, y \in Nat : x = reg[o] /\ y = second[o]
      BY DEF IInv, Typed
    <2>2. PICK c : c = bank[o]
      OBVIOUS
    <2>3. /\ x = 0 => y = 0
          /\ x # 0 => c \in Class /\ Holdable(c, x)
          /\ y # 0 => Holdable(c, y)
      BY <2>1, <2>2 DEF IInv, ObjectsHold, Holds
    <2>4. /\ x # 0 => c \in Class /\ Holdable(c, x)'
          /\ y # 0 => Holdable(c, y)'
      BY <2>3
    <2>5. reg'[o] = x /\ second'[o] = y /\ bank'[o] = c
      BY <2>1, <2>2
    <2>6. QED
      BY <2>3, <2>4, <2>5 DEF Holds, Holdable
  <1>3. QED
    BY <1>1, <1>2 DEF ObjectsHold

LEMMA BeginWalksKeeps == IInv /\ BeginWalks => IInv'
  <1> SUFFICES ASSUME IInv, BeginWalks PROVE IInv'
    OBVIOUS
  <1>1. /\ UNCHANGED <<in, used, span, savedFree, counter, first, last, checkpoint,
                       initialLast, reg, second, bank, walk, pos, issued>>
        /\ ~Lowered /\ ~Lowered' /\ regPc' = "walk"
    BY DEF BeginWalks, table, window, info, Lowered
  <1>2. ObjectsHold' /\ ObjectsApart'
    BY <1>1, HoldingsStay DEF Holdable
  <1>3. Typed' /\ TableAgrees' /\ LandmarksOrdered' /\ IssuedInWindow'
    BY <1>1 DEF IInv, Typed, TableAgrees, SpanOf, SavedFreeOf, LandmarksOrdered,
                IssuedInWindow
  <1>4. QED
    BY <1>2, <1>3 DEF IInv

LEMMA EndWalkKeeps == IInv /\ EndWalk => IInv'
  <1> SUFFICES ASSUME IInv, EndWalk PROVE IInv'
    OBVIOUS
  <1>1. /\ UNCHANGED <<in, used, span, savedFree, counter, checkpoint,
                       reg, second, bank, regPc, issued>>
        /\ ~Lowered /\ ~Lowered' /\ regPc = "walk"
    BY DEF EndWalk, table, info, Lowered
  <1>2. ObjectsHold' /\ ObjectsApart'
    BY <1>1, HoldingsStay DEF Holdable
  <1>3. /\ NPhys \in Nat /\ NPhys # 0 /\ counter \in [Class -> Nat]
        /\ \A c \in Class : NPhys <= counter[c]
    BY FileAssumption DEF IInv, Typed, LandmarksOrdered
  <1>4. /\ first' \in [Class -> Nat] /\ last' \in [Class -> Nat]
        /\ \A c \in Class : first'[c] <= counter[c]
    <2>1. CASE walk = WindowOpensAfter
      <3>1. first' = counter /\ last' = counter
        BY <2>1 DEF EndWalk
      <3>2. \A c \in Class : counter[c] <= counter[c]
        BY <1>3
      <3>3. QED
        BY <1>3, <3>1, <3>2
    <2>2. CASE walk # WindowOpensAfter
      <3>1. first' = first /\ last' = last
        BY <2>2 DEF EndWalk
      <3>2. QED
        BY <3>1 DEF IInv, Typed, LandmarksOrdered
    <2>3. QED
      BY <2>1, <2>2
  <1>5. initialLast' \in [Class -> Nat]
    <2>1. \A c \in Class : counter[c] - 1 \in Nat
      BY <1>3
    <2>2. [c \in Class |-> counter[c] - 1] \in [Class -> Nat]
      BY <2>1
    <2>3. QED
      BY <2>2 DEF IInv, Typed, EndWalk
  <1>6. walk' \in 1 .. Len(Walks) + 1 /\ pos' \in Nat \ {0}
    BY DEF IInv, Typed, EndWalk, Walks
  <1>7. Typed' /\ TableAgrees' /\ LandmarksOrdered' /\ IssuedInWindow'
    BY <1>1, <1>4, <1>5, <1>6 DEF IInv, Typed, TableAgrees, SpanOf, SavedFreeOf,
       LandmarksOrdered, IssuedInWindow
  <1>8. QED
    BY <1>2, <1>7 DEF IInv

\* The checkpoint lies above every number given so far.
LEMMA CheckpointKeeps == IInv /\ CheckpointCoalesceWindow => IInv'
  <1> SUFFICES ASSUME IInv, CheckpointCoalesceWindow PROVE IInv'
    OBVIOUS
  <1>1. /\ UNCHANGED <<in, used, span, savedFree, counter, first, initialLast,
                       reg, second, bank, walk, pos, issued>>
        /\ ~Lowered /\ regPc' = "lower" /\ checkpoint' = counter /\ last' = counter
    BY DEF CheckpointCoalesceWindow, table, info, Lowered
  <1>2. ObjectsHold' /\ ObjectsApart'
    BY <1>1, HoldingsStay DEF Holdable
  <1>3. counter \in [Class -> Nat] /\ \A c \in Class : issued[c] = {}
    BY <1>1 DEF IInv, Typed, IssuedInWindow
  <1>4. Typed' /\ TableAgrees' /\ IssuedInWindow'
    BY <1>1, <1>3 DEF IInv, Typed, TableAgrees, SpanOf, SavedFreeOf, IssuedInWindow
  <1>5. LandmarksOrdered'
    <2>1. \A c \in Class : NPhys <= counter[c] /\ first[c] <= counter[c]
                            /\ counter[c] <= counter[c]
      BY <1>3 DEF IInv, LandmarksOrdered
    <2>2. QED
      BY <1>1, <2>1 DEF LandmarksOrdered
  <1>6. QED
    BY <1>2, <1>4, <1>5 DEF IInv

LEMMA NewTemporaryKeeps ==
    ASSUME IInv, NEW c \in Class, NewTemporary(c)
    PROVE  IInv'
  <1>1. /\ UNCHANGED <<in, used, span, savedFree, first, last, checkpoint, initialLast,
                       reg, second, bank, walk, pos, regPc>>
        /\ regPc = "lower" /\ Lowered /\ Lowered'
        /\ counter' = [counter EXCEPT ![c] = @ + 1]
        /\ issued' = [issued EXCEPT ![c] = @ \cup {counter[c]}]
    BY DEF NewTemporary, table, info, window, Lowered
  <1>2. /\ \A d \in Class : /\ counter[d] \in Nat /\ checkpoint[d] \in Nat
                            /\ first[d] \in Nat /\ last[d] \in Nat
                            /\ issued[d] \in SUBSET Nat
        /\ counter \in [Class -> Nat] /\ issued \in [Class -> SUBSET Nat]
    BY DEF IInv, Typed
  <1>3. /\ \A d \in Class : counter'[d] = counter[d] + (IF d = c THEN 1 ELSE 0)
        /\ \A d \in Class : issued'[d] = issued[d] \cup (IF d = c THEN {counter[d]} ELSE {})
    BY <1>1, <1>2
  <1>4. ObjectsHold' /\ ObjectsApart'
    <2>1. ASSUME NEW d \in Class, NEW x \in Nat, Holdable(d, x) PROVE Holdable(d, x)'
      BY <1>1, <1>2, <1>3, <2>1 DEF Holdable
    <2>2. QED
      BY <1>1, <2>1, HoldingsStay
  <1>5. LandmarksOrdered'
    BY <1>1, <1>2, <1>3, FileAssumption DEF IInv, LandmarksOrdered
  <1>6. IssuedInWindow'
    <2> SUFFICES ASSUME NEW d \in Class, NEW n \in issued'[d]
                 PROVE  /\ Lowered' /\ checkpoint'[d] <= n /\ first'[d] <= n
                        /\ n < counter'[d] \/ n < last'[d]
      BY DEF IssuedInWindow, Lowered
    <2>1. CASE n \in issued[d]
      <3>1. /\ checkpoint[d] <= n /\ first[d] <= n
            /\ n < counter[d] \/ n < last[d]
        BY <2>1 DEF IInv, IssuedInWindow
      <3>2. n \in Nat
        BY <1>2, <2>1
      <3>3. QED
        BY <1>1, <1>2, <1>3, <3>1, <3>2
    <2>2. CASE d = c /\ n = counter[d]
      BY <1>1, <1>2, <1>3, <2>2 DEF IInv, LandmarksOrdered
    <2>3. QED
      BY <1>3, <2>1, <2>2
  <1>7. counter' \in [Class -> Nat] /\ issued' \in [Class -> SUBSET Nat]
    BY <1>1, <1>2
  <1>8. Typed' /\ TableAgrees'
    BY <1>1, <1>7 DEF IInv, Typed, TableAgrees, SpanOf, SavedFreeOf
  <1>9. QED
    BY <1>4, <1>5, <1>6, <1>8 DEF IInv

\* A rolled-back counter stays at or above the checkpoint, and the window's
\* upper end remembers what it was.
LEMMA UpdateKeeps == IInv /\ UpdateCoalesceWindow => IInv'
  <1> SUFFICES ASSUME IInv, UpdateCoalesceWindow PROVE IInv'
    OBVIOUS
  <1>1. /\ UNCHANGED <<in, used, span, savedFree, first, checkpoint, initialLast,
                       reg, second, bank, walk, pos, regPc, issued>>
        /\ regPc = "lower" /\ Lowered /\ Lowered'
    BY DEF UpdateCoalesceWindow, table, info, Lowered
  <1>2. \A c \in Class : /\ counter[c] \in Nat /\ checkpoint[c] \in Nat
                         /\ last[c] \in Nat /\ first[c] \in Nat
                         /\ NPhys <= checkpoint[c] /\ first[c] <= checkpoint[c]
                         /\ checkpoint[c] <= counter[c]
    BY <1>1 DEF IInv, Typed, LandmarksOrdered
  <1>3. \A c \in Class :
          /\ last'[c] = Larger(last[c], counter[c])
          /\ counter'[c] = IF counter[c] > CounterLimit THEN checkpoint[c] ELSE counter[c]
    BY DEF UpdateCoalesceWindow
  <1>4. /\ last' = [c \in Class |-> last'[c]] /\ counter' = [c \in Class |-> counter'[c]]
    BY DEF UpdateCoalesceWindow
  <1>5. \A c \in Class : /\ last'[c] \in Nat /\ counter'[c] \in Nat
                         /\ checkpoint[c] <= counter'[c] /\ first[c] <= counter'[c]
                         /\ NPhys <= counter'[c]
                         /\ last[c] <= last'[c] /\ counter[c] <= last'[c]
    BY <1>2, <1>3, FileAssumption DEF Larger
  <1>6. counter' \in [Class -> Nat] /\ last' \in [Class -> Nat]
    BY <1>4, <1>5
  <1>7. ObjectsHold' /\ ObjectsApart'
    <2>1. ASSUME NEW d \in Class, NEW x \in Nat, Holdable(d, x) PROVE Holdable(d, x)'
      BY <1>1, <1>2, <1>5, <2>1 DEF Holdable
    <2>2. QED
      BY <1>1, <2>1, HoldingsStay
  <1>8. LandmarksOrdered'
    BY <1>1, <1>2, <1>5 DEF LandmarksOrdered
  <1>9. IssuedInWindow'
    <2> SUFFICES ASSUME NEW d \in Class, NEW n \in issued[d]
                 PROVE  checkpoint[d] <= n /\ first[d] <= n /\ n < last'[d]
      BY <1>1 DEF IssuedInWindow
    <2>1. /\ checkpoint[d] <= n /\ first[d] <= n
          /\ n < counter[d] \/ n < last[d]
      BY DEF IInv, IssuedInWindow
    <2>2. n \in Nat
      BY DEF IInv, Typed
    <2>3. QED
      BY <1>2, <1>5, <2>1, <2>2
  <1>10. Typed' /\ TableAgrees'
    BY <1>1, <1>6 DEF IInv, Typed, TableAgrees, SpanOf, SavedFreeOf
  <1>11. QED
    BY <1>7, <1>8, <1>9, <1>10 DEF IInv

LEMMA CloseKeeps == IInv /\ CloseCoalesceWindow => IInv'
  <1> SUFFICES ASSUME IInv, CloseCoalesceWindow PROVE IInv'
    OBVIOUS
  <1>1. /\ UNCHANGED <<in, used, span, savedFree, first, checkpoint, initialLast,
                       reg, second, bank, walk, pos, issued>>
        /\ regPc = "lower" /\ regPc' = "closed" /\ Lowered /\ Lowered'
        /\ counter' = last'
    BY DEF CloseCoalesceWindow, table, info, Lowered
  <1>2. \A c \in Class : /\ counter[c] \in Nat /\ checkpoint[c] \in Nat
                         /\ last[c] \in Nat /\ first[c] \in Nat
                         /\ NPhys <= checkpoint[c] /\ first[c] <= checkpoint[c]
                         /\ checkpoint[c] <= counter[c]
    BY <1>1 DEF IInv, Typed, LandmarksOrdered
  <1>3. \A c \in Class : last'[c] = Larger(last[c], counter[c])
    BY DEF CloseCoalesceWindow
  <1>4. last' = [c \in Class |-> last'[c]]
    BY DEF CloseCoalesceWindow
  <1>5. \A c \in Class : /\ last'[c] \in Nat /\ checkpoint[c] <= last'[c]
                         /\ first[c] <= last'[c] /\ NPhys <= last'[c]
                         /\ last[c] <= last'[c] /\ counter[c] <= last'[c]
    BY <1>2, <1>3, FileAssumption DEF Larger
  <1>6. counter' \in [Class -> Nat] /\ last' \in [Class -> Nat]
    BY <1>1, <1>4, <1>5
  <1>7. ObjectsHold' /\ ObjectsApart'
    <2>1. ASSUME NEW d \in Class, NEW x \in Nat, Holdable(d, x) PROVE Holdable(d, x)'
      BY <1>1, <1>2, <1>5, <2>1 DEF Holdable
    <2>2. QED
      BY <1>1, <2>1, HoldingsStay
  <1>8. LandmarksOrdered'
    BY <1>1, <1>2, <1>5 DEF LandmarksOrdered
  <1>9. IssuedInWindow'
    <2> SUFFICES ASSUME NEW d \in Class, NEW n \in issued[d]
                 PROVE  checkpoint[d] <= n /\ first[d] <= n /\ n < last'[d]
      BY <1>1 DEF IssuedInWindow
    <2>1. /\ checkpoint[d] <= n /\ first[d] <= n
          /\ n < counter[d] \/ n < last[d]
      BY DEF IInv, IssuedInWindow
    <2>2. n \in Nat
      BY DEF IInv, Typed
    <2>3. QED
      BY <1>2, <1>5, <2>1, <2>2
  <1>10. Typed' /\ TableAgrees'
    BY <1>1, <1>6 DEF IInv, Typed, TableAgrees, SpanOf, SavedFreeOf
  <1>11. QED
    BY <1>7, <1>8, <1>9, <1>10 DEF IInv

LEMMA UnchangedKeeps == IInv /\ UNCHANGED vars => IInv'
  <1> SUFFICES ASSUME IInv, UNCHANGED vars PROVE IInv'
    OBVIOUS
  <1>1. UNCHANGED <<in, used, span, savedFree, counter, first, last, checkpoint,
                    initialLast, reg, second, bank, walk, pos, regPc, issued>>
    BY DEF vars, table, window, info
  <1>2. ObjectsHold' /\ ObjectsApart'
    BY <1>1, HoldingsStay DEF Holdable, Lowered
  <1>3. Typed' /\ TableAgrees' /\ LandmarksOrdered' /\ IssuedInWindow'
    BY <1>1 DEF IInv, Typed, TableAgrees, SpanOf, SavedFreeOf, LandmarksOrdered,
                IssuedInWindow, Lowered
  <1>4. QED
    BY <1>2, <1>3 DEF IInv

LEMMA StepKeeps == IInv /\ [Next]_vars => IInv'
  <1> SUFFICES ASSUME IInv, [Next]_vars PROVE IInv'
    OBVIOUS
  <1>1. ASSUME NEW o \in Object, NEW c \in Class, NEW r \in Phys, Bind(o, c, r)
        PROVE  IInv'
    BY <1>1, BindKeeps
  <1>2. ASSUME NEW o \in Object, NEW r1 \in Phys, NEW r2 \in Phys, BindPair(o, r1, r2)
        PROVE  IInv'
    BY <1>2, BindPairKeeps
  <1>3. ASSUME NEW c \in Class, NEW r \in Phys, Reserve(c, r) PROVE IInv'
    BY <1>3, ReserveKeeps
  <1>4. CASE BeginWalks
    BY <1>4, BeginWalksKeeps
  <1>5. CASE VisitObject
    BY <1>5, VisitObjectKeeps
  <1>6. CASE EndWalk
    BY <1>6, EndWalkKeeps
  <1>7. CASE CheckpointCoalesceWindow
    BY <1>7, CheckpointKeeps
  <1>8. ASSUME NEW c \in Class, NewTemporary(c) PROVE IInv'
    BY <1>8, NewTemporaryKeeps
  <1>9. CASE UpdateCoalesceWindow
    BY <1>9, UpdateKeeps
  <1>10. CASE CloseCoalesceWindow
    BY <1>10, CloseKeeps
  <1>11. CASE UNCHANGED vars
    BY <1>11, UnchangedKeeps
  <1>12. QED
    BY <1>1, <1>2, <1>3, <1>4, <1>5, <1>6, <1>7, <1>8, <1>9, <1>10, <1>11
       DEF Next, Terminated

LEMMA Invariance == Spec => []IInv
  BY InitHolds, StepKeeps, PTL DEF Spec
-----------------------------------------------------------------------------
(***************************************************************************)
(* Every table, counter and landmark keeps its type, and no landmark       *)
(* passes the counter it was taken from (Registers.c, CodeGen.c).          *)
(***************************************************************************)
THEOREM TypeCorrect == Spec => []TypeOK
  <1>1. IInv => TypeOK
    BY DEF IInv, Typed, LandmarksOrdered, TypeOK
  <1>2. QED
    BY <1>1, Invariance, PTL

\* Where an object's registers lie.
LEMMA HeldRegisters ==
    ASSUME IInv, NEW o \in Object, NEW r \in RegsOf(o)
    PROVE  /\ r \in Nat /\ bank[o] \in Class
           /\ \/ r \in used[bank[o]] /\ r \in Phys /\ r < NPhys
              \/ NPhys <= r /\ r < counter[bank[o]] /\ (Lowered => r < checkpoint[bank[o]])
  <1>1. reg[o] \in Nat /\ second[o] \in Nat /\ NPhys \in Nat
        /\ used \in [Class -> SUBSET Phys]
    BY FileAssumption DEF IInv, Typed
  <1>2. r \in Nat /\ bank[o] \in Class /\ Holdable(bank[o], r)
    BY <1>1 DEF IInv, ObjectsHold, Holds, RegsOf
  <1>3. QED
    BY <1>1, <1>2 DEF Holdable, Phys

(***************************************************************************)
(* Two objects of a class never share a register, nor an object and a      *)
(* temporary, for any lists, any bindings and any number of roll-backs of  *)
(* the counter (Registers_AllocateGPR ... Registers_UpdateCoalesceWindow). *)
(***************************************************************************)
THEOREM NoSharing == Spec => []NobodySharesARegister
  <1>1. ASSUME IInv PROVE NobodySharesARegister
    <2>1. ASSUME NEW o \in Object, bank[o] # "none",
                 NEW r \in RegsOf(o) \cap issued[bank[o]]
          PROVE  FALSE
      <3>1. /\ r \in Nat /\ bank[o] \in Class /\ NPhys \in Nat
            /\ checkpoint[bank[o]] \in Nat /\ NPhys <= checkpoint[bank[o]]
        BY <1>1, <2>1, HeldRegisters, FileAssumption DEF IInv, Typed, LandmarksOrdered
      <3>2. Lowered /\ checkpoint[bank[o]] <= r
        BY <1>1, <2>1, <3>1 DEF IInv, IssuedInWindow
      <3>3. r < checkpoint[bank[o]]
        BY <1>1, <2>1, <3>1, <3>2, HeldRegisters
      <3>4. QED
        BY <3>1, <3>2, <3>3
    <2>2. QED
      BY <1>1, <2>1 DEF IInv, ObjectsApart, NobodySharesARegister
  <1>2. QED
    BY <1>1, Invariance, PTL

(***************************************************************************)
(* When the window is closed the counter that sizes colouring's graph is   *)
(* above every number ever given out, and the window holds every           *)
(* temporary's (Registers_CloseCoalesceWindow).                            *)
(***************************************************************************)
THEOREM CountCovers == Spec => []RegisterCountCovers
  <1>1. ASSUME IInv PROVE RegisterCountCovers
    <2> SUFFICES ASSUME regPc = "closed"
                 PROVE  /\ \A c \in Class : \A n \in issued[c] : n < counter[c]
                        /\ \A o \in Object : bank[o] # "none" =>
                              \A n \in RegsOf(o) : n < counter[bank[o]]
      BY DEF RegisterCountCovers
    <2>1. ASSUME NEW c \in Class, NEW n \in issued[c] PROVE n < counter[c]
      BY <1>1 DEF IInv, IssuedInWindow, LandmarksOrdered
    <2>2. ASSUME NEW o \in Object, NEW n \in RegsOf(o) PROVE n < counter[bank[o]]
      <3>1. /\ n \in Nat /\ bank[o] \in Class
            /\ n < NPhys \/ n < counter[bank[o]]
        BY <1>1, HeldRegisters
      <3>2. NPhys \in Nat /\ counter[bank[o]] \in Nat /\ NPhys <= counter[bank[o]]
        BY <1>1, <3>1, FileAssumption DEF IInv, Typed, LandmarksOrdered
      <3>3. QED
        BY <3>1, <3>2
    <2>3. QED
      BY <2>1, <2>2
  <1>2. QED
    BY <1>1, Invariance, PTL

(***************************************************************************)
(* Colouring may merge any temporary: its number lies between the window's *)
(* landmarks whatever the roll-backs (Registers_UpdateCoalesceWindow).     *)
(***************************************************************************)
THEOREM WindowCovers == Spec => []WindowCoversLowering
  <1>1. ASSUME IInv PROVE WindowCoversLowering
    <2> SUFFICES ASSUME regPc = "closed", NEW c \in Class, NEW n \in issued[c]
                 PROVE  first[c] <= n /\ n < last[c]
      BY DEF WindowCoversLowering
    <2>1. first[c] <= n /\ (n < counter[c] \/ n < last[c]) /\ last[c] = counter[c]
      BY <1>1 DEF IInv, IssuedInWindow, LandmarksOrdered
    <2>2. QED
      BY <2>1
  <1>2. QED
    BY <1>1, Invariance, PTL

(***************************************************************************)
(* An object's physical register is marked used and lies in the save area: *)
(* the table's totals are never behind the table                           *)
(* (Registers_RecordPhysicalUse and its three users).                      *)
(***************************************************************************)
THEOREM Reserving == Spec => []ObjectsAreReserved
  <1>1. ASSUME IInv PROVE ObjectsAreReserved
    <2> SUFFICES ASSUME NEW o \in Object, NEW r \in RegsOf(o) \cap Phys
                 PROVE  /\ r \in used[bank[o]]
                        /\ r >= ScanFrom[bank[o]] => r >= NPhys - span[bank[o]]
      BY DEF ObjectsAreReserved
    <2>1. bank[o] \in Class /\ r \in used[bank[o]]
      <3>1. r \in Nat /\ NPhys \in Nat /\ r < NPhys
        BY FileAssumption DEF Phys
      <3>2. QED
        BY <1>1, <3>1, HeldRegisters
    <2>2. ASSUME r >= ScanFrom[bank[o]] PROVE r >= NPhys - span[bank[o]]
      <3> DEFINE c == bank[o]
                 s == { x \in used[c] : x >= ScanFrom[c] }
      <3>1. r \in s /\ s \in SUBSET Phys
        BY <1>1, <2>1, <2>2 DEF IInv, Typed
      <3>2. LowestOf(s) \in s /\ LowestOf(s) <= r
        BY <3>1, LowestIsLeast
      <3>3. span[c] = NPhys - LowestOf(s)
        BY <1>1, <2>1, <3>1 DEF IInv, TableAgrees, SpanOf
      <3>4. NPhys \in Int /\ LowestOf(s) \in Int
        <4>1. LowestOf(s) \in Phys
          BY <3>1, <3>2
        <4>2. QED
          BY <4>1, FileAssumption DEF Phys
      <3>5. QED
        BY <3>2, <3>3, <3>4
    <2>3. QED
      BY <2>1, <2>2
  <1>2. QED
    BY <1>1, Invariance, PTL

(***************************************************************************)
(* A number once given stays: the second walk of the local objects finds   *)
(* them numbered (codegen_preallocate_object).                             *)
(***************************************************************************)
THEOREM Keeping == Spec => NumbersAreKept
  <1> DEFINE Kept == \A o \in Object :
                       reg[o] # 0 => reg'[o] = reg[o] /\ second'[o] = second[o]
  <1>1. ASSUME IInv, Next PROVE Kept \/ UNCHANGED info
    <2>1. reg \in [Object -> Nat] /\ second \in [Object -> Nat]
      BY <1>1 DEF IInv, Typed
    <2>2. ASSUME NEW o \in Object, NEW c \in Class, NEW r \in Phys, Bind(o, c, r)
          PROVE  Kept
      BY <2>1, <2>2 DEF Bind
    <2>3. ASSUME NEW o \in Object, NEW r1 \in Phys, NEW r2 \in Phys, BindPair(o, r1, r2)
          PROVE  Kept
      BY <2>1, <2>3 DEF BindPair
    <2>4. CASE VisitObject
      <3> DEFINE o == in.lists[Walks[walk]][pos]
      <3>1. PreallocateObject(o)
        BY <2>4 DEF VisitObject
      <3> HIDE DEF o
      <3>2. CASE UNCHANGED info
        BY <3>2
      <3>3. CASE reg[o] = 0 /\ AllocatePair(o)
        <4> DEFINE one == HighestOf(Unused("GPR"))
                   two == HighestOf(Unused("GPR") \ {one})
        <4>1. \/ UNCHANGED info
              \/ /\ reg' = [reg EXCEPT ![o] = counter["GPR"]]
                 /\ second' = [second EXCEPT ![o] = counter["GPR"] + 1]
              \/ /\ reg' = [reg EXCEPT ![o] = one] /\ second' = [second EXCEPT ![o] = two]
          BY <3>3 DEF AllocatePair
        <4> HIDE DEF one, two
        <4>2. QED
          BY <2>1, <3>3, <4>1
      <3>4. CASE reg[o] = 0 /\ AllocateOne(ClassOf(o), o)
        <4> DEFINE c == ClassOf(o)
                   one == HighestOf(Unused(c))
        <4>1. /\ second' = second
              /\ \/ reg' = [reg EXCEPT ![o] = counter[c]]
                 \/ reg' = [reg EXCEPT ![o] = one]
                 \/ reg' = reg
          BY <3>4 DEF AllocateOne
        <4> HIDE DEF c, one
        <4>2. QED
          BY <2>1, <3>4, <4>1
      <3>5. QED
        BY <3>1, <3>2, <3>3, <3>4 DEF PreallocateObject, Skipped
    <2>5. QED
      BY <1>1, <2>2, <2>3, <2>4 DEF Next, Reserve, BeginWalks, EndWalk,
         CheckpointCoalesceWindow, NewTemporary, UpdateCoalesceWindow,
         CloseCoalesceWindow, Terminated, vars
  <1>2. ASSUME IInv, [Next]_vars PROVE [Kept]_info
    <2>1. CASE UNCHANGED vars
      BY <2>1 DEF vars
    <2>2. QED
      BY <1>1, <1>2, <2>1
  <1>3. QED
    BY <1>2, Invariance, PTL DEF Spec, NumbersAreKept
-----------------------------------------------------------------------------
\* The walks so far have numbered everything they met (vectors apart), so an
\* object's stratum is that of the first list it is in.
ListOf(w) == in.lists[Walks[w]]

WalksVisited ==
    \A w \in 1 .. 5 : \A i \in 1 .. Len(ListOf(w)) :
        w < walk \/ (w = walk /\ i < pos) =>
            Skipped(ListOf(w)[i]) \/ in.kind[ListOf(w)[i]] = "vector"

StrataSoFar ==
    \A o \in Object : in.kind[o] # "vector" /\ reg[o] >= NPhys =>
        /\ In(o, 1) => walk = 1 \/ reg[o] <= initialLast[bank[o]]
        /\ ~In(o, 1) => walk >= 2 /\ initialLast[bank[o]] < reg[o]
        /\ In(o, 2) \/ In(o, 3) => walk <= 3 \/ reg[o] < first[bank[o]]
        /\ ~In(o, 1) /\ ~In(o, 2) /\ ~In(o, 3) => walk >= 4 /\ first[bank[o]] <= reg[o]

WalksInOrder ==
    /\ regPc = "bind" => walk = 1 /\ pos = 1 /\ \A o \in Object : reg[o] < NPhys
    /\ Lowered => walk = 6
    /\ walk >= 2 => \A c \in Class : initialLast[c] < counter[c]

StrataInv == in.virtual => WalksVisited /\ StrataSoFar /\ WalksInOrder

LEMMA ListsAreTyped ==
    ASSUME Typed
    PROVE  /\ in.kind \in [Object -> Kind]
           /\ \A l \in 1 .. 4 : in.lists[l] \in Seq(Object)
           /\ \A w \in 1 .. 5 : Walks[w] \in 1 .. 4 /\ ListOf(w) \in Seq(Object)
  <1>1. in \in [kind : [Object -> Kind], lists : [1 .. 4 -> Seq(Object)], virtual : BOOLEAN]
    BY InputsAssumption DEF Typed
  <1>2. \A w \in 1 .. 5 : Walks[w] \in 1 .. 4
    BY DEF Walks
  <1>3. QED
    BY <1>1, <1>2 DEF ListOf

\* A step outside the walks that numbers nothing.
LEMMA StrataStay ==
    ASSUME IInv, StrataInv, UNCHANGED <<in, reg, bank, first, initialLast, walk, pos>>,
           regPc' = "bind" => regPc = "bind", Lowered' => walk = 6,
           walk >= 2 => \A c \in Class : initialLast[c] < counter'[c]
    PROVE  StrataInv'
  BY DEF StrataInv, WalksVisited, StrataSoFar, WalksInOrder, ListOf, Skipped, In

LEMMA StrataAtVisit ==
    ASSUME IInv, IInv', StrataInv, VisitObject, in.virtual
    PROVE  StrataInv'
  <1> DEFINE o == ListOf(walk)[pos]
  <1>1. /\ regPc = "walk" /\ walk \in 1 .. 5 /\ pos \in 1 .. Len(ListOf(walk))
        /\ PreallocateObject(o) /\ pos' = pos + 1
        /\ UNCHANGED <<in, first, initialLast, walk>>
    <2>1. walk \in 1 .. 5 /\ pos \in Nat \ {0} /\ pos <= Len(ListOf(walk))
      <3>1. Len(Walks) = 5
        BY DEF Walks
      <3>2. QED
        BY <3>1 DEF VisitObject, IInv, Typed, ListOf
    <2>2. Len(ListOf(walk)) \in Nat
      BY <2>1, ListsAreTyped DEF IInv
    <2>3. QED
      BY <2>1, <2>2 DEF VisitObject, window, ListOf
  <1>2. o \in Object /\ in.kind[o] \in Kind /\ reg \in [Object -> Nat]
        /\ bank \in [Object -> Class \cup {"none"}]
    <2>1. ListOf(walk) \in Seq(Object) /\ in.kind \in [Object -> Kind]
      BY <1>1, ListsAreTyped DEF IInv
    <2>2. o \in Object
      BY <1>1, <2>1
    <2>3. QED
      BY <2>1, <2>2 DEF IInv, Typed
  <1> HIDE DEF o
  <1>3. \A c \in Class : counter[c] \in Nat /\ NPhys <= counter[c] /\ first[c] <= counter[c]
        /\ counter[c] <= counter'[c] /\ counter'[c] \in Nat
        /\ initialLast[c] \in Nat /\ first[c] \in Nat
    <2>1. counter \in [Class -> Nat]
      BY DEF IInv, Typed
    <2>2. \A c \in Class : counter[c] <= counter'[c]
      <3>1. CASE UNCHANGED counter
        BY <2>1, <3>1
      <3>2. CASE AllocatePair(o) /\ ~(UNCHANGED counter)
        BY <1>1, <2>1, <3>2 DEF AllocatePair
      <3>3. CASE AllocateOne(ClassOf(o), o) /\ ~(UNCHANGED counter)
        BY <1>1, <2>1, <3>3 DEF AllocateOne
      <3>4. QED
        BY <1>1, <3>1, <3>2, <3>3 DEF PreallocateObject
    <2>3. QED
      BY <2>2 DEF IInv, Typed, LandmarksOrdered
  <1>4. \/ Skipped(o) \/ in.kind[o] = "vector"
        \/ \E c \in Class : /\ ~Skipped(o) /\ reg' = [reg EXCEPT ![o] = counter[c]]
                            /\ bank' = [bank EXCEPT ![o] = c]
    <2>1. CASE ~Skipped(o) /\ in.kind[o] = "wide"
      BY <1>1, <2>1 DEF PreallocateObject, AllocatePair, Class
    <2>2. CASE ~Skipped(o) /\ in.kind[o] \in {"word", "float"}
      <3>1. ClassOf(o) \in Class
        BY <2>2 DEF ClassOf, Class
      <3>2. QED
        BY <1>1, <2>2, <3>1 DEF PreallocateObject, AllocateOne
    <2>3. QED
      BY <1>2, <2>1, <2>2 DEF Kind, Skipped
  <1>5. /\ \A p \in Object : p # o => reg'[p] = reg[p] /\ bank'[p] = bank[p]
        /\ Skipped(o) => reg' = reg /\ bank' = bank
    <2>1. CASE Skipped(o)
      BY <1>1, <2>1 DEF PreallocateObject, info
    <2>2. CASE ~Skipped(o) /\ UNCHANGED info
      BY <2>2 DEF info
    <2>3. CASE ~Skipped(o) /\ AllocatePair(o)
      <3>1. /\ reg' = [reg EXCEPT ![o] = reg'[o]] /\ bank' = [bank EXCEPT ![o] = bank'[o]]
        BY <1>1, <1>2, <2>3 DEF AllocatePair, info
      <3>2. QED
        BY <1>2, <2>3, <3>1
    <2>4. CASE ~Skipped(o) /\ AllocateOne(ClassOf(o), o)
      <3>1. /\ reg' = [reg EXCEPT ![o] = reg'[o]] /\ bank' = [bank EXCEPT ![o] = bank'[o]]
        BY <1>1, <1>2, <2>4 DEF AllocateOne
      <3>2. QED
        BY <1>2, <2>4, <3>1
    <2>5. QED
      BY <1>1, <2>1, <2>2, <2>3, <2>4 DEF PreallocateObject
  <1>6. WalksVisited'
    <2> SUFFICES ASSUME NEW w \in 1 .. 5, NEW i \in 1 .. Len(ListOf(w)),
                        w < walk \/ (w = walk /\ i < pos + 1)
                 PROVE  \/ in.kind[ListOf(w)[i]] \in {"skip", "vector"}
                        \/ reg'[ListOf(w)[i]] # 0
      BY <1>1 DEF WalksVisited, ListOf, Skipped
    <2>1. NPhys # 0 /\ NPhys \in Nat
      BY FileAssumption
    <2>2. CASE ListOf(w)[i] = o
      BY <1>2, <1>3, <1>4, <1>5, <2>1, <2>2 DEF Skipped
    <2>3. CASE ListOf(w)[i] # o
      <3>1. ListOf(w)[i] \in Object
        BY ListsAreTyped DEF IInv
      <3>2. w < walk \/ (w = walk /\ i < pos)
        BY <1>1, <2>3 DEF o
      <3>3. Skipped(ListOf(w)[i]) \/ in.kind[ListOf(w)[i]] = "vector"
        BY <3>2 DEF StrataInv, WalksVisited
      <3>4. QED
        BY <1>5, <2>3, <3>1, <3>3 DEF Skipped
    <2>4. QED
      BY <2>2, <2>3
  <1>7. ~Skipped(o) /\ in.kind[o] # "vector" =>
           /\ In(o, 1) => walk = 1
           /\ In(o, 2) \/ In(o, 3) => walk <= 3
           /\ ~In(o, 1) => walk >= 2
           /\ ~In(o, 1) /\ ~In(o, 2) /\ ~In(o, 3) => walk >= 4
    <2> SUFFICES ASSUME ~Skipped(o), in.kind[o] # "vector"
                 PROVE  /\ In(o, 1) => walk = 1
                        /\ In(o, 2) \/ In(o, 3) => walk <= 3
                        /\ ~In(o, 1) => walk >= 2
                        /\ ~In(o, 1) /\ ~In(o, 2) /\ ~In(o, 3) => walk >= 4
      OBVIOUS
    <2>1. ListOf(1) = in.lists[1] /\ ListOf(2) = in.lists[2]
          /\ ListOf(3) = in.lists[3] /\ ListOf(4) = in.lists[3]
      BY DEF ListOf, Walks
    <2>2. ASSUME NEW w \in 1 .. 5, w < walk, NEW i \in 1 .. Len(ListOf(w)) PROVE ListOf(w)[i] # o
      BY <2>2 DEF StrataInv, WalksVisited
    <2>3. In(o, 1) => walk = 1
      BY <1>1, <2>1, <2>2 DEF In
    <2>4. In(o, 2) => walk <= 2
      BY <1>1, <2>1, <2>2 DEF In
    <2>5. In(o, 3) => walk <= 3
      BY <1>1, <2>1, <2>2 DEF In
    <2>6. ListOf(walk)[pos] = o
      BY DEF o
    <2>7. /\ walk = 1 => In(o, 1)
          /\ walk = 2 => In(o, 2)
          /\ walk = 3 => In(o, 3)
      BY <1>1, <2>1, <2>6 DEF In
    <2>8. QED
      BY <1>1, <2>3, <2>4, <2>5, <2>7
  <1>8. WalksInOrder'
    <2>1. ~Lowered' /\ regPc' # "bind"
      BY <1>1 DEF Lowered, PreallocateObject, AllocatePair, AllocateOne
    <2>2. ASSUME walk >= 2, NEW c \in Class PROVE initialLast[c] < counter'[c]
      BY <1>3, <2>2 DEF StrataInv, WalksInOrder
    <2>3. QED
      BY <1>1, <2>1, <2>2 DEF WalksInOrder
  <1>9. StrataSoFar'
    <2> SUFFICES ASSUME NEW p \in Object, in.kind[p] # "vector", reg'[p] >= NPhys
                 PROVE  /\ In(p, 1) => walk = 1 \/ reg'[p] <= initialLast[bank'[p]]
                        /\ ~In(p, 1) => walk >= 2 /\ initialLast[bank'[p]] < reg'[p]
                        /\ In(p, 2) \/ In(p, 3) => walk <= 3 \/ reg'[p] < first[bank'[p]]
                        /\ ~In(p, 1) /\ ~In(p, 2) /\ ~In(p, 3) =>
                              walk >= 4 /\ first[bank'[p]] <= reg'[p]
      BY <1>1 DEF StrataSoFar, In
    <2>1. CASE p # o \/ Skipped(o)
      BY <1>5, <2>1 DEF StrataInv, StrataSoFar
    <2>2. CASE p = o /\ ~Skipped(o)
      <3>1. PICK c \in Class : reg'[o] = counter[c] /\ bank'[o] = c
        BY <1>2, <1>4, <2>2
      <3>2. walk >= 2 => initialLast[c] < counter[c]
        BY DEF StrataInv, WalksInOrder
      <3>3. QED
        BY <1>1, <1>3, <1>7, <2>2, <3>1, <3>2
    <2>3. QED
      BY <2>1, <2>2
  <1>10. QED
    BY <1>6, <1>8, <1>9 DEF StrataInv

LEMMA StrataAtEndWalk ==
    ASSUME IInv, StrataInv, EndWalk, in.virtual
    PROVE  StrataInv'
  <1>1. /\ regPc = "walk" /\ regPc' = "walk" /\ walk \in 1 .. 5
        /\ pos > Len(ListOf(walk)) /\ walk' = walk + 1 /\ pos' = 1
        /\ UNCHANGED <<in, counter, reg, bank>>
        /\ initialLast' = IF walk = 1 THEN [c \in Class |-> counter[c] - 1]
                          ELSE initialLast
        /\ first' = IF walk = 3 THEN counter ELSE first
    <2>1. Len(Walks) = 5
      BY DEF Walks
    <2>2. QED
      BY <2>1 DEF EndWalk, IInv, Typed, ListOf, info, WindowOpensAfter
  <1>2. WalksVisited'
    <2> SUFFICES ASSUME NEW w \in 1 .. 5, NEW i \in 1 .. Len(ListOf(w)),
                        w < walk + 1 \/ (w = walk + 1 /\ i < 1)
                 PROVE  Skipped(ListOf(w)[i]) \/ in.kind[ListOf(w)[i]] = "vector"
      BY <1>1 DEF WalksVisited, ListOf, Skipped
    <2>1. Len(ListOf(w)) \in Nat /\ pos \in Nat
      BY ListsAreTyped DEF IInv, Typed
    <2>2. w < walk \/ (w = walk /\ i < pos)
      BY <1>1, <2>1
    <2>3. QED
      BY <2>2 DEF StrataInv, WalksVisited
  <1>3. \A c \in Class : /\ counter[c] \in Nat /\ first[c] \in Nat
                         /\ initialLast[c] \in Nat
    BY DEF IInv, Typed
  <1>4. WalksInOrder'
    <2>1. ~Lowered'
      BY <1>1 DEF Lowered
    <2>2. ASSUME NEW c \in Class PROVE initialLast'[c] < counter'[c]
      BY <1>1, <1>3 DEF StrataInv, WalksInOrder
    <2>3. QED
      BY <1>1, <2>1, <2>2 DEF WalksInOrder
  <1>5. StrataSoFar'
    <2> SUFFICES ASSUME NEW p \in Object, in.kind[p] # "vector", reg[p] >= NPhys
                 PROVE  /\ In(p, 1) => walk' = 1 \/ reg[p] <= initialLast'[bank[p]]
                        /\ ~In(p, 1) => walk' >= 2 /\ initialLast'[bank[p]] < reg[p]
                        /\ In(p, 2) \/ In(p, 3) => walk' <= 3 \/ reg[p] < first'[bank[p]]
                        /\ ~In(p, 1) /\ ~In(p, 2) /\ ~In(p, 3) =>
                              walk' >= 4 /\ first'[bank[p]] <= reg[p]
      BY <1>1 DEF StrataSoFar, In
    <2>1. bank[p] \in Class /\ reg[p] \in Nat /\ reg[p] < counter[bank[p]]
      <3>1. NPhys \in Nat /\ NPhys # 0 /\ reg[p] \in Nat
        BY FileAssumption DEF IInv, Typed
      <3>2. reg[p] \in RegsOf(p)
        BY <3>1 DEF RegsOf
      <3>3. QED
        BY <3>1, <3>2, HeldRegisters
    <2>2. /\ In(p, 1) => walk = 1 \/ reg[p] <= initialLast[bank[p]]
          /\ ~In(p, 1) => walk >= 2 /\ initialLast[bank[p]] < reg[p]
          /\ In(p, 2) \/ In(p, 3) => walk <= 3 \/ reg[p] < first[bank[p]]
          /\ ~In(p, 1) /\ ~In(p, 2) /\ ~In(p, 3) =>
                walk >= 4 /\ first[bank[p]] <= reg[p]
      BY DEF StrataInv, StrataSoFar
    <2>3. CASE walk = 1
      BY <1>1, <1>3, <2>1, <2>2, <2>3
    <2>4. CASE walk = 3
      BY <1>1, <1>3, <2>1, <2>2, <2>4
    <2>5. CASE walk \in {2, 4, 5}
      BY <1>1, <1>3, <2>1, <2>2, <2>5
    <2>6. QED
      BY <1>1, <2>3, <2>4, <2>5
  <1>6. QED
    BY <1>2, <1>4, <1>5 DEF StrataInv

\* Binding hands out physical registers only, before the first walk.
LEMMA StrataAtBind ==
    ASSUME IInv, StrataInv, in.virtual, regPc = "bind",
           UNCHANGED <<in, counter, first, initialLast, walk, pos, regPc>>,
           \A o \in Object : reg'[o] = reg[o] \/ reg'[o] \in Phys
    PROVE  StrataInv'
  <1>1. NPhys \in Nat /\ \A r \in Phys : r < NPhys /\ ~(r >= NPhys)
    BY FileAssumption DEF Phys
  <1>2. walk = 1 /\ pos = 1 /\ \A o \in Object : reg[o] < NPhys /\ reg[o] \in Nat
    BY DEF StrataInv, WalksInOrder, IInv, Typed
  <1>3. \A o \in Object : reg'[o] < NPhys /\ ~(reg'[o] >= NPhys)
    BY <1>1, <1>2
  <1>4. WalksVisited'
    <2>1. \A w \in 1 .. 5 : Len(ListOf(w)) \in Nat
      BY ListsAreTyped DEF IInv
    <2>2. SUFFICES ASSUME NEW w \in 1 .. 5, NEW i \in 1 .. Len(ListOf(w)),
                          w < 1 \/ (w = 1 /\ i < 1)
                   PROVE  FALSE
      BY <1>2 DEF WalksVisited, ListOf
    <2>3. QED
      BY <2>1, <2>2
  <1>5. StrataSoFar' /\ WalksInOrder'
    BY <1>2, <1>3 DEF StrataSoFar, WalksInOrder, Lowered
  <1>6. QED
    BY <1>4, <1>5 DEF StrataInv

LEMMA StrataStep == IInv /\ IInv' /\ StrataInv /\ [Next]_vars => StrataInv'
  <1> SUFFICES ASSUME IInv, IInv', StrataInv, [Next]_vars, in'.virtual PROVE StrataInv'
    BY DEF StrataInv
  <1>1. in' = in
    BY DEF Next, Bind, BindPair, Reserve, BeginWalks, VisitObject, EndWalk,
       CheckpointCoalesceWindow, NewTemporary, UpdateCoalesceWindow,
       CloseCoalesceWindow, Terminated, vars
  <1>2. in.virtual
    BY <1>1
  <1>3. /\ \A c \in Class : /\ counter[c] \in Nat /\ initialLast[c] \in Nat
        /\ counter \in [Class -> Nat]
        /\ reg \in [Object -> Nat]
    BY DEF IInv, Typed
  <1>4. ASSUME NEW o \in Object, NEW c \in Class, NEW r \in Phys, Bind(o, c, r)
        PROVE  StrataInv'
    <2>1. \A p \in Object : reg'[p] = reg[p] \/ reg'[p] \in Phys
      BY <1>3, <1>4 DEF Bind
    <2>2. QED
      BY <1>2, <1>4, <2>1, StrataAtBind DEF Bind, window
  <1>5. ASSUME NEW o \in Object, NEW r1 \in Phys, NEW r2 \in Phys, BindPair(o, r1, r2)
        PROVE  StrataInv'
    <2>1. \A p \in Object : reg'[p] = reg[p] \/ reg'[p] \in Phys
      BY <1>3, <1>5 DEF BindPair
    <2>2. QED
      BY <1>2, <1>5, <2>1, StrataAtBind DEF BindPair, window
  <1>6. ASSUME NEW c \in Class, NEW r \in Phys, Reserve(c, r) PROVE StrataInv'
    BY <1>2, <1>6, StrataAtBind DEF Reserve, window, info
  <1>7. CASE VisitObject
    BY <1>2, <1>7, StrataAtVisit
  <1>8. CASE EndWalk
    BY <1>2, <1>8, StrataAtEndWalk
  <1>9. walk >= 2 => \A c \in Class : initialLast[c] < counter[c]
    BY <1>2 DEF StrataInv, WalksInOrder
  <1>10. CASE BeginWalks \/ CheckpointCoalesceWindow
    <2>1. /\ UNCHANGED <<in, reg, bank, first, initialLast, walk, pos, counter>>
          /\ regPc' # "bind"
      BY <1>10 DEF BeginWalks, CheckpointCoalesceWindow, info, window
    <2>2. Lowered' => walk = 6
      <3>1. CASE BeginWalks
        BY <3>1 DEF BeginWalks, Lowered
      <3>2. CASE CheckpointCoalesceWindow
        <4>1. Len(Walks) = 5 /\ walk \in 1 .. Len(Walks) + 1 /\ walk > Len(Walks)
          BY <3>2 DEF CheckpointCoalesceWindow, Walks, IInv, Typed
        <4>2. QED
          BY <4>1
      <3>3. QED
        BY <1>10, <3>1, <3>2
    <2>3. QED
      BY <1>9, <2>1, <2>2, StrataStay
  <1>11. CASE \/ \E c \in Class : NewTemporary(c)
              \/ UpdateCoalesceWindow \/ CloseCoalesceWindow
    <2>1. /\ UNCHANGED <<in, reg, bank, first, initialLast, walk, pos>>
          /\ regPc = "lower" /\ regPc' # "bind"
      BY <1>11 DEF NewTemporary, UpdateCoalesceWindow, CloseCoalesceWindow, info, window
    <2>2. walk = 6
      BY <1>2, <2>1 DEF StrataInv, WalksInOrder, Lowered
    <2>3. \A c \in Class : initialLast[c] < counter'[c]
      <3>1. CASE \E c \in Class : NewTemporary(c)
        <4>1. PICK d \in Class : counter' = [counter EXCEPT ![d] = @ + 1]
          BY <3>1 DEF NewTemporary
        <4>2. QED
          BY <1>3, <1>9, <2>2, <4>1
      <3>2. CASE UpdateCoalesceWindow
        BY <1>2, <3>2 DEF UpdateCoalesceWindow
      <3>3. CASE CloseCoalesceWindow
        <4>1. \A c \in Class : last[c] \in Nat /\ counter'[c] = Larger(last[c], counter[c])
          BY <3>3 DEF CloseCoalesceWindow, IInv, Typed
        <4>2. QED
          BY <1>3, <1>9, <2>2, <4>1 DEF Larger
      <3>4. QED
        BY <1>11, <3>1, <3>2, <3>3
    <2>4. QED
      BY <2>1, <2>2, <2>3, StrataStay
  <1>12. CASE UNCHANGED vars
    <2>1. UNCHANGED <<in, reg, bank, first, initialLast, walk, pos, counter, regPc>>
      BY <1>12 DEF vars, info, window
    <2>2. Lowered' => walk = 6
      BY <1>2, <2>1 DEF StrataInv, WalksInOrder, Lowered
    <2>3. QED
      BY <1>9, <2>1, <2>2, StrataStay
  <1>13. QED
    BY <1>4, <1>5, <1>6, <1>7, <1>8, <1>10, <1>11, <1>12 DEF Next, Terminated

(***************************************************************************)
(* With virtual numbers the landmarks separate the lists' objects: an      *)
(* object lies in the stratum of the first list that holds it, for any     *)
(* lists (CodeGen_PreallocateObjectRegisters).                             *)
(***************************************************************************)
THEOREM Strata == Spec => []StrataAreSeparated
  <1>1. Init => StrataInv
    <2> SUFFICES ASSUME Init PROVE StrataInv
      OBVIOUS
    <2>1. IInv
      BY InitHolds
    <2>2. NPhys \in Nat /\ NPhys # 0
      BY FileAssumption
    <2>3. walk = 1 /\ pos = 1 /\ regPc = "bind" /\ \A o \in Object : reg[o] = 0
      BY DEF Init
    <2>4. \A w \in 1 .. 5 : Len(ListOf(w)) \in Nat
      BY <2>1, ListsAreTyped DEF IInv
    <2>5. WalksVisited
      BY <2>3, <2>4 DEF WalksVisited
    <2>6. StrataSoFar /\ WalksInOrder
      BY <2>2, <2>3 DEF StrataSoFar, WalksInOrder, Lowered
    <2>7. QED
      BY <2>5, <2>6 DEF StrataInv
  <1>2. ASSUME IInv, StrataInv PROVE StrataAreSeparated
    <2> SUFFICES ASSUME Lowered, in.virtual, NEW o \in Object, reg[o] >= NPhys
                 PROVE  /\ Earliest(o, 1) => reg[o] <= initialLast[bank[o]]
                        /\ Earliest(o, 2) \/ Earliest(o, 3) =>
                              initialLast[bank[o]] < reg[o] /\ reg[o] < first[bank[o]]
                        /\ Earliest(o, 4) => first[bank[o]] <= reg[o]
      BY DEF StrataAreSeparated, Lowered
    <2>1. walk = 6
      BY <1>2 DEF StrataInv, WalksInOrder
    <2>2. in.kind[o] # "vector" =>
             /\ In(o, 1) => reg[o] <= initialLast[bank[o]]
             /\ ~In(o, 1) => initialLast[bank[o]] < reg[o]
             /\ In(o, 2) \/ In(o, 3) => reg[o] < first[bank[o]]
             /\ ~In(o, 1) /\ ~In(o, 2) /\ ~In(o, 3) => first[bank[o]] <= reg[o]
      BY <1>2, <2>1 DEF StrataInv, StrataSoFar
    <2>3. /\ 1 \in 1 .. 2 - 1 /\ 1 \in 1 .. 3 - 1
          /\ 1 \in 1 .. 4 - 1 /\ 2 \in 1 .. 4 - 1 /\ 3 \in 1 .. 4 - 1
      OBVIOUS
    <2>4. QED
      BY <2>2, <2>3 DEF Earliest
  <1>3. QED
    BY <1>1, <1>2, StrataStep, Invariance, PTL DEF Spec

------------------------------------------------------------------------------

(***************************************************************************)
(* The handlers.  A session is a record; a handler leaves alone what it    *)
(* does not name.                                                          *)
(***************************************************************************)
Fields == DOMAIN NewSession

IsSession(s) == DOMAIN s = Fields

Kept(s, t, F) == IsSession(t) /\ \A f \in Fields \ F : t[f] = s[f]

LEMMA RegisterHandlers ==
    ASSUME NEW s, IsSession(s), NEW class, NEW number
    PROVE  /\ Kept(s, OnCounterReset(s), {"registers", "frontend"})
           /\ Kept(s, OnDirectRegister(s, class, number), {"registers", "frontend"})
           /\ Kept(s, OnObjectRegister(s, class), {"objectEvent"})
           /\ Kept(s, OnObjectRegisterReturn(s, number), {"registers", "objectEvent"})
  BY DEF IsSession, Fields, Kept, OnCounterReset, OnDirectRegister, OnObjectRegister,
         OnObjectRegisterReturn, Log, NewSession

LEMMA CreationHandlers ==
    ASSUME NEW s, IsSession(s), NEW x
    PROVE  /\ Kept(s, OnWrapper(s, x), {"pendingCreations"})
           /\ Kept(s, OnBuilderReturn(s, x), {"pendingCreations", "raised", "creations"})
           /\ Kept(s, OnArenaReturn(s, x), {"allocations"})
           /\ Kept(s, OnClone(s, x), {"pendingClones"})
           /\ Kept(s, OnCloneReturn(s, x), {"pendingClones", "clones"})
  BY DEF IsSession, Fields, Kept, OnWrapper, OnBuilderReturn, OnArenaReturn, OnClone,
         OnCloneReturn, Log, NewSession

LEMMA MotionHandlers ==
    ASSUME NEW s, IsSession(s), NEW x, NEW y
    PROVE  /\ Kept(s, FinishMotion(s), {"motion", "pendingMotion"})
           /\ Kept(s, OnConsider(s, x), {"motion", "pendingMotion"})
           /\ Kept(s, OnPredicate(s, x, y), {"pendingMotion"})
           /\ Kept(s, OnAccept(s), {"pendingMotion"})
           /\ Kept(s, OnMotionFinish(s), {"motion", "pendingMotion"})
  BY DEF IsSession, Fields, Kept, FinishMotion, OnConsider, OnPredicate, OnAccept,
         OnMotionFinish, NewSession

LEMMA SelectHandlers ==
    ASSUME NEW s, IsSession(s), NEW class
    PROVE  /\ Kept(s, OnSelect(s, class), {"attempts", "returns"})
           /\ Kept(s, OnSelectReturn(s), {"returns"})
  BY DEF IsSession, Fields, Kept, OnSelect, OnSelectReturn, NewSession

LEMMA FrameHandlers ==
    ASSUME NEW s, IsSession(s), NEW x, NEW y
    PROVE  /\ Kept(s, OnSlot(s, x), {"raised", "pendingSlot"})
           /\ Kept(s, OnAlignment(s, x), {"pendingSlot"})
           /\ Kept(s, OnSlotReturn(s, x, y), {"raised", "pendingSlot", "slots"})
           /\ Kept(s, OnCheckpoint(s, x, y), {"raised", "checkpoints"})
  BY DEF IsSession, Fields, Kept, OnSlot, OnAlignment, OnSlotReturn, OnCheckpoint, Log,
         NewSession

LEMMA StageHandlers ==
    ASSUME NEW s, IsSession(s), NEW x, NEW y
    PROVE  /\ Kept(s, RecordBoundary(s, x), {"boundaries", "previous", "raised"})
           /\ Kept(s, OnStage(s, x, y), {"boundaries", "previous", "raised", "motion",
                                         "pendingMotion", "epoch", "tracing"})
           /\ s.active => Kept(s, OnAllocate(s, x), {"attempts", "boundaries", "previous", "raised"})
           /\ IsSession(BeginFunction(s, x))
  <1>1. Kept(s, RecordBoundary(s, x), {"boundaries", "previous", "raised"})
    BY DEF IsSession, Fields, Kept, RecordBoundary, NewSession
  <1>2. Kept(s, OnStage(s, x, y), {"boundaries", "previous", "raised", "motion",
                                   "pendingMotion", "epoch", "tracing"})
    BY DEF IsSession, Fields, Kept, OnStage, RecordBoundary, FinishMotion, NewSession
  <1>3. s.active => Kept(s, OnAllocate(s, x), {"attempts", "boundaries", "previous", "raised"})
    BY DEF IsSession, Fields, Kept, OnAllocate, RecordBoundary, NewSession
  <1>4. IsSession(BeginFunction(s, x))
    BY DEF IsSession, Fields, BeginFunction, NewSession
  <1> QED
    BY <1>1, <1>2, <1>3, <1>4

(***************************************************************************)
(* The compiler: what its variables hold.                                  *)
(***************************************************************************)
EpochNames == {"frontend", "initial_lowering", "backend_optimization", "post_optimization",
               "forward_peephole", "register_allocation", "epilogue_prologue",
               "epilogue_merge", "post_allocation_peephole", "final_scheduling", "final"}

LEMMA AfterEpoch ==
  /\ After("frontend") = "initial_lowering"
  /\ After("initial_lowering") = "backend_optimization"
  /\ After("backend_optimization") = "post_optimization"
  /\ After("post_optimization") = "forward_peephole"
  /\ After("forward_peephole") = "register_allocation"
  /\ After("register_allocation") = "epilogue_prologue"
  /\ After("epilogue_prologue") = "epilogue_merge"
  /\ After("epilogue_merge") = "post_allocation_peephole"
  /\ After("post_allocation_peephole") = "final_scheduling"
  /\ After("final_scheduling") = "final"
  <1> DEFINE Place(n) == n \in 1..10
  <1>1. ASSUME NEW n \in 1..10
        PROVE  (CHOOSE m \in 1..(Len(Epochs) - 1) : Epochs[m] = Epochs[n]) = n
    <2>1. Len(Epochs) = 11
      BY DEF Epochs
    <2>2. \A m \in 1..10 : Epochs[m] = Epochs[n] => m = n
      BY DEF Epochs
    <2> QED
      BY <2>1, <2>2
  <1>2. \A n \in 1..10 : After(Epochs[n]) = Epochs[1 + n]
    BY <1>1 DEF After
  <1> QED
    BY <1>2 DEF Epochs

Instruction == [address : Nat, opcode : Opcodes, registers : SUBSET (Classes \X Int)]

Wrappers == [kind : {"wrapper"}, opcode : Opcodes]
Clones == [kind : {"clone"}, of : Instruction]

Calls ==
  {Idle} \cup Wrappers \cup Clones
    \cup [kind : {"filled"}, for : Wrappers \cup Clones, address : Nat]
    \cup [kind : {"object"}, class : Classes, width : 1..2]
    \cup [kind : {"motion"}, address : Nat, passed : {0, 1, 2, 3, 4, 9}, direct : BOOLEAN,
          moved : BOOLEAN, over : BOOLEAN]
    \cup [kind : {"select"}, class : Classes, graph : Graphs]
    \cup [kind : {"homing"}, rest : Seq(LocalRecord)]
    \cup [kind : {"slot"}, of : LocalRecord, rest : Seq(LocalRecord), at : {"entry", "aligned"}]
    \cup [kind : {"frame"}, next : {"middle", "return"}]

(* The stretches in which an operation can be under way.                   *)
EpochsOf(c) ==
  CASE c.kind = "none" -> EpochNames
    [] c.kind \in {"object", "homing", "slot"} -> {"initial_lowering"}
    [] c.kind = "wrapper" -> {"initial_lowering", "backend_optimization",
                              "register_allocation", "epilogue_prologue"}
    [] c.kind \in {"clone", "motion"} -> {"backend_optimization"}
    [] c.kind = "filled" -> IF c.for.kind = "clone" THEN {"backend_optimization"}
                            ELSE {"initial_lowering", "backend_optimization",
                                  "register_allocation", "epilogue_prologue"}
    [] c.kind = "select" -> {"register_allocation"}
    [] c.kind = "frame" -> {"epilogue_prologue"}

Shaped ==
  /\ function \in 0..Functions /\ epoch \in EpochNames
  /\ code \in Seq(Instruction) /\ heap \in Nat /\ counts \in [Classes -> Nat]
  /\ call \in Calls /\ epoch \in EpochsOf(call)
  /\ left.locals \in Seq(LocalRecord)
  /\ DOMAIN left = {"temps", "objects", "emits", "clones", "others", "deletes", "motions",
                    "selections", "locals"}
  /\ DOMAIN frame = {"cursor", "slots"}
  /\ DOMAIN facts = {"origin", "moves", "selections", "done"}
  /\ DOMAIN disk = {"stage", "motion", "homes", "frames", "coloring"}
  /\ IsSession(session)

LEMMA ShapedInit == CaptureInit => Shaped
  <1> SUFFICES ASSUME CaptureInit PROVE Shaped
    OBVIOUS
  <1>1. IsSession(session)
    BY DEF CaptureInit, IsSession, Fields
  <1>2. counts \in [Classes -> Nat] /\ function \in 0..Functions /\ code \in Seq(Instruction)
    BY FunctionsAssumption, FirstVirtualAssumption DEF CaptureInit, NoCounts
  <1>3. call = Idle /\ Idle \in Calls /\ Idle.kind = "none"
    BY DEF CaptureInit, Calls, Idle
  <1>4. epoch \in EpochNames /\ epoch \in EpochsOf(call)
    BY <1>3 DEF CaptureInit, EpochNames, EpochsOf
  <1>5. /\ left.locals \in Seq(LocalRecord)
        /\ DOMAIN left = {"temps", "objects", "emits", "clones", "others", "deletes", "motions",
                          "selections", "locals"}
    BY BudgetsAssumption DEF CaptureInit
  <1>6. /\ DOMAIN frame = {"cursor", "slots"}
        /\ DOMAIN facts = {"origin", "moves", "selections", "done"}
        /\ DOMAIN disk = {"stage", "motion", "homes", "frames", "coloring"}
        /\ heap \in Nat
    BY DEF CaptureInit
  <1> QED
    BY <1>1, <1>2, <1>3, <1>4, <1>5, <1>6 DEF Shaped

(***************************************************************************)
(* The actions, by what they do to the session.                            *)
(***************************************************************************)
Timeless == <<function, epoch, target>>

LEMMA OperationKinds ==
    ASSUME NEW c \in Calls
    PROVE  /\ c.kind = "none" => c = Idle
           /\ c.kind = "object" => c.class \in Classes /\ c.width \in 1..2
           /\ c.kind = "wrapper" => c \in Wrappers
           /\ c.kind = "clone" => c \in Clones
           /\ c.kind = "filled" => c.for \in Wrappers \cup Clones /\ c.address \in Nat
           /\ c.kind = "motion" => c \in [kind : {"motion"}, address : Nat,
                                          passed : {0, 1, 2, 3, 4, 9}, direct : BOOLEAN,
                                          moved : BOOLEAN, over : BOOLEAN]
           /\ c.kind = "select" => c.class \in Classes /\ c.graph \in Graphs
           /\ c.kind = "homing" => c.rest \in Seq(LocalRecord)
           /\ c.kind = "slot" => /\ c.rest \in Seq(LocalRecord) /\ c.of \in LocalRecord
                                 /\ c \in [kind : {"slot"}, of : LocalRecord,
                                           rest : Seq(LocalRecord), at : {"entry", "aligned"}]
           /\ c.kind = "frame" => c \in [kind : {"frame"}, next : {"middle", "return"}]
  BY DEF Calls, Idle, Wrappers, Clones

LEMMA ShapedDirectRegister ==
    ASSUME Shaped, NEW c \in Classes, DirectRegister(c)
    PROVE  Shaped' /\ Kept(session, session', {"registers", "frontend"})
  <1>1. Kept(session, session', {"registers", "frontend"})
    BY RegisterHandlers DEF DirectRegister, Shaped
  <1>2. counts' \in [Classes -> Nat] /\ DOMAIN left' = DOMAIN left /\ left'.locals = left.locals
    BY DEF DirectRegister, Shaped
  <1> QED
    BY <1>1, <1>2 DEF DirectRegister, Shaped, Kept

LEMMA ShapedEnterObjectRegister ==
    ASSUME Shaped, NEW c \in Classes, NEW width \in 1..2, EnterObjectRegister(c, width)
    PROVE  Shaped' /\ Kept(session, session', {"objectEvent"})
  <1>1. Kept(session, session', {"objectEvent"})
    BY RegisterHandlers DEF EnterObjectRegister, Shaped
  <1>2. DOMAIN left' = DOMAIN left /\ left'.locals = left.locals
    BY DEF EnterObjectRegister, Shaped
  <1>3. call' \in Calls /\ epoch' \in EpochsOf(call')
    BY DEF EnterObjectRegister, Calls, EpochsOf
  <1> QED
    BY <1>1, <1>2, <1>3 DEF EnterObjectRegister, Shaped, Kept

LEMMA ShapedReturnObjectRegister ==
    ASSUME Shaped, ReturnObjectRegister
    PROVE  Shaped' /\ Kept(session, session', {"registers", "objectEvent"})
  <1>1. Kept(session, session', {"registers", "objectEvent"})
    BY RegisterHandlers DEF ReturnObjectRegister, Shaped
  <1>2. call.class \in Classes /\ call.width \in Nat
    BY OperationKinds DEF ReturnObjectRegister, Shaped
  <1>3. counts' \in [Classes -> Nat]
    BY <1>2 DEF ReturnObjectRegister, Shaped
  <1>4. call' \in Calls /\ epoch' \in EpochsOf(call')
    BY DEF ReturnObjectRegister, Calls, EpochsOf, Idle, Shaped
  <1> QED
    BY <1>1, <1>3, <1>4 DEF ReturnObjectRegister, Shaped, Kept

LEMMA ShapedEnterWrapper ==
    ASSUME Shaped, NEW opcode \in Opcodes, EnterWrapper(opcode)
    PROVE  Shaped' /\ Kept(session, session', {"pendingCreations"})
  <1>1. Kept(session, session', {"pendingCreations"})
    BY CreationHandlers DEF EnterWrapper, Shaped
  <1>2. DOMAIN left' = DOMAIN left /\ left'.locals = left.locals
    BY DEF EnterWrapper, Shaped
  <1>3. call' \in Calls /\ epoch' \in EpochsOf(call')
    BY DEF EnterWrapper, Calls, Wrappers, EpochsOf
  <1> QED
    BY <1>1, <1>2, <1>3 DEF EnterWrapper, Shaped, Kept

LEMMA ShapedEnterClone ==
    ASSUME Shaped, NEW n \in DOMAIN code, EnterClone(n)
    PROVE  Shaped' /\ Kept(session, session', {"pendingClones"})
  <1>1. Kept(session, session', {"pendingClones"})
    BY CreationHandlers DEF EnterClone, Shaped
  <1>2. DOMAIN left' = DOMAIN left /\ left'.locals = left.locals
    BY DEF EnterClone, Shaped
  <1>3. code[n] \in Instruction
    BY DEF Shaped
  <1>4. call' \in Calls /\ epoch' \in EpochsOf(call')
    BY <1>3 DEF EnterClone, Calls, Clones, EpochsOf
  <1> QED
    BY <1>1, <1>2, <1>4 DEF EnterClone, Shaped, Kept

LEMMA ShapedReturnFromArena ==
    ASSUME Shaped, ReturnFromArena
    PROVE  Shaped' /\ Kept(session, session', {"allocations"})
  <1>1. Kept(session, session', {"allocations"})
    BY CreationHandlers DEF ReturnFromArena, Shaped
  <1>2. DOMAIN left' = DOMAIN left /\ left'.locals = left.locals
    BY DEF ReturnFromArena, Shaped
  <1>3. call' \in Calls /\ epoch' \in EpochsOf(call')
    <2>1. CASE call' = [kind |-> "filled", for |-> call, address |-> heap]
                 /\ call.kind \in {"wrapper", "clone"}
      <3>1. call \in Wrappers \cup Clones
        BY <2>1, OperationKinds DEF Shaped
      <3>2. call' \in Calls
        BY <2>1, <3>1 DEF Calls, Shaped
      <3>3. epoch' = epoch /\ epoch \in EpochsOf(call)
        BY DEF ReturnFromArena, Shaped
      <3> QED
        BY <2>1, <3>2, <3>3 DEF EpochsOf
    <2> QED
      BY <2>1 DEF ReturnFromArena, Shaped
  <1>4. heap' \in Nat
    BY DEF ReturnFromArena, Shaped
  <1> QED
    BY <1>1, <1>2, <1>3, <1>4 DEF ReturnFromArena, Shaped, Kept

LEMMA ShapedReturnBuilder ==
    ASSUME Shaped, NEW registers \in SUBSET (Classes \X Int), ReturnBuilder(registers)
    PROVE  Shaped' /\ Kept(session, session', {"pendingCreations", "raised", "creations"})
  <1>1. Kept(session, session', {"pendingCreations", "raised", "creations"})
    BY CreationHandlers DEF ReturnBuilder, Shaped
  <1>2. call.address \in Nat /\ call.for.opcode \in Opcodes
    BY OperationKinds DEF ReturnBuilder, Shaped, Wrappers, Clones
  <1>3. code' \in Seq(Instruction)
    BY <1>2 DEF ReturnBuilder, Shaped, Instruction
  <1>4. call' \in Calls /\ epoch' \in EpochsOf(call')
    BY DEF ReturnBuilder, Calls, EpochsOf, Idle, Shaped
  <1>5. DOMAIN facts' = DOMAIN facts
    BY DEF ReturnBuilder
  <1> QED
    BY <1>1, <1>3, <1>4, <1>5 DEF ReturnBuilder, Shaped, Kept

LEMMA ShapedReturnClone ==
    ASSUME Shaped, ReturnClone
    PROVE  Shaped' /\ Kept(session, session', {"pendingClones", "clones"})
  <1>1. Kept(session, session', {"pendingClones", "clones"})
    BY CreationHandlers DEF ReturnClone, Shaped
  <1>2. call.address \in Nat /\ call.for.of \in Instruction
    BY OperationKinds DEF ReturnClone, Shaped, Wrappers, Clones
  <1>3. code' \in Seq(Instruction)
    <2>1. [call.for.of EXCEPT !.address = call.address] \in Instruction
      BY <1>2 DEF Instruction
    <2> QED
      BY <2>1 DEF ReturnClone, Shaped
  <1>4. call' \in Calls /\ epoch' \in EpochsOf(call')
    BY DEF ReturnClone, Calls, EpochsOf, Idle, Shaped
  <1>5. DOMAIN facts' = DOMAIN facts
    BY DEF ReturnClone
  <1> QED
    BY <1>1, <1>3, <1>4, <1>5 DEF ReturnClone, Shaped, Kept

LEMMA ShapedUnlink ==
    ASSUME Shaped, NEW n \in DOMAIN code, Unlink(n)
    PROVE  Shaped' /\ session' = session
  <1>1. code' \in Seq(Instruction)
    BY DEF Unlink, Shaped, RemoveAt
  <1>2. DOMAIN left' = DOMAIN left /\ left'.locals = left.locals
    BY DEF Unlink, Shaped
  <1> QED
    BY <1>1, <1>2 DEF Unlink, Shaped

LEMMA WithoutRegisterUnfolds ==
    ASSUME NEW locals \in Seq(LocalRecord)
    PROVE  \E f \in [0..Len(locals) -> Seq(LocalRecord)] :
             /\ WithoutRegister(locals) = f[Len(locals)] /\ f[0] = <<>>
             /\ \A n \in 1..Len(locals) :
                  f[n] = IF locals[n].register = 0 THEN Append(f[n - 1], locals[n]) ELSE f[n - 1]
  <1> DEFINE S == Seq(LocalRecord)
             F == [p \in (1..Len(locals)) \X S |->
                     IF locals[p[1]].register = 0 THEN Append(p[2], locals[p[1]]) ELSE p[2]]
             Body(g) == [n \in 0..Len(locals) |->
                           IF n = 0 THEN <<>>
                           ELSE IF locals[n].register = 0 THEN Append(g[n - 1], locals[n])
                                ELSE g[n - 1]]
             G == CHOOSE g : g = Body(g)
  <1>1. Len(locals) \in Nat /\ <<>> \in S
    OBVIOUS
  <1>2. F \in [(1..Len(locals)) \X S -> S]
    <2> SUFFICES ASSUME NEW p \in (1..Len(locals)) \X S
                 PROVE  (IF locals[p[1]].register = 0 THEN Append(p[2], locals[p[1]]) ELSE p[2]) \in S
      OBVIOUS
    <2>1. p[1] \in 1..Len(locals) /\ p[2] \in S /\ locals[p[1]] \in LocalRecord
      OBVIOUS
    <2>2. Append(p[2], locals[p[1]]) \in S
      BY <2>1
    <2> QED
      BY <2>1, <2>2
  <1>3. \A n \in 1..Len(locals), x \in S :
          F[<<n, x>>] = IF locals[n].register = 0 THEN Append(x, locals[n]) ELSE x
    OBVIOUS
  <1> HIDE DEF F, S
  <1>4. PICK g : Recurses(g, <<>>, F, S, Len(locals))
    BY <1>1, <1>2, BoundedRecursion
  <1>5. g \in [0..Len(locals) -> S] /\ g[0] = <<>>
    BY <1>4 DEF Recurses
  <1>6. ASSUME NEW n \in 1..Len(locals)
        PROVE  g[n] = IF locals[n].register = 0 THEN Append(g[n - 1], locals[n]) ELSE g[n - 1]
    <2>1. n - 1 \in 0..Len(locals) /\ g[n - 1] \in S
      BY <1>1, <1>5
    <2>2. g[n] = F[<<n, g[n - 1]>>]
      BY <1>4 DEF Recurses
    <2> QED
      BY <1>3, <2>1, <2>2
  <1>7. g = Body(g)
    <2>1. \A n \in 0..Len(locals) : n = 0 \/ n \in 1..Len(locals)
      BY <1>1
    <2>2. \A n \in 0..Len(locals) : g[n] = Body(g)[n]
      BY <1>5, <1>6, <2>1
    <2> QED
      BY <1>5, <2>2
  <1> HIDE DEF Body
  <1>8. G = Body(G)
    BY <1>7, Zenon
  <1>9. WithoutRegister(locals) = G[Len(locals)]
    BY Zenon DEF WithoutRegister, G, Body
  <1> HIDE DEF G
  <1>10. /\ G[0] = <<>>
         /\ \A n \in 1..Len(locals) :
              G[n] = IF locals[n].register = 0 THEN Append(G[n - 1], locals[n]) ELSE G[n - 1]
    <2>1. \A n \in 0..Len(locals) :
            G[n] = IF n = 0 THEN <<>>
                   ELSE IF locals[n].register = 0 THEN Append(G[n - 1], locals[n]) ELSE G[n - 1]
      BY <1>8, Zenon DEF Body
    <2>2. 0 \in 0..Len(locals) /\ \A n \in 1..Len(locals) : n \in 0..Len(locals) /\ n # 0
      BY <1>1
    <2> QED
      BY <2>1, <2>2, Zenon
  <1>11. G = g
    <2> DEFINE P == {n \in Nat : n <= Len(locals) => G[n] = g[n]}
    <2>1. 0 \in P
      BY <1>5, <1>10
    <2>2. ASSUME NEW n \in Nat, n \in P PROVE n + 1 \in P
      <3> SUFFICES ASSUME n + 1 <= Len(locals) PROVE G[n + 1] = g[n + 1]
        OBVIOUS
      <3>0. n <= Len(locals)
        BY <1>1
      <3>1. n + 1 \in 1..Len(locals) /\ (n + 1) - 1 = n /\ G[n] = g[n]
        BY <2>2, <1>1, <3>0
      <3> QED
        BY <1>6, <1>10, <3>1
    <2> HIDE DEF P
    <2>3. Nat \subseteq P
      BY <2>1, <2>2, Induction
    <2>4. \A n \in 0..Len(locals) : G[n] = g[n]
      BY <1>1, <2>3 DEF P
    <2>5. G = [n \in 0..Len(locals) |-> G[n]]
      BY <1>8 DEF Body
    <2> QED
      BY <1>5, <2>4, <2>5
  <1> QED
    BY <1>5, <1>9, <1>10, <1>11 DEF S

LEMMA WithoutRegisterIsExact ==
    ASSUME NEW locals \in Seq(LocalRecord)
    PROVE  /\ WithoutRegister(locals) \in Seq(LocalRecord)
           /\ \A x : (\E n \in DOMAIN WithoutRegister(locals) : WithoutRegister(locals)[n] = x) <=>
                     \E n \in DOMAIN locals : locals[n] = x /\ x.register = 0
  <1> DEFINE Among(s, x) == \E n \in DOMAIN s : s[n] = x
  <1>1. Len(locals) \in Nat /\ DOMAIN locals = 1..Len(locals)
        /\ \A n \in 1..Len(locals) : locals[n] \in LocalRecord
    OBVIOUS
  <1>2. PICK f \in [0..Len(locals) -> Seq(LocalRecord)] :
          /\ WithoutRegister(locals) = f[Len(locals)] /\ f[0] = <<>>
          /\ \A n \in 1..Len(locals) :
               f[n] = IF locals[n].register = 0 THEN Append(f[n - 1], locals[n]) ELSE f[n - 1]
    BY WithoutRegisterUnfolds
  <1> DEFINE P == {n \in Nat : n <= Len(locals) =>
                     \A x : Among(f[n], x) <=> \E k \in 1..n : locals[k] = x /\ x.register = 0}
  <1>3. 0 \in P
    BY <1>1, <1>2
  <1>4. ASSUME NEW n \in Nat, n \in P PROVE n + 1 \in P
    <2> HIDE DEF Among
    <2> SUFFICES n + 1 <= Len(locals) =>
                   \A x : Among(f[n + 1], x) <=>
                               \E k \in 1..(n + 1) : locals[k] = x /\ x.register = 0
      <3>1. n + 1 \in Nat
        OBVIOUS
      <3> QED
        BY <3>1, Zenon DEF P
    <2> HAVE n + 1 <= Len(locals)
    <2> TAKE x
    <2>1. n + 1 \in 1..Len(locals) /\ (n + 1) - 1 = n /\ n \in 0..Len(locals) /\ n <= Len(locals)
      BY <1>1
    <2>2. f[n] \in Seq(LocalRecord)
      BY <2>1
    <2>3. \A k : k \in 1..(n + 1) <=> k \in 1..n \/ k = n + 1
      BY SMT
    <2>4. Among(f[n], x) <=> \E k \in 1..n : locals[k] = x /\ x.register = 0
      BY <1>4, <2>1
    <2>5. CASE locals[n + 1].register = 0
      <3>1. f[n + 1] = Append(f[n], locals[n + 1])
        BY <1>2, <2>1, <2>5
      <3>2. Among(f[n + 1], x) <=> Among(f[n], x) \/ x = locals[n + 1]
        <4> DEFINE y == locals[n + 1]
        <4> HIDE DEF y
        <4>1. /\ Len(f[n]) \in Nat /\ DOMAIN f[n] = 1..Len(f[n])
              /\ DOMAIN Append(f[n], y) = 1..(Len(f[n]) + 1)
              /\ \A k \in 1..Len(f[n]) : Append(f[n], y)[k] = f[n][k]
              /\ Append(f[n], y)[Len(f[n]) + 1] = y
          BY <2>2
        <4>2. Len(f[n]) + 1 \in 1..(Len(f[n]) + 1)
              /\ \A k : k \in 1..(Len(f[n]) + 1) <=> k \in 1..Len(f[n]) \/ k = Len(f[n]) + 1
          BY <4>1
        <4>3. Among(Append(f[n], y), x) <=> Among(f[n], x) \/ x = y
          BY <4>1, <4>2 DEF Among
        <4> QED
          BY <3>1, <4>3 DEF y
      <3> QED
        BY <2>3, <2>4, <2>5, <3>2
    <2>6. CASE locals[n + 1].register # 0
      <3>1. f[n + 1] = f[n]
        BY <1>2, <2>1, <2>6
      <3>2. Among(f[n + 1], x) <=> Among(f[n], x)
        BY <3>1
      <3> QED
        BY <2>3, <2>4, <2>6, <3>2
    <2> QED
      BY <2>5, <2>6
  <1>5. Len(locals) \in P
    <2> HIDE DEF P
    <2> QED
      BY <1>1, <1>3, <1>4, Induction
  <1>6. \A x : Among(WithoutRegister(locals), x) <=>
               \E k \in DOMAIN locals : locals[k] = x /\ x.register = 0
    <2>1. Len(locals) <= Len(locals)
      BY <1>1
    <2>2. \A x : Among(f[Len(locals)], x) <=>
                 \E k \in 1..Len(locals) : locals[k] = x /\ x.register = 0
      BY <1>5, <2>1, Zenon DEF P
    <2> HIDE DEF Among
    <2> QED
      BY <1>1, <1>2, <2>2
  <1>7. WithoutRegister(locals) \in Seq(LocalRecord)
    BY <1>1, <1>2
  <1> QED
    BY <1>6, <1>7

MotionCall == [kind : {"motion"}, address : Nat, passed : {0, 1, 2, 3, 4, 9}, direct : BOOLEAN,
               moved : BOOLEAN, over : BOOLEAN]

LEMMA ShapedConsider ==
    ASSUME Shaped, NEW n \in DOMAIN code, Consider(n)
    PROVE  Shaped' /\ Kept(session, session', {"motion", "pendingMotion"})
  <1>1. Kept(session, session', {"motion", "pendingMotion"})
    BY MotionHandlers DEF Consider, Shaped
  <1>2. DOMAIN left' = DOMAIN left /\ left'.locals = left.locals
    BY DEF Consider, Shaped
  <1>3. code[n].address \in Nat
    <2>1. code[n] \in Instruction
      BY DEF Shaped
    <2> QED
      BY <2>1 DEF Instruction
  <1>4. call' \in MotionCall /\ call'.kind = "motion"
    <2>1. call' = [kind |-> "motion", address |-> code[n].address, passed |-> 0, direct |-> TRUE,
                   moved |-> FALSE, over |-> FALSE]
      BY DEF Consider
    <2>2. TRUE \in BOOLEAN /\ FALSE \in BOOLEAN /\ 0 \in {0, 1, 2, 3, 4, 9}
      OBVIOUS
    <2> QED
      BY <1>3, <2>1, <2>2, Zenon DEF MotionCall
  <1>5. call' \in Calls /\ epoch' \in EpochsOf(call')
    <2>1. call' \in Calls
      BY <1>4 DEF MotionCall, Calls
    <2> QED
      BY <1>4, <2>1 DEF Consider, EpochsOf
  <1> QED
    BY <1>1, <1>2, <1>5 DEF Consider, Shaped, Kept

LEMMA MotionCalls ==
    ASSUME Shaped, call.kind = "motion"
    PROVE  /\ call \in MotionCall /\ epoch = "backend_optimization"
           /\ MotionCall \subseteq Calls
           /\ \A c \in MotionCall : epoch \in EpochsOf(c)
  <1>1. call \in MotionCall
    BY OperationKinds DEF Shaped, MotionCall
  <1>2. epoch = "backend_optimization"
    BY DEF Shaped, EpochsOf
  <1>3. MotionCall \subseteq Calls
    BY DEF MotionCall, Calls
  <1>4. \A c \in MotionCall : c.kind = "motion"
    BY DEF MotionCall
  <1> QED
    BY <1>1, <1>2, <1>3, <1>4 DEF EpochsOf

LEMMA ShapedTest ==
    ASSUME Shaped, NEW result \in BOOLEAN, Test(result)
    PROVE  Shaped' /\ Kept(session, session', {"pendingMotion"})
  <1>1. Kept(session, session', {"pendingMotion"})
    BY MotionHandlers DEF Test, Shaped
  <1>2. call' \in MotionCall
    <2>1. call \in MotionCall /\ call.passed \in {0, 1, 2, 3}
      BY MotionCalls DEF Test, MotionCall
    <2>2. /\ call.passed + 1 \in {1, 2, 3, 4}
          /\ ((call.passed < 3) = result) \in BOOLEAN
      BY <2>1
    <2> QED
      BY <2>1, <2>2 DEF Test, MotionCall
  <1>3. call' \in Calls /\ epoch' \in EpochsOf(call')
    BY <1>2, MotionCalls DEF Test
  <1> QED
    BY <1>1, <1>3 DEF Test, Shaped, Kept

LEMMA ShapedTestFallback ==
    ASSUME Shaped, NEW result \in BOOLEAN, TestFallback(result)
    PROVE  Shaped' /\ Kept(session, session', {"pendingMotion"})
  <1>1. Kept(session, session', {"pendingMotion"})
    BY MotionHandlers DEF TestFallback, Shaped
  <1>2. call' \in MotionCall
    BY MotionCalls DEF TestFallback, MotionCall
  <1>3. call' \in Calls /\ epoch' \in EpochsOf(call')
    BY <1>2, MotionCalls DEF TestFallback
  <1> QED
    BY <1>1, <1>3 DEF TestFallback, Shaped, Kept

LEMMA ShapedAcceptMotion ==
    ASSUME Shaped, AcceptMotion
    PROVE  Shaped' /\ Kept(session, session', {"pendingMotion"})
  <1>1. Kept(session, session', {"pendingMotion"})
    BY MotionHandlers DEF AcceptMotion, Shaped
  <1>2. call' \in MotionCall
    BY MotionCalls DEF AcceptMotion, MotionCall
  <1>3. call' \in Calls /\ epoch' \in EpochsOf(call')
    BY <1>2, MotionCalls DEF AcceptMotion
  <1> QED
    BY <1>1, <1>3 DEF AcceptMotion, Shaped, Kept

LEMMA IdleIsACall ==
    ASSUME Shaped
    PROVE  Idle \in Calls /\ epoch \in EpochsOf(Idle) /\ Idle.kind = "none"
  BY DEF Idle, Calls, EpochsOf, Shaped

LEMMA ShapedFinishConsidered ==
    ASSUME Shaped, FinishConsidered
    PROVE  Shaped' /\ Kept(session, session', {"motion", "pendingMotion"})
  <1>1. Kept(session, session', {"motion", "pendingMotion"})
    BY MotionHandlers DEF FinishConsidered, Shaped
  <1>2. call' \in Calls /\ epoch' \in EpochsOf(call')
    BY IdleIsACall DEF FinishConsidered
  <1>3. DOMAIN facts' = DOMAIN facts
    BY DEF FinishConsidered
  <1> QED
    BY <1>1, <1>2, <1>3 DEF FinishConsidered, Shaped, Kept

LEMMA ShapedEnterAllocateRegisters ==
    ASSUME Shaped, EnterAllocateRegisters
    PROVE  /\ Shaped'
           /\ session.active =>
                Kept(session, session', {"attempts", "boundaries", "previous", "raised"})
  <1>1. IsSession(session')
    <2> DEFINE b == IF session.active THEN session
                    ELSE BeginFunction(session, FunctionIdentity(Objects, FunctionAt[function]))
    <2>1. IsSession(b)
      BY StageHandlers DEF Shaped
    <2>2. \A s : IsSession(s) => IsSession(RecordBoundary(s, "allocator"))
      BY StageHandlers DEF Kept
    <2>3. IsSession([b EXCEPT !.attempts = [c \in Classes |-> 0]])
      BY <2>1 DEF IsSession
    <2>4. session' = IF ~b.capture THEN b
                     ELSE RecordBoundary([b EXCEPT !.attempts = [c \in Classes |-> 0]], "allocator")
      BY DEF EnterAllocateRegisters, OnAllocate
    <2> QED
      BY <2>1, <2>2, <2>3, <2>4
  <1>2. session.active => Kept(session, session', {"attempts", "boundaries", "previous", "raised"})
    BY StageHandlers DEF EnterAllocateRegisters, Shaped
  <1>3. DOMAIN facts' = DOMAIN facts /\ DOMAIN disk' = DOMAIN disk
    BY DEF EnterAllocateRegisters
  <1> QED
    BY <1>1, <1>2, <1>3 DEF EnterAllocateRegisters, Shaped

LEMMA ShapedSelect ==
    ASSUME Shaped, NEW c \in Classes, NEW graph \in Graphs, Select(c, graph)
    PROVE  Shaped' /\ Kept(session, session', {"attempts", "returns"})
  <1>1. Kept(session, session', {"attempts", "returns"})
    BY SelectHandlers DEF Select, Shaped
  <1>2. DOMAIN left' = DOMAIN left /\ left'.locals = left.locals
    BY DEF Select, Shaped
  <1>3. call' \in Calls /\ epoch' \in EpochsOf(call')
    BY DEF Select, Calls, EpochsOf
  <1>4. DOMAIN facts' = DOMAIN facts /\ DOMAIN disk' = DOMAIN disk
    BY DEF Select, WithColoring
  <1> QED
    BY <1>1, <1>2, <1>3, <1>4 DEF Select, Shaped, Kept

LEMMA ShapedReturnSelect ==
    ASSUME Shaped, ReturnSelect
    PROVE  Shaped' /\ Kept(session, session', {"returns"})
  <1>1. Kept(session, session', {"returns"})
    BY SelectHandlers DEF ReturnSelect, Shaped
  <1>2. call' \in Calls /\ epoch' \in EpochsOf(call')
    BY IdleIsACall DEF ReturnSelect
  <1>3. DOMAIN disk' = DOMAIN disk
    BY DEF ReturnSelect, WithColoring
  <1> QED
    BY <1>1, <1>2, <1>3 DEF ReturnSelect, Shaped, Kept

LEMMA ShapedEnterHomingLoop ==
    ASSUME Shaped, EnterHomingLoop
    PROVE  Shaped' /\ session' = session
  <1>1. WithoutRegister(left.locals) \in Seq(LocalRecord)
    BY WithoutRegisterIsExact DEF Shaped
  <1>2. call' \in Calls /\ epoch' \in EpochsOf(call')
    BY <1>1 DEF EnterHomingLoop, Calls, EpochsOf
  <1>3. DOMAIN facts' = DOMAIN facts /\ DOMAIN disk' = DOMAIN disk
    BY DEF EnterHomingLoop
  <1> QED
    BY <1>2, <1>3 DEF EnterHomingLoop, Shaped

LEMMA ShapedEnterSlot ==
    ASSUME Shaped, EnterSlot
    PROVE  Shaped' /\ Kept(session, session', {"raised", "pendingSlot"})
  <1>1. Kept(session, session', {"raised", "pendingSlot"})
    BY FrameHandlers DEF EnterSlot, Shaped
  <1>2. call.rest \in Seq(LocalRecord) /\ call.rest # <<>> /\ epoch = "initial_lowering"
    BY OperationKinds DEF EnterSlot, Shaped, EpochsOf
  <1>3. Head(call.rest) \in LocalRecord /\ Tail(call.rest) \in Seq(LocalRecord)
    BY <1>2
  <1>4. call' \in Calls /\ epoch' \in EpochsOf(call')
    BY <1>2, <1>3 DEF EnterSlot, Calls, EpochsOf
  <1> QED
    BY <1>1, <1>4 DEF EnterSlot, Shaped, Kept

LEMMA ShapedReturnAlignment ==
    ASSUME Shaped, ReturnAlignment
    PROVE  Shaped' /\ Kept(session, session', {"pendingSlot"})
  <1>1. Kept(session, session', {"pendingSlot"})
    BY FrameHandlers DEF ReturnAlignment, Shaped
  <1> DEFINE SlotCalls == [kind : {"slot"}, of : LocalRecord, rest : Seq(LocalRecord),
                           at : {"entry", "aligned"}]
  <1>2. call \in SlotCalls /\ epoch = "initial_lowering"
    BY OperationKinds DEF ReturnAlignment, Shaped, EpochsOf
  <1>3. call' \in SlotCalls /\ call'.kind = "slot"
    BY <1>2 DEF ReturnAlignment
  <1>4. call' \in Calls
    BY <1>3 DEF Calls
  <1>5. epoch' \in EpochsOf(call')
    BY <1>2, <1>3 DEF ReturnAlignment, EpochsOf
  <1> QED
    BY <1>1, <1>4, <1>5 DEF ReturnAlignment, Shaped, Kept

LEMMA ShapedReturnSlot ==
    ASSUME Shaped, ReturnSlot
    PROVE  Shaped' /\ Kept(session, session', {"raised", "pendingSlot", "slots"})
  <1>1. Kept(session, session', {"raised", "pendingSlot", "slots"})
    BY FrameHandlers DEF ReturnSlot, Shaped
  <1>2. call.rest \in Seq(LocalRecord) /\ epoch = "initial_lowering"
    BY OperationKinds DEF ReturnSlot, Shaped, EpochsOf
  <1>3. call' \in Calls /\ epoch' \in EpochsOf(call')
    BY <1>2 DEF ReturnSlot, Calls, EpochsOf
  <1>4. DOMAIN frame' = {"cursor", "slots"}
    BY DEF ReturnSlot
  <1> QED
    BY <1>1, <1>3, <1>4 DEF ReturnSlot, Shaped, Kept

LEMMA ShapedLeaveHomingLoop ==
    ASSUME Shaped, LeaveHomingLoop
    PROVE  Shaped' /\ session' = session
  BY IdleIsACall DEF LeaveHomingLoop, Shaped

LEMMA ShapedFrameCheckpoint ==
    ASSUME Shaped, NEW at \in {"entry", "middle", "return"}, FrameCheckpoint(at)
    PROVE  Shaped' /\ Kept(session, session', {"raised", "checkpoints"})
  <1>1. Kept(session, session', {"raised", "checkpoints"})
    BY FrameHandlers DEF FrameCheckpoint, Shaped
  <1>2. call' \in Calls /\ epoch' \in EpochsOf(call')
    <2> DEFINE FrameCalls == [kind : {"frame"}, next : {"middle", "return"}]
    <2>1. call.kind = "frame" => call \in FrameCalls
      BY OperationKinds DEF Shaped
    <2>2. call' \in FrameCalls \cup {Idle}
      BY <2>1 DEF FrameCheckpoint
    <2>3. CASE call' = Idle
      BY <2>3, IdleIsACall DEF FrameCheckpoint
    <2>4. CASE call' \in FrameCalls
      BY <2>4 DEF FrameCheckpoint, Calls, EpochsOf
    <2> QED
      BY <2>2, <2>3, <2>4
  <1>3. DOMAIN facts' = DOMAIN facts /\ DOMAIN disk' = DOMAIN disk
    BY DEF FrameCheckpoint
  <1> QED
    BY <1>1, <1>2, <1>3 DEF FrameCheckpoint, Shaped, Kept

LEMMA ShapedEndEpoch ==
    ASSUME Shaped, EndEpoch
    PROVE  /\ Shaped'
           /\ Kept(session, session', {"boundaries", "previous", "raised", "motion",
                                       "pendingMotion", "epoch", "tracing"})
  <1>1. Kept(session, session', {"boundaries", "previous", "raised", "motion",
                                 "pendingMotion", "epoch", "tracing"})
    BY StageHandlers DEF EndEpoch, Shaped
  <1>2. epoch' \in EpochNames
    BY AfterEpoch DEF EndEpoch, Shaped, EpochNames
  <1>3. epoch' \in EpochsOf(call')
    BY <1>2, IdleIsACall DEF EndEpoch, EpochsOf
  <1>4. DOMAIN disk' = DOMAIN disk
    BY DEF EndEpoch, WithStage
  <1> QED
    BY <1>1, <1>2, <1>3, <1>4 DEF EndEpoch, Shaped, Kept

LEMMA NoCallsOutside ==
    ASSUME Shaped, epoch \in {"frontend", "final"}
    PROVE  call = Idle /\ call.kind = "none"
  <1>1. call.kind \in {"none", "wrapper", "clone", "filled", "object", "motion", "select",
                       "homing", "slot", "frame"}
    BY DEF Shaped, Calls, Idle, Wrappers, Clones
  <1>2. call.kind = "filled" => call.for.kind \in {"wrapper", "clone"}
    BY OperationKinds DEF Shaped, Wrappers, Clones
  <1>3. call.kind = "none"
    BY <1>1, <1>2 DEF Shaped, EpochsOf
  <1> QED
    BY <1>3, OperationKinds DEF Shaped

LEMMA ShapedResetCounters ==
    ASSUME Shaped, ResetCounters
    PROVE  Shaped' /\ Kept(session, session', {"registers", "frontend"})
  <1>1. Kept(session, session', {"registers", "frontend"})
    BY RegisterHandlers DEF ResetCounters, Shaped
  <1>2. function' \in 0..Functions
    BY FunctionsAssumption DEF ResetCounters, Shaped
  <1>3. counts' \in [Classes -> Nat]
    BY FirstVirtualAssumption DEF ResetCounters, NoCounts
  <1>4. epoch' \in EpochNames
    BY DEF ResetCounters, EpochNames
  <1>5. call' \in Calls /\ epoch' \in EpochsOf(call')
    <2>1. call.kind = "none"
      BY NoCallsOutside DEF ResetCounters
    <2> QED
      BY <2>1, <1>4 DEF ResetCounters, Shaped, EpochsOf
  <1>6. /\ left'.locals \in Seq(LocalRecord)
        /\ DOMAIN left' = {"temps", "objects", "emits", "clones", "others", "deletes", "motions",
                           "selections", "locals"}
    BY BudgetsAssumption DEF ResetCounters
  <1>7. DOMAIN facts' = DOMAIN facts /\ DOMAIN disk' = DOMAIN disk
        /\ DOMAIN frame' = DOMAIN frame /\ heap' \in Nat /\ code' \in Seq(Instruction)
    BY DEF ResetCounters, Shaped
  <1> QED
    BY <1>1, <1>2, <1>3, <1>4, <1>5, <1>6, <1>7 DEF Shaped, Kept

LEMMA ShapedEnterCodeGen ==
    ASSUME Shaped, EnterCodeGen
    PROVE  Shaped'
  <1>1. IsSession(session')
    BY StageHandlers DEF EnterCodeGen, Shaped
  <1>2. epoch' \in EpochNames
    BY DEF EnterCodeGen, EpochNames
  <1>3. epoch' \in EpochsOf(call')
    <2>1. call.kind = "none"
      BY NoCallsOutside DEF EnterCodeGen
    <2> QED
      BY <2>1, <1>2 DEF EnterCodeGen, EpochsOf
  <1> QED
    BY <1>1, <1>2, <1>3 DEF EnterCodeGen, Shaped

(***************************************************************************)
(* The session is in the function and the stretch that the compiler is in. *)
(* In a front end it still is in the function before.                      *)
(***************************************************************************)
Timeline ==
  /\ session.index = IF epoch = "frontend" THEN function - 1 ELSE function
  /\ session.active \in BOOLEAN /\ session.capture \in BOOLEAN
  /\ session.active <=> session.index > 0
  /\ session.capture => session.active
  /\ epoch # "final" => function > 0
  /\ session.epoch = IF ~session.capture THEN "initial_lowering"
                     ELSE IF epoch = "frontend" THEN "final" ELSE epoch

Base == Shaped /\ Timeline

Lasting == {"index", "identity", "active", "capture", "epoch"}

(* What all steps but three have in common.                                *)
Inside(F) == UNCHANGED <<function, epoch, target>> /\ Kept(session, session', F)

CodeFields == {"registers", "frontend", "objectEvent", "pendingCreations", "raised", "creations",
               "allocations", "pendingClones", "clones"}
MotionFields == {"motion", "pendingMotion"}
SelectFields == {"attempts", "boundaries", "previous", "raised", "returns"}
FrameFields == {"raised", "pendingSlot", "slots", "checkpoints"}

LEMMA FewerKept ==
    ASSUME NEW s, NEW t, NEW F, NEW G, Kept(s, t, F), F \subseteq G
    PROVE  Kept(s, t, G)
  BY DEF Kept

LEMMA SelfKept ==
    ASSUME NEW s, IsSession(s), NEW F
    PROVE  Kept(s, s, F)
  BY DEF Kept

(* The other actions in four groups.                                       *)
BuiltRegisters ==
  {{}} \cup {{<<c, counts[c] - 1>>} : c \in {d \in Classes : counts[d] > FirstVirtualRegister}}

CodeActions ==
  \/ ReturnFromArena \/ ReturnClone \/ ReturnObjectRegister
  \/ \E c \in Classes : \/ DirectRegister(c)
                        \/ \E width \in 1..2 : EnterObjectRegister(c, width)
  \/ \E opcode \in Opcodes : EnterWrapper(opcode)
  \/ \E registers \in BuiltRegisters : ReturnBuilder(registers)
  \/ \E n \in DOMAIN code : EnterClone(n) \/ Unlink(n)

MotionActions ==
  \/ AcceptMotion \/ FinishConsidered
  \/ \E n \in DOMAIN code : Consider(n)
  \/ \E result \in BOOLEAN : Test(result) \/ TestFallback(result)

SelectActions ==
  EnterAllocateRegisters \/ ReturnSelect \/ \E c \in Classes, graph \in Graphs : Select(c, graph)

FrameActions ==
  \/ EnterHomingLoop \/ EnterSlot \/ ReturnAlignment \/ ReturnSlot \/ LeaveHomingLoop
  \/ \E at \in {"entry", "middle", "return"} : FrameCheckpoint(at)

LEMMA ActionGroups ==
    ASSUME Shaped, CaptureNext
    PROVE  \/ ResetCounters \/ EnterCodeGen \/ EndEpoch
           \/ CodeActions \/ MotionActions \/ SelectActions \/ FrameActions
  BY DEF CaptureNext, CodeActions, MotionActions, SelectActions, FrameActions, BuiltRegisters

LEMMA BuiltRegistersAreTyped ==
    ASSUME Shaped, NEW registers \in BuiltRegisters
    PROVE  registers \in SUBSET (Classes \X Int)
  <1>1. \A c \in Classes : {<<c, counts[c] - 1>>} \in SUBSET (Classes \X Int)
    BY DEF Shaped
  <1> QED
    BY <1>1 DEF BuiltRegisters

LEMMA CodeInside ==
    ASSUME Base, CodeActions
    PROVE  Shaped' /\ Inside(CodeFields)
  <1>1. CASE ReturnFromArena
    BY <1>1, ShapedReturnFromArena, FewerKept DEF ReturnFromArena, Inside, Base, CodeFields
  <1>2. CASE ReturnClone
    BY <1>2, ShapedReturnClone, FewerKept DEF ReturnClone, Inside, Base, CodeFields
  <1>3. CASE ReturnObjectRegister
    BY <1>3, ShapedReturnObjectRegister, FewerKept
       DEF ReturnObjectRegister, Inside, Base, CodeFields
  <1>4. ASSUME NEW c \in Classes, DirectRegister(c)
        PROVE  Shaped' /\ Inside(CodeFields)
    BY <1>4, ShapedDirectRegister, FewerKept DEF DirectRegister, Inside, Base, CodeFields
  <1>5. ASSUME NEW c \in Classes, NEW width \in 1..2, EnterObjectRegister(c, width)
        PROVE  Shaped' /\ Inside(CodeFields)
    BY <1>5, ShapedEnterObjectRegister, FewerKept
       DEF EnterObjectRegister, Inside, Base, CodeFields
  <1>6. ASSUME NEW opcode \in Opcodes, EnterWrapper(opcode)
        PROVE  Shaped' /\ Inside(CodeFields)
    BY <1>6, ShapedEnterWrapper, FewerKept DEF EnterWrapper, Inside, Base, CodeFields
  <1>7. ASSUME NEW registers \in BuiltRegisters, ReturnBuilder(registers)
        PROVE  Shaped' /\ Inside(CodeFields)
    BY <1>7, BuiltRegistersAreTyped, ShapedReturnBuilder, FewerKept DEF ReturnBuilder, Inside, Base, CodeFields
  <1>8. ASSUME NEW n \in DOMAIN code, EnterClone(n)
        PROVE  Shaped' /\ Inside(CodeFields)
    BY <1>8, ShapedEnterClone, FewerKept DEF EnterClone, Inside, Base, CodeFields
  <1>9. ASSUME NEW n \in DOMAIN code, Unlink(n)
        PROVE  Shaped' /\ Inside(CodeFields)
    BY <1>9, ShapedUnlink, SelfKept DEF Unlink, Inside, Base, CodeFields, Shaped
  <1> QED
    BY <1>1, <1>2, <1>3, <1>4, <1>5, <1>6, <1>7, <1>8, <1>9 DEF CodeActions

LEMMA MotionInside ==
    ASSUME Base, MotionActions
    PROVE  Shaped' /\ Inside(MotionFields)
  <1>1. CASE AcceptMotion
    BY <1>1, ShapedAcceptMotion, FewerKept DEF AcceptMotion, Inside, Base, MotionFields
  <1>2. CASE FinishConsidered
    BY <1>2, ShapedFinishConsidered, FewerKept DEF FinishConsidered, Inside, Base, MotionFields
  <1>3. ASSUME NEW n \in DOMAIN code, Consider(n)
        PROVE  Shaped' /\ Inside(MotionFields)
    BY <1>3, ShapedConsider, FewerKept DEF Consider, Inside, Base, MotionFields
  <1>4. ASSUME NEW result \in BOOLEAN, Test(result)
        PROVE  Shaped' /\ Inside(MotionFields)
    BY <1>4, ShapedTest, FewerKept DEF Test, Inside, Base, MotionFields
  <1>5. ASSUME NEW result \in BOOLEAN, TestFallback(result)
        PROVE  Shaped' /\ Inside(MotionFields)
    BY <1>5, ShapedTestFallback, FewerKept DEF TestFallback, Inside, Base, MotionFields
  <1> QED
    BY <1>1, <1>2, <1>3, <1>4, <1>5 DEF MotionActions

LEMMA SelectInside ==
    ASSUME Base, SelectActions
    PROVE  Shaped' /\ Inside(SelectFields)
  <1>1. CASE EnterAllocateRegisters
    <2>1. session.active
      BY <1>1, FunctionsAssumption DEF EnterAllocateRegisters, Base, Timeline, Shaped
    <2> QED
      BY <1>1, <2>1, ShapedEnterAllocateRegisters, FewerKept
         DEF EnterAllocateRegisters, Inside, Base, SelectFields
  <1>2. CASE ReturnSelect
    BY <1>2, ShapedReturnSelect, FewerKept DEF ReturnSelect, Inside, Base, SelectFields
  <1>3. ASSUME NEW c \in Classes, NEW graph \in Graphs, Select(c, graph)
        PROVE  Shaped' /\ Inside(SelectFields)
    BY <1>3, ShapedSelect, FewerKept DEF Select, Inside, Base, SelectFields
  <1> QED
    BY <1>1, <1>2, <1>3 DEF SelectActions

LEMMA FrameInside ==
    ASSUME Base, FrameActions
    PROVE  Shaped' /\ Inside(FrameFields)
  <1>1. CASE EnterHomingLoop
    BY <1>1, ShapedEnterHomingLoop, SelfKept DEF EnterHomingLoop, Inside, Base, FrameFields, Shaped
  <1>2. CASE EnterSlot
    BY <1>2, ShapedEnterSlot, FewerKept DEF EnterSlot, Inside, Base, FrameFields
  <1>3. CASE ReturnAlignment
    BY <1>3, ShapedReturnAlignment, FewerKept DEF ReturnAlignment, Inside, Base, FrameFields
  <1>4. CASE ReturnSlot
    BY <1>4, ShapedReturnSlot, FewerKept DEF ReturnSlot, Inside, Base, FrameFields
  <1>5. CASE LeaveHomingLoop
    BY <1>5, ShapedLeaveHomingLoop, SelfKept DEF LeaveHomingLoop, Inside, Base, FrameFields, Shaped
  <1>6. ASSUME NEW at \in {"entry", "middle", "return"}, FrameCheckpoint(at)
        PROVE  Shaped' /\ Inside(FrameFields)
    BY <1>6, ShapedFrameCheckpoint, FewerKept DEF FrameCheckpoint, Inside, Base, FrameFields
  <1> QED
    BY <1>1, <1>2, <1>3, <1>4, <1>5, <1>6 DEF FrameActions

LEMMA InsideKeepsTimeline ==
    ASSUME Base, NEW F \in {CodeFields, MotionFields, SelectFields, FrameFields}, Inside(F)
    PROVE  Timeline'
  <1>1. \A f \in Lasting : session'[f] = session[f]
    <2>1. Lasting \cap F = {}
      BY DEF Lasting, CodeFields, MotionFields, SelectFields, FrameFields
    <2> QED
      BY <2>1 DEF Inside, Kept, Fields, NewSession, Lasting
  <1>2. /\ session'.index = session.index /\ session'.active = session.active
        /\ session'.capture = session.capture /\ session'.epoch = session.epoch
        /\ session'.identity = session.identity
    BY <1>1 DEF Lasting
  <1> QED
    BY <1>2 DEF Inside, Base, Timeline

LEMMA ResetKeepsTimeline ==
    ASSUME Base, ResetCounters
    PROVE  Shaped' /\ Timeline'
  <1>1. Shaped' /\ Kept(session, session', {"registers", "frontend"})
    BY ShapedResetCounters DEF Base
  <1>2. /\ session'.index = session.index /\ session'.active = session.active
        /\ session'.capture = session.capture /\ session'.epoch = session.epoch
    BY <1>1 DEF Kept, Fields, NewSession
  <1>3. function \in Nat /\ function' = function + 1 /\ epoch = "final" /\ epoch' = "frontend"
    BY FunctionsAssumption DEF ResetCounters, Base, Shaped
  <1> QED
    BY <1>1, <1>2, <1>3 DEF Base, Timeline

LEMMA CodeGenKeepsTimeline ==
    ASSUME Base, EnterCodeGen
    PROVE  Shaped' /\ Timeline'
  <1>1. Shaped'
    BY ShapedEnterCodeGen DEF Base
  <1>2. /\ session'.index = session.index + 1 /\ session'.active = TRUE
        /\ session'.capture \in BOOLEAN /\ session'.epoch = "initial_lowering"
    BY DEF EnterCodeGen, BeginFunction, NewSession
  <1>3. function \in Nat /\ function' = function /\ epoch = "frontend"
        /\ epoch' = "initial_lowering" /\ function > 0
    BY FunctionsAssumption DEF EnterCodeGen, Base, Shaped, Timeline
  <1>4. session'.index = function' /\ session'.index > 0
    BY <1>2, <1>3 DEF Base, Timeline
  <1>5. session'.epoch = IF ~session'.capture THEN "initial_lowering"
                         ELSE IF epoch' = "frontend" THEN "final" ELSE epoch'
    BY <1>2, <1>3
  <1>6. session'.active \in BOOLEAN /\ session'.active
    BY <1>2
  <1>7. epoch' # "frontend" /\ function' > 0
    BY <1>3
  <1> QED
    BY <1>1, <1>2, <1>4, <1>5, <1>6, <1>7, Zenon DEF Timeline

LEMMA EndKeepsTimeline ==
    ASSUME Base, EndEpoch
    PROVE  Shaped' /\ Timeline'
  <1>1. Shaped' /\ Kept(session, session', {"boundaries", "previous", "raised", "motion",
                                           "pendingMotion", "epoch", "tracing"})
    BY ShapedEndEpoch DEF Base
  <1>2. /\ session'.index = session.index /\ session'.active = session.active
        /\ session'.capture = session.capture
    BY <1>1 DEF Kept, Fields, NewSession
  <1>3. session'.epoch = IF session.capture THEN After(epoch) ELSE session.epoch
    BY DEF EndEpoch, OnStage, RecordBoundary, FinishMotion, Base, Shaped, IsSession, Fields,
           NewSession
  <1>4. function' = function /\ epoch \notin {"frontend", "final"} /\ epoch' = After(epoch)
        /\ epoch' # "frontend"
    BY AfterEpoch DEF EndEpoch, Base, Shaped, EpochNames
  <1> QED
    BY <1>1, <1>2, <1>3, <1>4 DEF Base, Timeline

LEMMA BaseInit == CaptureInit => Base
  <1> SUFFICES ASSUME CaptureInit PROVE Base
    OBVIOUS
  <1>1. Timeline
    <2>1. /\ session.index = 0 /\ session.active = FALSE /\ session.capture = FALSE
          /\ session.epoch = "initial_lowering" /\ function = 0 /\ epoch = "final"
      BY DEF CaptureInit, NewSession
    <2>2. ~(session.index > 0) /\ epoch # "frontend"
      BY <2>1
    <2> QED
      BY <2>1, <2>2, Zenon DEF Timeline
  <1> QED
    BY <1>1, ShapedInit DEF Base

LEMMA BaseStep == ASSUME Base, [CaptureNext]_captureVars PROVE Base'
  <1>1. CASE UNCHANGED captureVars
    BY <1>1 DEF captureVars, compiler, Base, Timeline, Shaped
  <1>2. CASE CaptureNext
    <2>1. \/ ResetCounters \/ EnterCodeGen \/ EndEpoch
          \/ CodeActions \/ MotionActions \/ SelectActions \/ FrameActions
      BY <1>2, ActionGroups DEF Base
    <2> QED
      BY <2>1, ResetKeepsTimeline, CodeGenKeepsTimeline, EndKeepsTimeline, CodeInside,
         MotionInside, SelectInside, FrameInside, InsideKeepsTimeline DEF Base
  <1> QED
    BY <1>1, <1>2

(***************************************************************************)
(* What the groups of actions leave of the compiler and of the files.      *)
(***************************************************************************)
CodeFootprint ==
  /\ disk' = disk /\ frame' = frame /\ left'.locals = left.locals
  /\ facts'.moves = facts.moves /\ facts'.selections = facts.selections
  /\ facts'.done = facts.done
  /\ call.kind \in {"none", "object", "wrapper", "clone", "filled"}
  /\ call'.kind \in {"none", "object", "wrapper", "clone", "filled"}

LEMMA CodeLeaves ==
    ASSUME Base, CodeActions
    PROVE  CodeFootprint
  <1>1. CASE ReturnFromArena
    BY <1>1 DEF ReturnFromArena, CodeFootprint, Base, Shaped, Idle
  <1>2. CASE ReturnClone
    BY <1>2 DEF ReturnClone, CodeFootprint, Base, Shaped, Idle
  <1>3. CASE ReturnObjectRegister
    BY <1>3 DEF ReturnObjectRegister, CodeFootprint, Base, Shaped, Idle
  <1>4. ASSUME NEW c \in Classes, DirectRegister(c) PROVE CodeFootprint
    BY <1>4 DEF DirectRegister, CodeFootprint, Base, Shaped, Idle
  <1>5. ASSUME NEW c \in Classes, NEW width \in 1..2, EnterObjectRegister(c, width) PROVE CodeFootprint
    BY <1>5 DEF EnterObjectRegister, CodeFootprint, Base, Shaped, Idle
  <1>6. ASSUME NEW opcode \in Opcodes, EnterWrapper(opcode) PROVE CodeFootprint
    BY <1>6 DEF EnterWrapper, CodeFootprint, Base, Shaped, Idle
  <1>7. ASSUME NEW registers, ReturnBuilder(registers) PROVE CodeFootprint
    BY <1>7 DEF ReturnBuilder, CodeFootprint, Base, Shaped, Idle
  <1>8. ASSUME NEW n \in DOMAIN code, EnterClone(n) PROVE CodeFootprint
    BY <1>8 DEF EnterClone, CodeFootprint, Base, Shaped, Idle
  <1>9. ASSUME NEW n \in DOMAIN code, Unlink(n) PROVE CodeFootprint
    BY <1>9 DEF Unlink, CodeFootprint, Base, Shaped, Idle
  <1> QED
    BY <1>1, <1>2, <1>3, <1>4, <1>5, <1>6, <1>7, <1>8, <1>9 DEF CodeActions

MotionFootprint ==
  /\ UNCHANGED <<code, heap, counts, frame, disk>> /\ left'.locals = left.locals
  /\ facts'.origin = facts.origin /\ facts'.selections = facts.selections
  /\ facts'.done = facts.done
  /\ call.kind \in {"none", "motion"} /\ call'.kind \in {"none", "motion"}
  /\ epoch = "backend_optimization"

LEMMA MotionLeaves ==
    ASSUME Base, MotionActions
    PROVE  MotionFootprint
  <1>1. call.kind = "motion" => epoch = "backend_optimization" /\ call \in MotionCall
    BY MotionCalls DEF Base
  <1>2. CASE AcceptMotion
    BY <1>1, <1>2 DEF AcceptMotion, MotionFootprint, Base, Shaped, Idle, MotionCall
  <1>3. CASE FinishConsidered
    BY <1>1, <1>3 DEF FinishConsidered, MotionFootprint, Base, Shaped, Idle, MotionCall
  <1>4. ASSUME NEW n \in DOMAIN code, Consider(n) PROVE MotionFootprint
    BY <1>1, <1>4 DEF Consider, MotionFootprint, Base, Shaped, Idle, MotionCall
  <1>5. ASSUME NEW result \in BOOLEAN, Test(result) PROVE MotionFootprint
    BY <1>1, <1>5 DEF Test, MotionFootprint, Base, Shaped, Idle, MotionCall
  <1>6. ASSUME NEW result \in BOOLEAN, TestFallback(result) PROVE MotionFootprint
    BY <1>1, <1>6 DEF TestFallback, MotionFootprint, Base, Shaped, Idle, MotionCall
  <1> QED
    BY <1>2, <1>3, <1>4, <1>5, <1>6 DEF MotionActions

LEMMA SelectLeaves ==
    ASSUME Base, SelectActions
    PROVE  /\ UNCHANGED <<code, heap, counts, frame>> /\ left'.locals = left.locals
           /\ facts'.origin = facts.origin /\ facts'.moves = facts.moves
           /\ disk'.motion = disk.motion /\ disk'.homes = disk.homes /\ disk'.frames = disk.frames
           /\ call.kind \in {"none", "select"} /\ call'.kind \in {"none", "select"}
           /\ epoch = "register_allocation"
  <1>1. call.kind = "select" => epoch = "register_allocation"
    BY DEF Base, Shaped, EpochsOf
  <1> QED
    BY <1>1 DEF SelectActions, EnterAllocateRegisters, Select, ReturnSelect, WithColoring,
       Base, Shaped, Idle

LEMMA FrameLeaves ==
    ASSUME Base, FrameActions
    PROVE  /\ UNCHANGED <<code, heap, counts>> /\ left'.locals = left.locals
           /\ facts'.origin = facts.origin /\ facts'.moves = facts.moves
           /\ facts'.selections = facts.selections
           /\ disk'.stage = disk.stage /\ disk'.motion = disk.motion
           /\ disk'.coloring = disk.coloring
           /\ call.kind \in {"none", "homing", "slot", "frame"}
           /\ call'.kind \in {"none", "homing", "slot", "frame"}
  <1>1. call.kind = "frame" => call \in [kind : {"frame"}, next : {"middle", "return"}]
    BY OperationKinds DEF Base, Shaped
  <1>2. call.kind = "slot" => DOMAIN call = {"kind", "of", "rest", "at"}
    BY OperationKinds DEF Base, Shaped
  <1> QED
    BY <1>1, <1>2 DEF FrameActions, EnterHomingLoop, EnterSlot, ReturnAlignment, ReturnSlot,
       LeaveHomingLoop, FrameCheckpoint, Base, Shaped, Idle

(***************************************************************************)
(* Loop motion.  The pending row says of the instruction under             *)
(* consideration what the tests said of it so far.                         *)
(***************************************************************************)
Paths == {"none", "direct", "fallback"}

TestNames == {"00526d80", "00526b50", "005266e0", "00526500", "00525fc0"}

Row == [sequence : Nat, address : Nat, results : Seq(TestNames \X BOOLEAN), moved : BOOLEAN,
        path : Paths]

Told(row, move) ==
  /\ move = [address |-> row.address, path |-> row.path]
  /\ row.moved = (row.path # "none")

RowsFit(rows, moves) ==
  /\ rows \in Seq(Row) /\ Len(rows) = Len(moves)
  /\ \A n \in 1..Len(rows) : rows[n].sequence = n - 1 /\ Told(rows[n], moves[n])

InFallback(results) == \E n \in DOMAIN results : results[n][1] = "00525fc0"

PathOf(c) == IF c.passed # 9 THEN "none" ELSE IF c.direct THEN "direct" ELSE "fallback"

(* The row p of the call c, when n rows are finished.                      *)
Considers(p, c, n) ==
  /\ p \in Row /\ p.sequence = n /\ p.address = c.address /\ p.path = PathOf(c)
  /\ p.moved = (c.passed = 9)
  /\ InFallback(p.results) <=> c.over /\ ~c.direct

(* How far a call can have come.                                           *)
InOrder(c) ==
  /\ c.passed = 9 => c.over /\ c.moved
  /\ c.moved => c.over
  /\ c.over /\ c.direct => c.passed = 9

RowsUnderWay ==
  /\ RowsFit(session.motion, facts.moves)
  /\ call.kind = "motion" =>
       \E p : session.pendingMotion = <<p>> /\ Considers(p, call, Len(session.motion))
  /\ call.kind # "motion" => session.pendingMotion = <<>>

RowsFiled ==
  session.capture /\ epoch \notin {"frontend", "initial_lowering", "backend_optimization"}
    /\ disk.motion # <<>> => disk.motion = <<session.motion>>

MotionInv ==
  /\ facts.moves \in Seq([address : Nat, path : Paths])
  /\ call.kind = "motion" => InOrder(call)
  /\ epoch = "frontend" => facts.moves = <<>>
  /\ session.capture /\ epoch # "frontend" => RowsUnderWay
  /\ RowsFiled

LEMMA RowAdded ==
    ASSUME NEW rows, NEW moves \in Seq([address : Nat, path : Paths]), RowsFit(rows, moves),
           NEW p \in Row, p.sequence = Len(rows),
           NEW m \in [address : Nat, path : Paths], Told(p, m)
    PROVE  RowsFit(rows \o <<p>>, Append(moves, m))
  <1>1. /\ rows \in Seq(Row) /\ Len(rows) = Len(moves) /\ Len(rows) \in Nat
        /\ \A n \in 1..Len(rows) : rows[n].sequence = n - 1 /\ Told(rows[n], moves[n])
    BY DEF RowsFit
  <1>2. /\ rows \o <<p>> \in Seq(Row) /\ Len(rows \o <<p>>) = Len(rows) + 1
        /\ \A n \in 1..Len(rows) : (rows \o <<p>>)[n] = rows[n]
        /\ (rows \o <<p>>)[Len(rows) + 1] = p
    BY <1>1
  <1>3. /\ Len(Append(moves, m)) = Len(moves) + 1
        /\ \A n \in 1..Len(moves) : Append(moves, m)[n] = moves[n]
        /\ Append(moves, m)[Len(moves) + 1] = m
    BY <1>1
  <1>4. ASSUME NEW n \in 1..(Len(rows) + 1)
        PROVE  /\ (rows \o <<p>>)[n].sequence = n - 1
               /\ Told((rows \o <<p>>)[n], Append(moves, m)[n])
    <2>1. CASE n \in 1..Len(rows)
      BY <1>1, <1>2, <1>3, <2>1
    <2>2. CASE n = Len(rows) + 1
      BY <1>1, <1>2, <1>3, <2>2
    <2> QED
      BY <1>1, <2>1, <2>2
  <1> QED
    BY <1>1, <1>2, <1>3, <1>4 DEF RowsFit

(* A session that is not captured keeps nothing of the motion.             *)
LEMMA ConsiderStep ==
    ASSUME Base, MotionInv, NEW n \in DOMAIN code, Consider(n)
    PROVE  MotionInv'
  <1>1. /\ call.kind = "none" /\ epoch = "backend_optimization" /\ epoch' = epoch
        /\ facts' = facts /\ disk' = disk
        /\ call' = [kind |-> "motion", address |-> code[n].address, passed |-> 0, direct |-> TRUE,
                    moved |-> FALSE, over |-> FALSE]
    BY DEF Consider, Idle
  <1>2. code[n].address \in Nat
    <2>1. code[n] \in Instruction
      BY DEF Base, Shaped
    <2> QED
      BY <2>1 DEF Instruction
  <1>3. InOrder(call')
    BY <1>1 DEF InOrder
  <1>4. session'.capture = session.capture
    <2>1. Kept(session, session', {"motion", "pendingMotion"})
      BY ShapedConsider DEF Base
    <2> QED
      BY <2>1 DEF Kept, Fields, NewSession
  <1>5. ASSUME session.capture
        PROVE  RowsUnderWay'
    <2> DEFINE p == [sequence |-> Len(session.motion), address |-> code[n].address,
                     results |-> <<>>, moved |-> FALSE, path |-> "none"]
    <2>1. RowsFit(session.motion, facts.moves) /\ session.pendingMotion = <<>>
      BY <1>1, <1>5 DEF MotionInv, RowsUnderWay
    <2>2. session.motion \in Seq(Row) /\ Len(session.motion) \in Nat
      BY <2>1 DEF RowsFit
    <2>3. session.motion \o <<>> = session.motion
      BY <2>2
    <2>4. session'.motion = session.motion /\ session'.pendingMotion = <<p>>
      BY <1>5, <2>1, <2>3 DEF Consider, OnConsider, FinishMotion, Base, Shaped, IsSession,
         Fields, NewSession
    <2>5. p \in Row
      <3>1. <<>> \in Seq(TestNames \X BOOLEAN) /\ FALSE \in BOOLEAN /\ "none" \in Paths
        BY DEF Paths
      <3> QED
        BY <1>2, <2>2, <3>1, Zenon DEF Row
    <2>6. /\ p.sequence = Len(session.motion) /\ p.address = code[n].address /\ p.path = "none"
          /\ p.moved = FALSE /\ p.results = <<>>
      OBVIOUS
    <2>7. /\ call'.address = code[n].address /\ call'.passed # 9 /\ ~call'.over
      BY <1>1
    <2>8. ~InFallback(<<>>)
      BY DEF InFallback
    <2> HIDE DEF p
    <2>9. Considers(p, call', Len(session'.motion))
      BY <2>4, <2>5, <2>6, <2>7, <2>8 DEF Considers, PathOf
    <2> QED
      BY <1>1, <2>1, <2>4, <2>9 DEF RowsUnderWay
  <1>6. RowsFiled'
    BY <1>1 DEF RowsFiled
  <1> QED
    BY <1>1, <1>3, <1>4, <1>5, <1>6 DEF MotionInv

LEMMA OnlyPending ==
    ASSUME NEW p, NEW x
    PROVE  [<<p>> EXCEPT ![1] = x] = <<x>>
  OBVIOUS

LEMMA PredicateRow ==
    ASSUME NEW s, IsSession(s), s.capture, NEW p \in Row, s.pendingMotion = <<p>>,
           NEW name, NEW result
    PROVE  /\ OnPredicate(s, name, result).motion = s.motion
           /\ OnPredicate(s, name, result).pendingMotion =
                <<[p EXCEPT !.results = Append(p.results, <<name, result>>)]>>
  <1> DEFINE q == [p EXCEPT !.results = Append(p.results, <<name, result>>)]
  <1>1. s.pendingMotion # <<>> /\ s.pendingMotion[1] = p
    OBVIOUS
  <1>2. OnPredicate(s, name, result) = [s EXCEPT !.pendingMotion = [s.pendingMotion EXCEPT ![1] = q]]
    BY <1>1 DEF OnPredicate
  <1> HIDE DEF q
  <1>3. [s.pendingMotion EXCEPT ![1] = q] = <<q>>
    BY OnlyPending
  <1>4. OnPredicate(s, name, result) = [s EXCEPT !.pendingMotion = <<q>>]
    BY <1>2, <1>3
  <1> QED
    BY <1>4 DEF IsSession, Fields, NewSession, q

LEMMA AcceptRow ==
    ASSUME NEW s, IsSession(s), s.capture, NEW p \in Row, s.pendingMotion = <<p>>
    PROVE  /\ OnAccept(s).motion = s.motion
           /\ OnAccept(s).pendingMotion =
                <<[p EXCEPT !.moved = TRUE,
                            !.path = IF InFallback(p.results) THEN "fallback" ELSE "direct"]>>
  <1> DEFINE path == IF InFallback(p.results) THEN "fallback" ELSE "direct"
             q == [p EXCEPT !.moved = TRUE, !.path = path]
  <1>1. s.pendingMotion # <<>> /\ s.pendingMotion[1] = p
    OBVIOUS
  <1>2. (\E r \in Range(p.results) : r[1] = "00525fc0") <=> InFallback(p.results)
    BY DEF Range, InFallback
  <1>3. OnAccept(s) = [s EXCEPT !.pendingMotion = [[s.pendingMotion EXCEPT ![1] = [p EXCEPT !.moved = TRUE]]
                                                      EXCEPT ![1] = [[p EXCEPT !.moved = TRUE] EXCEPT !.path = path]]]
    BY <1>1, <1>2 DEF OnAccept
  <1>4. [[p EXCEPT !.moved = TRUE] EXCEPT !.path = path] = q
    OBVIOUS
  <1> HIDE DEF q, path
  <1>5. [[s.pendingMotion EXCEPT ![1] = [p EXCEPT !.moved = TRUE]] EXCEPT ![1] = q] = <<q>>
    BY OnlyPending
  <1>6. OnAccept(s) = [s EXCEPT !.pendingMotion = <<q>>]
    BY <1>3, <1>4, <1>5
  <1> QED
    BY <1>6 DEF IsSession, Fields, NewSession, q, path

LEMMA PendingStep ==
    ASSUME Base, MotionInv, Inside(MotionFields), UNCHANGED <<facts, disk>>,
           call.kind = "motion", call'.kind = "motion", InOrder(call'),
           ASSUME session.capture, epoch # "frontend",
                  NEW p, session.pendingMotion = <<p>>, Considers(p, call, Len(session.motion))
           PROVE  /\ session'.motion = session.motion
                  /\ \E q : /\ session'.pendingMotion = <<q>>
                            /\ Considers(q, call', Len(session.motion))
    PROVE  MotionInv'
  <1>1. session'.capture = session.capture /\ epoch' = epoch
    BY DEF Inside, Kept, Fields, NewSession, MotionFields
  <1>2. epoch = "backend_optimization"
    BY MotionCalls DEF Base
  <1>3. ASSUME session.capture PROVE RowsUnderWay'
    <2>1. RowsFit(session.motion, facts.moves)
      BY <1>2, <1>3 DEF MotionInv, RowsUnderWay
    <2>2. PICK p : session.pendingMotion = <<p>> /\ Considers(p, call, Len(session.motion))
      BY <1>2, <1>3 DEF MotionInv, RowsUnderWay
    <2>3. /\ session'.motion = session.motion
          /\ \E q : /\ session'.pendingMotion = <<q>>
                    /\ Considers(q, call', Len(session.motion))
      BY <1>2, <1>3, <2>2
    <2> QED
      BY <2>1, <2>3 DEF RowsUnderWay
  <1> QED
    BY <1>1, <1>2, <1>3 DEF MotionInv, RowsFiled

LEMMA TestStep ==
    ASSUME Base, MotionInv, NEW result \in BOOLEAN, Test(result)
    PROVE  MotionInv'
  <1>1. /\ Inside(MotionFields) /\ call.kind = "motion" /\ UNCHANGED <<facts, disk>>
        /\ session' = OnPredicate(session, Tests[call.passed + 1], result)
    BY MotionInside DEF Test, MotionActions
  <1>2. call \in MotionCall /\ call.passed \in {0, 1, 2, 3} /\ ~call.over /\ InOrder(call)
    BY <1>1, MotionCalls DEF Test, MotionCall, Base, MotionInv
  <1>3. /\ call'.kind = "motion" /\ ~call'.over /\ ~call'.moved /\ call'.passed # 9
        /\ call'.address = call.address
    BY <1>1, <1>2 DEF Test, MotionCall, InOrder
  <1>4. InOrder(call')
    BY <1>3 DEF InOrder
  <1>5. ASSUME session.capture, NEW p, session.pendingMotion = <<p>>,
               Considers(p, call, Len(session.motion))
        PROVE  /\ session'.motion = session.motion
               /\ \E q : session'.pendingMotion = <<q>> /\ Considers(q, call', Len(session.motion))
    <2> DEFINE name == Tests[call.passed + 1]
               q == [p EXCEPT !.results = Append(p.results, <<name, result>>)]
    <2>1. p \in Row /\ ~InFallback(p.results) /\ call.passed # 9
      BY <1>2, <1>5 DEF Considers
    <2>2. session'.motion = session.motion /\ session'.pendingMotion = <<q>>
      <3>1. IsSession(session) /\ p \in Row /\ session.capture /\ session.pendingMotion = <<p>>
        BY <1>5, <2>1 DEF Base, Shaped
      <3>2. /\ OnPredicate(session, name, result).motion = session.motion
            /\ OnPredicate(session, name, result).pendingMotion = <<q>>
        <4> HIDE DEF name
        <4> QED
          BY <3>1, PredicateRow, Zenon
      <3> QED
        BY <1>1, <3>2
    <2>3. name \in TestNames /\ name # "00525fc0"
      BY <1>2 DEF Tests, TestNames
    <2> HIDE DEF name
    <2>4. q.results \in Seq(TestNames \X BOOLEAN) /\ ~InFallback(q.results)
      <3> DEFINE x == <<name, result>>
      <3>1. p.results \in Seq(TestNames \X BOOLEAN) /\ q.results = Append(p.results, x)
        BY <2>1 DEF Row
      <3>2. x \in TestNames \X BOOLEAN /\ x[1] # "00525fc0"
        BY <2>3
      <3> HIDE DEF x, q
      <3>3. /\ Append(p.results, x) \in Seq(TestNames \X BOOLEAN)
            /\ DOMAIN Append(p.results, x) = 1..(Len(p.results) + 1)
            /\ Append(p.results, x)[Len(p.results) + 1] = x
            /\ \A n \in 1..Len(p.results) : Append(p.results, x)[n] = p.results[n]
            /\ DOMAIN p.results = 1..Len(p.results) /\ Len(p.results) \in Nat
        BY <3>1, <3>2
      <3>4. ASSUME NEW n \in DOMAIN Append(p.results, x)
            PROVE  Append(p.results, x)[n][1] # "00525fc0"
        <4>1. CASE n = Len(p.results) + 1
          BY <3>2, <3>3, <4>1
        <4>2. CASE n \in 1..Len(p.results)
          BY <2>1, <3>3, <4>2 DEF InFallback
        <4> QED
          BY <3>3, <4>1, <4>2
      <3> QED
        BY <3>1, <3>3, <3>4 DEF InFallback
    <2>5. /\ q \in Row /\ q.sequence = p.sequence /\ q.address = p.address /\ q.path = p.path
          /\ q.moved = p.moved
      BY <2>1, <2>4 DEF Row
    <2> HIDE DEF q
    <2>6. Considers(q, call', Len(session.motion))
      BY <1>2, <1>3, <1>5, <2>1, <2>4, <2>5 DEF Considers, PathOf
    <2> QED
      BY <2>2, <2>6
  <1> QED
    BY <1>1, <1>3, <1>4, <1>5, PendingStep

LEMMA FallbackStep ==
    ASSUME Base, MotionInv, NEW result \in BOOLEAN, TestFallback(result)
    PROVE  MotionInv'
  <1>1. /\ Inside(MotionFields) /\ call.kind = "motion" /\ UNCHANGED <<facts, disk>>
        /\ session' = OnPredicate(session, "00525fc0", result)
    BY MotionInside DEF TestFallback, MotionActions
  <1>2. call \in MotionCall /\ ~call.over /\ InOrder(call) /\ call.passed # 9
    BY <1>1, MotionCalls DEF TestFallback, MotionCall, Base, MotionInv, InOrder
  <1>3. /\ call'.kind = "motion" /\ call'.over /\ ~call'.direct /\ call'.passed = call.passed
        /\ call'.address = call.address
    BY <1>1, <1>2 DEF TestFallback, MotionCall
  <1>4. InOrder(call')
    BY <1>2, <1>3 DEF InOrder
  <1>5. ASSUME session.capture, NEW p, session.pendingMotion = <<p>>,
               Considers(p, call, Len(session.motion))
        PROVE  /\ session'.motion = session.motion
               /\ \E q : session'.pendingMotion = <<q>> /\ Considers(q, call', Len(session.motion))
    <2> DEFINE x == <<"00525fc0", result>>
               q == [p EXCEPT !.results = Append(p.results, x)]
    <2>1. p \in Row /\ call.passed # 9
      BY <1>2, <1>5 DEF Considers
    <2>2. session'.motion = session.motion /\ session'.pendingMotion = <<q>>
      <3>1. IsSession(session) /\ p \in Row /\ session.capture /\ session.pendingMotion = <<p>>
        BY <1>5, <2>1 DEF Base, Shaped
      <3>2. /\ OnPredicate(session, "00525fc0", result).motion = session.motion
            /\ OnPredicate(session, "00525fc0", result).pendingMotion = <<q>>
        BY <3>1, PredicateRow, Zenon
      <3> QED
        BY <1>1, <3>2
    <2>3. x \in TestNames \X BOOLEAN /\ x[1] = "00525fc0"
      BY DEF TestNames
    <2> HIDE DEF x
    <2>4. q.results \in Seq(TestNames \X BOOLEAN) /\ InFallback(q.results)
      <3>1. p.results \in Seq(TestNames \X BOOLEAN) /\ q.results = Append(p.results, x)
        BY <2>1 DEF Row
      <3>2. /\ Append(p.results, x) \in Seq(TestNames \X BOOLEAN)
            /\ Len(p.results) + 1 \in DOMAIN Append(p.results, x)
            /\ Append(p.results, x)[Len(p.results) + 1] = x
        BY <2>3, <3>1
      <3> QED
        BY <2>3, <3>1, <3>2 DEF InFallback
    <2>5. /\ q \in Row /\ q.sequence = p.sequence /\ q.address = p.address /\ q.path = p.path
          /\ q.moved = p.moved
      BY <2>1, <2>4 DEF Row
    <2> HIDE DEF q
    <2>6. Considers(q, call', Len(session.motion))
      BY <1>2, <1>3, <1>5, <2>1, <2>4, <2>5 DEF Considers, PathOf
    <2> QED
      BY <2>2, <2>6
  <1> QED
    BY <1>1, <1>3, <1>4, <1>5, PendingStep

LEMMA AcceptStep ==
    ASSUME Base, MotionInv, AcceptMotion
    PROVE  MotionInv'
  <1>1. /\ Inside(MotionFields) /\ call.kind = "motion" /\ UNCHANGED <<facts, disk>>
        /\ session' = OnAccept(session)
    BY MotionInside DEF AcceptMotion, MotionActions
  <1>2. /\ call \in MotionCall /\ InOrder(call) /\ call.passed # 9
        /\ ~call.over => call.direct
    BY <1>1, MotionCalls DEF AcceptMotion, MotionCall, Base, MotionInv, InOrder
  <1>3. /\ call'.kind = "motion" /\ call'.over /\ call'.direct = call.direct /\ call'.passed = 9
        /\ call'.address = call.address /\ call'.moved
    BY <1>1, <1>2 DEF AcceptMotion, MotionCall
  <1>4. InOrder(call')
    BY <1>2, <1>3 DEF InOrder
  <1>5. ASSUME session.capture, NEW p, session.pendingMotion = <<p>>,
               Considers(p, call, Len(session.motion))
        PROVE  /\ session'.motion = session.motion
               /\ \E q : session'.pendingMotion = <<q>> /\ Considers(q, call', Len(session.motion))
    <2> DEFINE path == IF InFallback(p.results) THEN "fallback" ELSE "direct"
               q == [p EXCEPT !.moved = TRUE, !.path = path]
    <2>1. p \in Row /\ (InFallback(p.results) <=> call.over /\ ~call.direct)
      BY <1>2, <1>5 DEF Considers
    <2>2. session'.motion = session.motion /\ session'.pendingMotion = <<q>>
      BY <1>1, <1>5, <2>1, AcceptRow DEF Base, Shaped
    <2>3. path \in Paths /\ path = IF call.over /\ ~call.direct THEN "fallback" ELSE "direct"
      BY <2>1 DEF Paths
    <2> HIDE DEF path
    <2>4. /\ q \in Row /\ q.sequence = p.sequence /\ q.address = p.address /\ q.path = path
          /\ q.moved = TRUE /\ q.results = p.results
      BY <2>1, <2>3 DEF Row
    <2> HIDE DEF q
    <2>5. path = PathOf(call')
      BY <1>2, <1>3, <2>3 DEF PathOf, InOrder
    <2>6. InFallback(q.results) <=> call'.over /\ ~call'.direct
      BY <1>2, <1>3, <2>1, <2>4 DEF InOrder
    <2>7. Considers(q, call', Len(session.motion))
      BY <1>3, <1>5, <2>4, <2>5, <2>6 DEF Considers
    <2> QED
      BY <2>2, <2>7
  <1> QED
    BY <1>1, <1>3, <1>4, <1>5, PendingStep

LEMMA FinishStep ==
    ASSUME Base, MotionInv, FinishConsidered
    PROVE  MotionInv'
  <1> DEFINE m == [address |-> call.address, path |-> PathOf(call)]
  <1>1. /\ Inside(MotionFields) /\ call.kind = "motion" /\ call'.kind = "none" /\ epoch' = epoch
        /\ session' = OnMotionFinish(session) /\ disk' = disk
    BY MotionInside DEF FinishConsidered, MotionActions, Idle
  <1>2. /\ call \in MotionCall /\ InOrder(call) /\ call.over /\ (call.moved => call.passed = 9)
        /\ epoch = "backend_optimization"
    BY <1>1, MotionCalls DEF FinishConsidered, Base, MotionInv
  <1>3. m \in [address : Nat, path : Paths]
    BY <1>2 DEF MotionCall, PathOf, Paths
  <1>4. facts'.moves = Append(facts.moves, m)
    <2>1. PathOf(call) = IF ~call.moved THEN "none" ELSE IF call.direct THEN "direct" ELSE "fallback"
      BY <1>2 DEF PathOf, InOrder
    <2> QED
      BY <2>1 DEF FinishConsidered, Base, Shaped
  <1> HIDE DEF m
  <1>5. facts'.moves \in Seq([address : Nat, path : Paths])
    BY <1>3, <1>4 DEF MotionInv
  <1>6. session'.capture = session.capture
    BY <1>1 DEF Inside, Kept, Fields, NewSession, MotionFields
  <1>7. ASSUME session.capture
        PROVE  RowsUnderWay'
    <2>1. PICK p : session.pendingMotion = <<p>> /\ Considers(p, call, Len(session.motion))
      BY <1>1, <1>2, <1>7 DEF MotionInv, RowsUnderWay
    <2>2. session'.motion = session.motion \o <<p>> /\ session'.pendingMotion = <<>>
      BY <1>1, <1>7, <2>1 DEF OnMotionFinish, FinishMotion, Base, Shaped, IsSession, Fields,
         NewSession
    <2>3. p \in Row /\ p.sequence = Len(session.motion)
      BY <2>1 DEF Considers
    <2>4. p.address = call.address /\ p.path = PathOf(call) /\ p.moved = (call.passed = 9)
      BY <2>1 DEF Considers
    <2>5. Told(p, m)
      <3>1. (PathOf(call) # "none") = (call.passed = 9)
        BY DEF PathOf
      <3> QED
        BY <2>4, <3>1 DEF Told, m
    <2>6. RowsFit(session.motion, facts.moves)
      BY <1>1, <1>2, <1>7 DEF MotionInv, RowsUnderWay
    <2>7. RowsFit(session.motion \o <<p>>, Append(facts.moves, m))
      BY <1>3, <2>3, <2>5, <2>6, RowAdded DEF MotionInv
    <2> QED
      BY <1>1, <1>4, <2>2, <2>7 DEF RowsUnderWay
  <1>8. RowsFiled'
    BY <1>1, <1>2 DEF RowsFiled
  <1> QED
    BY <1>1, <1>2, <1>5, <1>6, <1>7, <1>8 DEF MotionInv

(* Steps that have nothing to do with motion.                              *)
LEMMA MotionUntouched ==
    ASSUME MotionInv, session'.capture = session.capture, session'.motion = session.motion,
           session'.pendingMotion = session.pendingMotion, facts'.moves = facts.moves,
           disk'.motion = disk.motion, epoch' = epoch,
           call.kind # "motion", call'.kind # "motion"
    PROVE  MotionInv'
  <1>1. RowsUnderWay => RowsUnderWay'
    BY DEF RowsUnderWay
  <1>2. RowsFiled'
    BY DEF MotionInv, RowsFiled
  <1> QED
    BY <1>1, <1>2 DEF MotionInv

LEMMA MotionReset ==
    ASSUME Base, MotionInv, ResetCounters
    PROVE  MotionInv'
  <1>1. /\ epoch' = "frontend" /\ facts'.moves = <<>> /\ disk'.motion = <<>> /\ call'.kind = "none"
    BY NoCallsOutside DEF ResetCounters, Base, Shaped
  <1> QED
    BY <1>1 DEF MotionInv, RowsFiled

LEMMA MotionEnters ==
    ASSUME Base, MotionInv, EnterCodeGen
    PROVE  MotionInv'
  <1>1. /\ epoch = "frontend" /\ epoch' = "initial_lowering" /\ facts'.moves = <<>>
        /\ facts' = facts /\ call'.kind = "none"
    BY NoCallsOutside DEF EnterCodeGen, Base, MotionInv
  <1>2. session'.motion = <<>> /\ session'.pendingMotion = <<>>
    BY DEF EnterCodeGen, BeginFunction, NewSession
  <1>3. RowsUnderWay'
    BY <1>1, <1>2 DEF RowsUnderWay, RowsFit
  <1> QED
    BY <1>1, <1>3 DEF MotionInv, RowsFiled

LEMMA MotionEnds ==
    ASSUME Base, MotionInv, EndEpoch
    PROVE  MotionInv'
  <1>1. /\ call.kind = "none" /\ call' = call /\ facts' = facts /\ epoch' = After(epoch)
        /\ epoch \notin {"frontend", "final"} /\ epoch \in EpochNames
        /\ epoch' # "frontend"
    BY AfterEpoch DEF EndEpoch, Idle, Base, Shaped, EpochNames
  <1>2. session'.capture = session.capture
    BY ShapedEndEpoch DEF Base, Kept, Fields, NewSession
  <1>3. session.capture => RowsFit(session.motion, facts.moves) /\ session.pendingMotion = <<>>
    BY <1>1 DEF MotionInv, RowsUnderWay
  <1>4. ASSUME session.capture
        PROVE  session'.motion = session.motion /\ session'.pendingMotion = <<>>
    <2>1. session.motion \o <<>> = session.motion
      BY <1>3, <1>4 DEF RowsFit
    <2> QED
      BY <1>3, <1>4, <2>1 DEF EndEpoch, OnStage, RecordBoundary, FinishMotion, Base, Shaped,
         IsSession, Fields, NewSession
  <1>5. session.capture => RowsUnderWay'
    BY <1>1, <1>3, <1>4 DEF RowsUnderWay
  <1>6. RowsFiled'
    <2>1. CASE epoch = "backend_optimization" /\ session.capture
      <3>1. Stage(epoch) = "optimized"
        BY <2>1 DEF Stage
      <3>2. FinishMotion(session).motion = session.motion
        <4>1. session.motion \o <<>> = session.motion
          BY <1>3, <2>1 DEF RowsFit
        <4> QED
          BY <1>3, <2>1, <4>1 DEF FinishMotion, Base, Shaped, IsSession, Fields, NewSession
      <3>3. disk'.motion = <<FinishMotion(session).motion>>
        BY <2>1, <3>1 DEF EndEpoch, WithStage, Base, Shaped
      <3> QED
        BY <1>4, <2>1, <3>2, <3>3 DEF RowsFiled
    <2>2. CASE epoch = "initial_lowering" \/ ~session.capture
      BY <1>1, <1>2, <2>2, AfterEpoch DEF RowsFiled
    <2>3. CASE epoch \notin {"initial_lowering", "backend_optimization"} /\ session.capture
      <3>1. Stage(epoch) # "optimized"
        BY <1>1, <2>3 DEF Stage, EpochNames
      <3>2. disk'.motion = disk.motion
        BY <3>1 DEF EndEpoch, WithStage, Base, Shaped
      <3> QED
        BY <1>1, <1>4, <2>3, <3>2 DEF RowsFiled, MotionInv
    <2> QED
      BY <2>1, <2>2, <2>3 DEF Base, Timeline
  <1> QED
    BY <1>1, <1>2, <1>5, <1>6 DEF MotionInv

LEMMA MotionInit == CaptureInit => MotionInv
  <1> SUFFICES ASSUME CaptureInit PROVE MotionInv
    OBVIOUS
  <1>1. /\ call.kind = "none" /\ epoch = "final" /\ facts.moves = <<>>
        /\ ~session.capture
    BY DEF CaptureInit, Idle, NewSession
  <1> QED
    BY <1>1 DEF MotionInv, RowsFiled

LEMMA MotionStep == ASSUME Base, MotionInv, [CaptureNext]_captureVars PROVE MotionInv'
  <1>1. CASE UNCHANGED captureVars
    BY <1>1 DEF captureVars, compiler, MotionInv, RowsUnderWay, RowsFiled
  <1>2. CASE MotionActions
    BY <1>2, FinishStep, AcceptStep, ConsiderStep, TestStep, FallbackStep DEF MotionActions
  <1>3. CASE CodeActions \/ SelectActions \/ FrameActions
    <2>1. /\ facts'.moves = facts.moves /\ disk'.motion = disk.motion
          /\ call.kind # "motion" /\ call'.kind # "motion"
      BY <1>3, CodeLeaves, SelectLeaves, FrameLeaves DEF CodeFootprint
    <2>2. PICK F \in {CodeFields, SelectFields, FrameFields} : Inside(F)
      BY <1>3, CodeInside, SelectInside, FrameInside
    <2>3. /\ epoch' = epoch /\ session'.capture = session.capture
          /\ session'.motion = session.motion /\ session'.pendingMotion = session.pendingMotion
      BY <2>2 DEF Inside, Kept, Fields, NewSession, CodeFields, SelectFields, FrameFields
    <2> QED
      BY <2>1, <2>3, MotionUntouched
  <1>4. CASE CaptureNext
    BY <1>2, <1>3, <1>4, ActionGroups, MotionReset, MotionEnters, MotionEnds DEF Base
  <1> QED
    BY <1>1, <1>4

LEMMA MotionSuffices == ASSUME Base, MotionInv PROVE MotionRowsAreExact
  <1> SUFFICES ASSUME disk.motion # <<>>, session.capture,
                      epoch \notin {"frontend", "initial_lowering", "backend_optimization"}
               PROVE  RowsFit(disk.motion[1], facts.moves)
    BY DEF MotionRowsAreExact, RowsFit, Told
  <1> QED
    BY DEF MotionInv, RowsFiled, RowsUnderWay

(* The motion file of a captured function has one row for each instruction *)
(* that was considered, in order, and says whether and how it moved.       *)
THEOREM MotionRows == CaptureSpec => []MotionRowsAreExact
  <1> DEFINE I == Base /\ MotionInv
  <1>1. CaptureInit => I
    BY BaseInit, MotionInit
  <1>2. I /\ [CaptureNext]_captureVars => I'
    BY BaseStep, MotionStep
  <1>3. I => MotionRowsAreExact
    BY MotionSuffices
  <1> QED
    BY <1>1, <1>2, <1>3, PTL DEF CaptureSpec

(***************************************************************************)
(* Selections of colours.  Nothing but the files of the current function   *)
(* is on disk, and the return breakpoint waits for the running selection.  *)
(***************************************************************************)
Running(c) == IF call.kind = "select" /\ call.class = c THEN 1 ELSE 0

Awaited == [class |-> call.class, attempt |-> facts.selections[call.class], index |-> function]

Counted ==
  /\ facts.selections \in [Classes -> Nat]
  /\ "allocated" \notin facts.done => \A c \in Classes : facts.selections[c] = 0
  /\ epoch = "frontend" => facts.done = {} /\ disk.coloring = {}
  /\ call.kind = "select" => facts.selections[call.class] > 0
  /\ session.capture /\ epoch # "frontend" => session.attempts = facts.selections
  /\ session.returns = IF session.capture /\ call.kind = "select" THEN {Awaited} ELSE {}

Filed(f) ==
  /\ f.capture = function /\ f.class \in Classes /\ f.phase \in {"before", "after"}
  /\ f.attempt \in 1..(facts.selections[f.class]
                         - (IF f.phase = "after" THEN Running(f.class) ELSE 0))
  /\ ValidColoring(f)

OfGraph(f, g) == f.neighbors = g.neighbors /\ f.parents = g.parents

FilesPair ==
  /\ \A f, h \in disk.coloring : f.class = h.class /\ f.attempt = h.attempt => OfGraph(f, h)
  /\ call.kind = "select" =>
       \A f \in disk.coloring :
         f.class = call.class /\ f.attempt = facts.selections[call.class] => OfGraph(f, call.graph)

HasFile(c, k, phase) ==
  \E f \in disk.coloring : f.class = c /\ f.attempt = k /\ f.phase = phase

FilesComplete ==
  \A c \in Classes :
    /\ \A k \in 1..facts.selections[c] : HasFile(c, k, "before")
    /\ \A k \in 1..(facts.selections[c] - Running(c)) : HasFile(c, k, "after")

StagesCurrent == \A n \in DOMAIN disk.stage : disk.stage[n].capture = function

SelectInv ==
  /\ Counted /\ FilesPair /\ StagesCurrent
  /\ \A f \in disk.coloring : Filed(f)
  /\ session.capture /\ epoch # "frontend" => FilesComplete

(* A walk meets cells of its list only.                                    *)
LEMMA WalkUnfolds ==
    ASSUME NEW next, IsFiniteSet(DOMAIN next), NEW head \in DOMAIN next \cup {0},
           \A x \in DOMAIN next : next[x] \in DOMAIN next \cup {0}
    PROVE  \E f \in [0..Cardinality(DOMAIN next) -> DOMAIN next \cup {0}] :
             /\ Walk(next, head) =
                  [n \in 1..Cardinality({m \in 1..Cardinality(DOMAIN next) : f[m - 1] # 0}) |-> f[n - 1]]
             /\ f[0] = head
             /\ \A n \in 1..Cardinality(DOMAIN next) :
                  f[n] = IF f[n - 1] = 0 THEN 0 ELSE next[f[n - 1]]
  <1> DEFINE N == Cardinality(DOMAIN next)
             S == DOMAIN next \cup {0}
             F == [p \in (1..N) \X S |-> IF p[2] = 0 THEN 0 ELSE next[p[2]]]
             Body(g) == [n \in 0..N |-> IF n = 0 THEN head
                                        ELSE IF g[n - 1] = 0 THEN 0 ELSE next[g[n - 1]]]
             G == CHOOSE g : g = Body(g)
  <1>1. N \in Nat /\ head \in S
    BY FS_CardinalityType
  <1>2. F \in [(1..N) \X S -> S]
    <2> SUFFICES ASSUME NEW p \in (1..N) \X S
                 PROVE  (IF p[2] = 0 THEN 0 ELSE next[p[2]]) \in S
      OBVIOUS
    <2>1. p[2] \in S
      OBVIOUS
    <2> QED
      BY <2>1
  <1>3. \A n \in 1..N, x \in S : F[<<n, x>>] = IF x = 0 THEN 0 ELSE next[x]
    OBVIOUS
  <1> HIDE DEF F, S, N
  <1>4. PICK g : Recurses(g, head, F, S, N)
    BY <1>1, <1>2, BoundedRecursion
  <1>5. g \in [0..N -> S] /\ g[0] = head
    BY <1>4 DEF Recurses
  <1>6. ASSUME NEW n \in 1..N
        PROVE  g[n] = IF g[n - 1] = 0 THEN 0 ELSE next[g[n - 1]]
    <2>1. n - 1 \in 0..N /\ g[n - 1] \in S
      BY <1>1, <1>5
    <2>2. g[n] = F[<<n, g[n - 1]>>]
      BY <1>4 DEF Recurses
    <2> QED
      BY <1>3, <2>1, <2>2
  <1>7. g = Body(g)
    <2>1. \A n \in 0..N : n = 0 \/ n \in 1..N
      BY <1>1
    <2>2. \A n \in 0..N : g[n] = Body(g)[n]
      BY <1>5, <1>6, <2>1
    <2> QED
      BY <1>5, <2>2
  <1> HIDE DEF Body
  <1>8. G = Body(G)
    BY <1>7, Zenon
  <1>9. Walk(next, head) = [n \in 1..Cardinality({m \in 1..N : G[m - 1] # 0}) |-> G[n - 1]]
    BY Zenon DEF Walk, G, Body, N
  <1> HIDE DEF G
  <1>10. G[0] = head /\ \A n \in 1..N : G[n] = IF G[n - 1] = 0 THEN 0 ELSE next[G[n - 1]]
    <2>1. \A n \in 0..N : G[n] = IF n = 0 THEN head
                                 ELSE IF G[n - 1] = 0 THEN 0 ELSE next[G[n - 1]]
      BY <1>8, Zenon DEF Body
    <2>2. 0 \in 0..N /\ \A n \in 1..N : n \in 0..N /\ n # 0
      BY <1>1
    <2> QED
      BY <2>1, <2>2, Zenon
  <1>11. G = g
    <2> DEFINE P == {n \in Nat : n <= N => G[n] = g[n]}
    <2>1. 0 \in P
      BY <1>5, <1>10
    <2>2. ASSUME NEW n \in Nat, n \in P PROVE n + 1 \in P
      <3> SUFFICES ASSUME n + 1 <= N PROVE G[n + 1] = g[n + 1]
        OBVIOUS
      <3>0. n <= N
        BY <1>1
      <3>1. n + 1 \in 1..N /\ (n + 1) - 1 = n /\ G[n] = g[n]
        BY <2>2, <1>1, <3>0
      <3> QED
        BY <1>6, <1>10, <3>1
    <2> HIDE DEF P
    <2>3. Nat \subseteq P
      BY <2>1, <2>2, Induction
    <2>4. \A n \in 0..N : G[n] = g[n]
      BY <1>1, <2>3 DEF P
    <2>5. G = [n \in 0..N |-> G[n]]
      BY <1>8 DEF Body
    <2> QED
      BY <1>5, <2>4, <2>5
  <1> QED
    BY <1>5, <1>9, <1>10, <1>11 DEF S, N

LEMMA WalkStays ==
    ASSUME NEW next, IsFiniteSet(DOMAIN next), NEW head \in DOMAIN next \cup {0},
           \A x \in DOMAIN next : next[x] \in DOMAIN next \cup {0}
    PROVE  \A n \in DOMAIN Walk(next, head) : Walk(next, head)[n] \in DOMAIN next
  <1> DEFINE N == Cardinality(DOMAIN next)
  <1>1. PICK f \in [0..N -> DOMAIN next \cup {0}] :
             /\ Walk(next, head) = [n \in 1..Cardinality({m \in 1..N : f[m - 1] # 0}) |-> f[n - 1]]
             /\ f[0] = head
             /\ \A n \in 1..N : f[n] = IF f[n - 1] = 0 THEN 0 ELSE next[f[n - 1]]
    BY WalkUnfolds
  <1> DEFINE met == {m \in 1..N : f[m - 1] # 0}
  <1>2. N \in Nat
    BY FS_CardinalityType
  <1> HIDE DEF N
  <1>3. IsFiniteSet(met) /\ Cardinality(met) \in Nat /\ Cardinality(met) <= N
    <2>1. IsFiniteSet(1..N) /\ Cardinality(1..N) = N
      BY <1>2, FS_Interval
    <2>2. met \subseteq 1..N
      OBVIOUS
    <2> QED
      BY <2>1, <2>2, FS_Subset, FS_CardinalityType
  <1>4. ASSUME NEW n \in 1..Cardinality(met), f[n - 1] = 0
        PROVE  FALSE
    <2> DEFINE P == {k \in Nat : n - 1 + k <= N => f[n - 1 + k] = 0}
    <2>1. 0 \in P
      BY <1>4
    <2>2. ASSUME NEW k \in Nat, k \in P PROVE k + 1 \in P
      <3> SUFFICES ASSUME n - 1 + (k + 1) <= N PROVE f[n - 1 + (k + 1)] = 0
        OBVIOUS
      <3>1. /\ n - 1 + k <= N /\ n - 1 + (k + 1) \in 1..N
            /\ (n - 1 + (k + 1)) - 1 = n - 1 + k
        BY <1>2, <1>3
      <3>2. f[n - 1 + k] = 0
        BY <2>2, <3>1
      <3> QED
        BY <1>1, <3>1, <3>2
    <2> HIDE DEF P
    <2>3. Nat \subseteq P
      BY <2>1, <2>2, Induction
    <2>4. ASSUME NEW m \in met PROVE m \in 1..(n - 1)
      <3>1. m \in 1..N /\ f[m - 1] # 0
        OBVIOUS
      <3>2. CASE m >= n
        <4>1. m - n \in Nat /\ n - 1 + (m - n) = m - 1 /\ m - 1 <= N
          BY <1>2, <1>3, <3>1, <3>2
        <4> QED
          BY <2>3, <3>1, <4>1 DEF P
      <3> QED
        BY <1>3, <3>1, <3>2
    <2>5. met \subseteq 1..(n - 1)
      BY <2>4
    <2>6. IsFiniteSet(1..(n - 1)) /\ Cardinality(1..(n - 1)) = n - 1
      <3>1. n - 1 \in Nat
        BY <1>3
      <3>2. \A k \in Nat : IsFiniteSet(1..k) /\ Cardinality(1..k) = k
        BY FS_Interval
      <3> QED
        BY <3>1, <3>2
    <2>7. Cardinality(met) <= n - 1
      BY <2>5, <2>6, FS_Subset
    <2> QED
      BY <1>3, <2>7
  <1>5. ASSUME NEW n \in 1..Cardinality(met)
        PROVE  f[n - 1] \in DOMAIN next
    <2>1. n - 1 \in 0..N
      BY <1>2, <1>3
    <2> QED
      BY <1>1, <1>4, <2>1
  <1>6. Walk(next, head) = [n \in 1..Cardinality(met) |-> f[n - 1]]
    BY <1>1
  <1> HIDE DEF met
  <1> QED
    BY <1>5, <1>6

LEMMA GraphFileIsValid ==
    ASSUME NEW g \in Graphs, NEW stack \in {g.stack, 0}, NEW capture, NEW class, NEW attempt,
           NEW phase
    PROVE  LET f == ColoringFile(g, stack, capture, class, attempt, phase)
           IN  /\ ValidColoring(f) /\ OfGraph(f, g)
               /\ f.capture = capture /\ f.class = class /\ f.attempt = attempt
               /\ f.phase = phase
  <1> DEFINE f == ColoringFile(g, stack, capture, class, attempt, phase)
  <1>1. /\ f.neighbors = g.neighbors /\ f.parents = g.parents
        /\ f.count = Cardinality(DOMAIN g.parents) /\ f.groups = CoalescingGroups(g.parents)
        /\ f.order = Walk(g.next, stack)
        /\ f.capture = capture /\ f.class = class /\ f.attempt = attempt /\ f.phase = phase
    BY DEF ColoringFile, ColoringSnapshot
  <1>2. /\ \A r \in DOMAIN g.neighbors : g.neighbors[r] \subseteq DOMAIN g.neighbors
        /\ ~BadParents(g.parents)
        /\ IsFiniteSet(DOMAIN g.next) /\ DOMAIN g.next \subseteq DOMAIN g.neighbors
        /\ \A r \in DOMAIN g.next : g.next[r] \in DOMAIN g.next \cup {0}
        /\ stack \in DOMAIN g.next \cup {0}
    BY GraphsAssumption
  <1> HIDE DEF f
  <1>3. \A n \in DOMAIN Walk(g.next, stack) : Walk(g.next, stack)[n] \in DOMAIN g.next
    BY <1>2, WalkStays
  <1>4. Range(f.order) \subseteq DOMAIN g.neighbors
    BY <1>1, <1>2, <1>3 DEF Range
  <1>5. ValidColoring(f)
    BY <1>1, <1>2, <1>4 DEF ValidColoring
  <1> QED
    BY <1>1, <1>5 DEF OfGraph, f

(* Steps that have nothing to do with selections.                          *)
LEMMA SelectUntouched ==
    ASSUME SelectInv, function' = function, epoch' = epoch,
           session'.capture = session.capture, session'.attempts = session.attempts,
           session'.returns = session.returns, facts'.selections = facts.selections,
           "allocated" \in facts'.done <=> "allocated" \in facts.done,
           epoch = "frontend" => facts'.done = facts.done,
           disk'.coloring = disk.coloring, disk'.stage = disk.stage,
           call.kind # "select", call'.kind # "select"
    PROVE  SelectInv'
  <1>1. \A c : Running(c)' = Running(c)
    BY DEF Running
  <1>2. \A c, k, p : HasFile(c, k, p)' <=> HasFile(c, k, p)
    BY DEF HasFile
  <1>3. Counted'
    BY DEF SelectInv, Counted
  <1>4. FilesPair' /\ StagesCurrent'
    BY DEF SelectInv, FilesPair, StagesCurrent
  <1>5. \A f \in disk.coloring : Filed(f)'
    BY <1>1 DEF SelectInv, Filed
  <1>6. session.capture /\ epoch # "frontend" => FilesComplete'
    BY <1>1, <1>2 DEF SelectInv, FilesComplete
  <1> QED
    BY <1>3, <1>4, <1>5, <1>6 DEF SelectInv

LEMMA SelectReset ==
    ASSUME Base, SelectInv, ResetCounters
    PROVE  SelectInv'
  <1>1. /\ epoch' = "frontend" /\ call.kind = "none" /\ call' = call /\ disk'.stage = <<>>
        /\ disk'.coloring = {} /\ facts'.done = {}
        /\ facts'.selections = [c \in Classes |-> 0]
    BY NoCallsOutside DEF ResetCounters, Base, Shaped
  <1>2. session'.returns = session.returns /\ session'.capture = session.capture
    BY ShapedResetCounters DEF Base, Kept, Fields, NewSession
  <1>3. Counted'
    BY <1>1, <1>2 DEF Counted, SelectInv
  <1> QED
    BY <1>1, <1>3 DEF SelectInv, FilesPair, StagesCurrent

LEMMA SelectEnters ==
    ASSUME Base, SelectInv, EnterCodeGen
    PROVE  SelectInv'
  <1>1. /\ epoch = "frontend" /\ epoch' = "initial_lowering" /\ call.kind = "none"
        /\ call' = call /\ disk' = disk /\ facts' = facts /\ function' = function
    BY NoCallsOutside DEF EnterCodeGen, Base
  <1>2. /\ facts.selections \in [Classes -> Nat] /\ \A c \in Classes : facts.selections[c] = 0
        /\ facts.done = {} /\ disk.coloring = {} /\ session.returns = {}
    BY <1>1 DEF SelectInv, Counted
  <1>3. session'.attempts = [c \in Classes |-> 0] /\ session'.returns = {}
    BY <1>2 DEF EnterCodeGen, BeginFunction, NewSession
  <1>4. session'.attempts = facts'.selections
    BY <1>1, <1>2, <1>3
  <1>5. Counted'
    BY <1>1, <1>2, <1>3, <1>4 DEF Counted
  <1>6. FilesComplete'
    BY <1>1, <1>2 DEF FilesComplete, Running
  <1>7. FilesPair' /\ StagesCurrent'
    BY <1>1, <1>2 DEF FilesPair, StagesCurrent, SelectInv
  <1> QED
    BY <1>1, <1>2, <1>5, <1>6, <1>7 DEF SelectInv

LEMMA SelectEnds ==
    ASSUME Base, SelectInv, EndEpoch
    PROVE  SelectInv'
  <1>1. /\ call.kind = "none" /\ call' = call /\ facts' = facts /\ function' = function
        /\ epoch # "frontend" /\ epoch' # "frontend"
    BY AfterEpoch DEF EndEpoch, Idle, Base, Shaped, EpochNames
  <1>2. /\ session'.capture = session.capture /\ session'.attempts = session.attempts
        /\ session'.returns = session.returns
    BY ShapedEndEpoch DEF Base, Kept, Fields, NewSession
  <1>3. disk'.coloring = disk.coloring
    BY DEF EndEpoch, WithStage, Base, Shaped
  <1>4. StagesCurrent'
    <2>1. CASE session.capture
      <3>1. disk'.stage = <<StageFile(session, Stage(epoch))>>
        BY <2>1 DEF EndEpoch, WithStage, Base, Shaped
      <3>2. StageFile(session, Stage(epoch)).capture = session.index
        BY DEF StageFile
      <3> HIDE DEF StageFile
      <3> QED
        BY <1>1, <3>1, <3>2 DEF StagesCurrent, Base, Timeline
    <2>2. CASE ~session.capture
      <3>1. disk'.stage = disk.stage
        BY <2>2 DEF EndEpoch, WithStage, Base, Shaped
      <3> QED
        BY <1>1, <3>1 DEF StagesCurrent, SelectInv
    <2> QED
      BY <2>1, <2>2
  <1>5. \A c : Running(c)' = Running(c)
    BY <1>1 DEF Running
  <1>6. \A c, k, p : HasFile(c, k, p)' <=> HasFile(c, k, p)
    BY <1>3 DEF HasFile
  <1>7. Counted' /\ FilesPair'
    BY <1>1, <1>2, <1>3 DEF SelectInv, Counted, FilesPair
  <1>8. \A f \in disk.coloring : Filed(f)'
    BY <1>1, <1>5 DEF SelectInv, Filed
  <1>9. session.capture => FilesComplete'
    BY <1>1, <1>5, <1>6 DEF SelectInv, FilesComplete
  <1> QED
    BY <1>1, <1>2, <1>3, <1>4, <1>7, <1>8, <1>9 DEF SelectInv

LEMMA SelectInit == CaptureInit => SelectInv
  <1> SUFFICES ASSUME CaptureInit PROVE SelectInv
    OBVIOUS
  <1>1. /\ call.kind = "none" /\ epoch = "final" /\ facts.selections = [c \in Classes |-> 0]
        /\ facts.done = {} /\ disk.coloring = {} /\ disk.stage = <<>>
        /\ ~session.capture /\ session.returns = {}
    BY DEF CaptureInit, Idle, NewSession
  <1> QED
    BY <1>1 DEF SelectInv, Counted, FilesPair, StagesCurrent

LEMMA SelectAllocates ==
    ASSUME Base, SelectInv, EnterAllocateRegisters
    PROVE  SelectInv'
  <1>1. /\ call.kind = "none" /\ call' = call /\ function' = function /\ epoch' = epoch
        /\ epoch = "register_allocation" /\ session.active
        /\ facts'.selections = facts.selections /\ facts'.done = facts.done \cup {"allocated"}
        /\ "allocated" \notin facts.done /\ disk'.coloring = disk.coloring
    BY FunctionsAssumption DEF EnterAllocateRegisters, Idle, Base, Shaped, Timeline
  <1>2. session'.capture = session.capture /\ session'.returns = session.returns
        /\ session'.index = session.index
    BY <1>1, ShapedEnterAllocateRegisters DEF Base, Kept, Fields, NewSession
  <1>3. session.capture => session'.attempts = [c \in Classes |-> 0]
    BY <1>1 DEF EnterAllocateRegisters, OnAllocate, RecordBoundary, Base, Shaped, IsSession,
       Fields, NewSession
  <1>4. facts.selections = [c \in Classes |-> 0]
    BY <1>1 DEF SelectInv, Counted
  <1>5. Counted'
    BY <1>1, <1>2, <1>3, <1>4 DEF SelectInv, Counted
  <1>6. StagesCurrent'
    <2>1. CASE session'.capture
      <3>1. disk'.stage[1].capture = session'.index /\ DOMAIN disk'.stage = {1}
        BY <2>1 DEF EnterAllocateRegisters, Base, Shaped
      <3> QED
        BY <1>1, <1>2, <3>1 DEF StagesCurrent, Base, Timeline
    <2>2. CASE ~session'.capture
      <3>1. disk'.stage = disk.stage
        BY <2>2 DEF EnterAllocateRegisters, Base, Shaped
      <3> QED
        BY <1>1, <3>1 DEF StagesCurrent, SelectInv
    <2> QED
      BY <2>1, <2>2
  <1>7. \A c : Running(c)' = Running(c)
    BY <1>1 DEF Running
  <1>8. \A c, k, p : HasFile(c, k, p)' <=> HasFile(c, k, p)
    BY <1>1 DEF HasFile
  <1>9. FilesPair'
    BY <1>1 DEF SelectInv, FilesPair
  <1>10. \A f \in disk.coloring : Filed(f)'
    BY <1>1, <1>7 DEF SelectInv, Filed
  <1>11. session.capture => FilesComplete'
    BY <1>1, <1>7, <1>8 DEF SelectInv, FilesComplete
  <1> QED
    BY <1>1, <1>2, <1>5, <1>6, <1>9, <1>10, <1>11 DEF SelectInv

(* A selection begins: one more of its class, and a file if captured.      *)
LEMMA SelectBegins ==
    ASSUME Base, SelectInv, NEW c \in Classes, NEW graph \in Graphs, Select(c, graph)
    PROVE  SelectInv'
  <1>0. PICK k, f : /\ k = facts.selections[c] + 1
                    /\ f = ColoringFile(graph, graph.stack, function, c, k, "before")
    OBVIOUS
  <1>1. /\ call.kind = "none" /\ function' = function /\ epoch' = epoch
        /\ epoch = "register_allocation" /\ "allocated" \in facts.done
        /\ facts'.done = facts.done /\ facts'.selections = [facts.selections EXCEPT ![c] = k]
        /\ call' = [kind |-> "select", class |-> c, graph |-> graph]
        /\ disk'.stage = disk.stage
    BY <1>0 DEF Select, WithColoring, Idle, Base, Shaped
  <1>2. facts.selections \in [Classes -> Nat] /\ k \in Nat /\ k > 0
        /\ facts'.selections[c] = k /\ (\A d \in Classes : d # c => facts'.selections[d] = facts.selections[d])
        /\ facts'.selections \in [Classes -> Nat]
    <2>1. facts.selections \in [Classes -> Nat]
      BY DEF SelectInv, Counted
    <2> QED
      BY <1>0, <1>1, <2>1
  <1>3. session.capture => session.attempts = facts.selections /\ session.index = function
    BY <1>1 DEF SelectInv, Counted, Base, Timeline
  <1>4. session'.capture = session.capture
    BY ShapedSelect DEF Base, Kept, Fields, NewSession
  <1>5. session.returns = {}
    BY <1>1 DEF SelectInv, Counted
  <1>6. ASSUME session.capture
        PROVE  session'.attempts = facts'.selections /\ session'.returns = {Awaited'}
    <2>1. session' = [session EXCEPT !.attempts[c] = k,
                        !.returns = session.returns \cup {[class |-> c, attempt |-> k, index |-> function]}]
      BY <1>0, <1>3, <1>6 DEF Select, OnSelect
    <2>2. session'.attempts = [session.attempts EXCEPT ![c] = k]
          /\ session'.returns = {[class |-> c, attempt |-> k, index |-> function]}
      BY <1>5, <2>1 DEF Base, Shaped, IsSession, Fields, NewSession
    <2> QED
      BY <1>1, <1>2, <1>3, <1>6, <2>2 DEF Awaited
  <1>7. ~session.capture => session'.returns = {}
    BY <1>5 DEF Select, OnSelect
  <1>8. Counted'
    <2>1. facts'.selections[call'.class] > 0
      BY <1>1, <1>2
    <2>2. session'.returns = IF session'.capture /\ call'.kind = "select" THEN {Awaited'} ELSE {}
      BY <1>1, <1>4, <1>6, <1>7
    <2>3. epoch' # "frontend" /\ "allocated" \in facts'.done /\ facts'.selections \in [Classes -> Nat]
      BY <1>1, <1>2
    <2> QED
      BY <1>4, <1>6, <2>1, <2>2, <2>3 DEF Counted
  <1>9. StagesCurrent'
    BY <1>1 DEF SelectInv, StagesCurrent
  <1>10. \A d : Running(d) = 0 /\ Running(d)' = IF d = c THEN 1 ELSE 0
    BY <1>1 DEF Running
  <1>11. \A h \in disk.coloring : Filed(h)' /\ (h.class = c => h.attempt # k)
    <2> SUFFICES ASSUME NEW h \in disk.coloring PROVE Filed(h)' /\ (h.class = c => h.attempt # k)
      OBVIOUS
    <2>1. Filed(h)
      BY DEF SelectInv
    <2>2. h.class \in Classes /\ h.attempt \in 1..facts.selections[h.class]
      BY <1>2, <1>10, <2>1 DEF Filed
    <2>3. CASE h.class = c
      <3>1. facts'.selections[c] - Running(c)' = facts.selections[c] /\ facts.selections[c] \in Nat
            /\ facts.selections[c] < k
        BY <1>0, <1>2, <1>10
      <3>2. h.attempt \in 1..(facts'.selections[h.class]
                                - (IF h.phase = "after" THEN Running(h.class)' ELSE 0))
        BY <1>2, <2>2, <2>3, <3>1
      <3> QED
        BY <1>1, <2>1, <2>2, <2>3, <3>1, <3>2 DEF Filed
    <2>4. CASE h.class # c
      <3>1. facts'.selections[h.class] = facts.selections[h.class] /\ Running(h.class)' = Running(h.class)
        BY <1>2, <1>10, <2>2, <2>4
      <3> QED
        BY <1>1, <2>1, <2>4, <3>1 DEF Filed
    <2> QED
      BY <2>3, <2>4
  <1>12. CASE session.capture
    <2>1. /\ ValidColoring(f) /\ OfGraph(f, graph) /\ f.capture = function /\ f.class = c
          /\ f.attempt = k /\ f.phase = "before"
      BY <1>0, GraphFileIsValid
    <2>2. session'.attempts[c] = k
      BY <1>2, <1>6, <1>12
    <2>3. disk' = WithColoring({f})
      BY <1>0, <1>3, <1>12, <2>2 DEF Select
    <2>4. disk'.coloring = {h \in disk.coloring : Named(f) # Named(h)} \cup {f}
      BY <2>3 DEF WithColoring, Base, Shaped
    <2>5. disk'.coloring = disk.coloring \cup {f}
      BY <1>11, <2>1, <2>4 DEF Named
    <2>6. Filed(f)'
      <3>1. k \in 1..(facts'.selections[c] - 0)
        BY <1>2
      <3> QED
        BY <1>1, <2>1, <3>1 DEF Filed
    <2>7. FilesPair'
      <3>1. \A h \in disk.coloring : ~(h.class = f.class /\ h.attempt = f.attempt)
        BY <1>11, <2>1
      <3>2. \A g, h \in disk'.coloring : g.class = h.class /\ g.attempt = h.attempt => OfGraph(g, h)
        BY <2>5, <3>1 DEF SelectInv, FilesPair, OfGraph
      <3>3. \A h \in disk'.coloring : h.class = call'.class /\ h.attempt = facts'.selections[call'.class]
                                        => OfGraph(h, call'.graph)
        BY <1>1, <1>2, <2>1, <2>5, <3>1
      <3> QED
        BY <3>2, <3>3 DEF FilesPair
    <2>8. FilesComplete'
      <3>1. \A d, n, p : HasFile(d, n, p) => HasFile(d, n, p)'
        BY <2>5 DEF HasFile
      <3>2. HasFile(c, k, "before")'
        BY <2>1, <2>5 DEF HasFile
      <3>3. FilesComplete
        BY <1>1, <1>12 DEF SelectInv
      <3>4. ASSUME NEW d \in Classes
            PROVE  /\ \A n \in 1..facts'.selections[d] : HasFile(d, n, "before")'
                   /\ \A n \in 1..(facts'.selections[d] - Running(d)') : HasFile(d, n, "after")'
        <4>1. CASE d = c
          <5>1. /\ facts'.selections[d] - Running(d)' = facts.selections[d] - Running(d)
                /\ \A n \in 1..facts'.selections[d] : n \in 1..facts.selections[d] \/ n = k
            BY <1>0, <1>2, <1>10, <4>1
          <5> QED
            BY <3>1, <3>2, <3>3, <4>1, <5>1 DEF FilesComplete
        <4>2. CASE d # c
          <5>1. facts'.selections[d] = facts.selections[d] /\ Running(d)' = Running(d)
            BY <1>2, <1>10, <4>2
          <5> QED
            BY <3>1, <3>3, <5>1 DEF FilesComplete
        <4> QED
          BY <4>1, <4>2
      <3> QED
        BY <3>4 DEF FilesComplete
    <2> QED
      BY <1>8, <1>9, <1>11, <2>5, <2>6, <2>7, <2>8 DEF SelectInv
  <1>13. CASE ~session.capture
    <2>1. disk'.coloring = disk.coloring
      BY <1>13 DEF Select
    <2>2. FilesPair'
      <3>1. \A h \in disk'.coloring : ~(h.class = c /\ h.attempt = k)
        BY <1>11, <2>1
      <3> QED
        BY <1>1, <1>2, <2>1, <3>1 DEF SelectInv, FilesPair
    <2> QED
      BY <1>4, <1>8, <1>9, <1>11, <1>13, <2>1, <2>2 DEF SelectInv
  <1> QED
    BY <1>12, <1>13

LEMMA SelectReturns ==
    ASSUME Base, SelectInv, ReturnSelect
    PROVE  SelectInv'
  <1>0. PICK c, k, f : /\ c = call.class /\ k = facts.selections[c]
                       /\ f = ColoringFile(call.graph, 0, function, c, k, "after")
    OBVIOUS
  <1>1. /\ call.kind = "select" /\ call'.kind = "none" /\ function' = function /\ epoch' = epoch
        /\ facts' = facts /\ disk'.stage = disk.stage /\ c \in Classes /\ call.graph \in Graphs
    BY <1>0, OperationKinds DEF ReturnSelect, WithColoring, Idle, Base, Shaped
  <1>2. epoch # "frontend"
    BY <1>1 DEF Base, Shaped, EpochsOf
  <1>3. facts.selections \in [Classes -> Nat] /\ k \in Nat /\ k > 0
    BY <1>0, <1>1 DEF SelectInv, Counted
  <1>4. session'.capture = session.capture /\ session'.attempts = session.attempts
    BY ShapedReturnSelect DEF Base, Kept, Fields, NewSession
  <1>5. session'.returns = {}
    <2>1. ~session.capture => session.returns = {}
      BY DEF SelectInv, Counted
    <2> QED
      BY <2>1 DEF ReturnSelect, OnSelectReturn, Base, Shaped, IsSession, Fields, NewSession
  <1>6. Counted'
    <2>1. session'.returns = IF session'.capture /\ call'.kind = "select" THEN {Awaited'} ELSE {}
      BY <1>1, <1>5
    <2> QED
      BY <1>1, <1>2, <1>4, <2>1 DEF SelectInv, Counted
  <1>7. StagesCurrent'
    BY <1>1 DEF SelectInv, StagesCurrent
  <1>8. \A d : Running(d)' = 0 /\ Running(d) = IF d = c THEN 1 ELSE 0
    BY <1>0, <1>1 DEF Running
  <1>9. \A h \in disk.coloring : Filed(h)'
    <2> SUFFICES ASSUME NEW h \in disk.coloring PROVE Filed(h)'
      OBVIOUS
    <2>1. Filed(h) /\ facts.selections[h.class] \in Nat
      BY <1>3 DEF SelectInv, Filed
    <2>2. h.attempt \in 1..(facts.selections[h.class] - (IF h.phase = "after" THEN Running(h.class)' ELSE 0))
      BY <1>8, <2>1 DEF Filed
    <2> QED
      BY <1>1, <2>1, <2>2 DEF Filed
  <1>10. CASE session.capture
    <2>1. /\ ValidColoring(f) /\ OfGraph(f, call.graph) /\ f.capture = function /\ f.class = c
          /\ f.attempt = k /\ f.phase = "after"
      BY <1>0, <1>1, GraphFileIsValid
    <2>2. session.returns = {Awaited}
      BY <1>1, <1>10 DEF SelectInv, Counted
    <2>3. {ColoringFile(call.graph, 0, r.index, r.class, r.attempt, "after") : r \in session.returns} = {f}
      <3>1. Awaited.index = function /\ Awaited.class = c /\ Awaited.attempt = k
        BY <1>0 DEF Awaited
      <3> QED
        BY <1>0, <2>2, <3>1
    <2>4. disk' = WithColoring({f})
      BY <1>10, <2>3 DEF ReturnSelect
    <2>5. disk'.coloring = {h \in disk.coloring : Named(f) # Named(h)} \cup {f}
      BY <2>4 DEF WithColoring, Base, Shaped
    <2>6. disk'.coloring = disk.coloring \cup {f}
      <3> SUFFICES ASSUME NEW h \in disk.coloring, Named(f) = Named(h) PROVE FALSE
        BY <2>5
      <3>1. h.class = c /\ h.attempt = k /\ h.phase = "after"
        BY <2>1 DEF Named
      <3>2. k \in 1..(k - 1)
        BY <1>0, <1>8, <3>1 DEF SelectInv, Filed
      <3> QED
        BY <1>3, <3>2
    <2>7. Filed(f)'
      <3>1. k \in 1..(facts'.selections[c] - Running(c)')
        BY <1>0, <1>1, <1>3, <1>8
      <3> QED
        BY <1>1, <2>1, <3>1 DEF Filed
    <2>8. FilesPair'
      <3>1. \A h \in disk.coloring : h.class = f.class /\ h.attempt = f.attempt => OfGraph(h, call.graph)
        BY <1>0, <1>1, <2>1 DEF SelectInv, FilesPair
      <3>2. \A g, h \in disk'.coloring : g.class = h.class /\ g.attempt = h.attempt => OfGraph(g, h)
        BY <2>1, <2>6, <3>1 DEF SelectInv, FilesPair, OfGraph
      <3> QED
        BY <1>1, <3>2 DEF FilesPair
    <2>9. FilesComplete'
      <3>1. \A d, n, p : HasFile(d, n, p) => HasFile(d, n, p)'
        BY <2>6 DEF HasFile
      <3>2. HasFile(c, k, "after")'
        BY <2>1, <2>6 DEF HasFile
      <3>3. FilesComplete
        BY <1>2, <1>10 DEF SelectInv
      <3>4. ASSUME NEW d \in Classes
            PROVE  /\ \A n \in 1..facts'.selections[d] : HasFile(d, n, "before")'
                   /\ \A n \in 1..(facts'.selections[d] - Running(d)') : HasFile(d, n, "after")'
        <4>1. \A n \in 1..facts'.selections[d] : HasFile(d, n, "before")'
          BY <1>1, <3>1, <3>3 DEF FilesComplete
        <4>2. \A n \in 1..(facts'.selections[d] - Running(d)') :
                n \in 1..(facts.selections[d] - Running(d)) \/ (d = c /\ n = k)
          BY <1>0, <1>1, <1>3, <1>8
        <4> QED
          BY <3>1, <3>2, <3>3, <4>1, <4>2 DEF FilesComplete
      <3> QED
        BY <3>4 DEF FilesComplete
    <2> QED
      BY <1>6, <1>7, <1>9, <2>6, <2>7, <2>8, <2>9 DEF SelectInv
  <1>11. CASE ~session.capture
    <2>1. disk'.coloring = disk.coloring
      BY <1>11 DEF ReturnSelect
    <2>2. FilesPair'
      BY <1>1, <2>1 DEF SelectInv, FilesPair
    <2> QED
      BY <1>4, <1>6, <1>7, <1>9, <1>11, <2>1, <2>2 DEF SelectInv
  <1> QED
    BY <1>10, <1>11

LEMMA SelectStep == ASSUME Base, SelectInv, [CaptureNext]_captureVars PROVE SelectInv'
  <1>1. CASE UNCHANGED captureVars
    <2>1. \A c : Running(c)' = Running(c)
      BY <1>1 DEF captureVars, compiler, Running
    <2>2. \A c, k, p : HasFile(c, k, p)' <=> HasFile(c, k, p)
      BY <1>1 DEF captureVars, compiler, HasFile
    <2>3. Counted' /\ FilesPair' /\ StagesCurrent'
      BY <1>1 DEF captureVars, compiler, SelectInv, Counted, FilesPair, StagesCurrent, Awaited
    <2>4. \A f \in disk'.coloring : Filed(f)'
      BY <1>1, <2>1 DEF captureVars, compiler, SelectInv, Filed
    <2>5. session'.capture /\ epoch' # "frontend" => FilesComplete'
      BY <1>1, <2>1, <2>2 DEF captureVars, compiler, SelectInv, FilesComplete
    <2> QED
      BY <2>3, <2>4, <2>5 DEF SelectInv
  <1>2. CASE CodeActions \/ MotionActions \/ FrameActions
    <2>1. /\ facts'.selections = facts.selections
          /\ disk'.coloring = disk.coloring
          /\ call.kind # "select" /\ call'.kind # "select"
      BY <1>2, CodeLeaves, MotionLeaves, FrameLeaves DEF CodeFootprint, MotionFootprint
    <2>2. disk'.stage = disk.stage
      BY <1>2, CodeLeaves, MotionLeaves, FrameLeaves DEF CodeFootprint, MotionFootprint
    <2>3. /\ "allocated" \in facts'.done <=> "allocated" \in facts.done
          /\ epoch = "frontend" => facts'.done = facts.done
      <3>1. CASE CodeActions \/ MotionActions
        BY <3>1, CodeLeaves, MotionLeaves DEF CodeFootprint, MotionFootprint
      <3>2. CASE FrameActions
        <4>1. epoch # "frontend"
          <5>1. call.kind \in {"homing", "slot", "frame"} => epoch # "frontend"
            BY DEF Base, Shaped, EpochsOf
          <5> QED
            BY <3>2, <5>1 DEF FrameActions, EnterHomingLoop, EnterSlot, ReturnAlignment,
               ReturnSlot, LeaveHomingLoop, FrameCheckpoint
        <4>2. facts'.done \in {facts.done, facts.done \cup {"homed"}, facts.done \cup {"framed"}}
          BY <3>2 DEF FrameActions, EnterHomingLoop, EnterSlot, ReturnAlignment,
             ReturnSlot, LeaveHomingLoop, FrameCheckpoint, Base, Shaped
        <4> QED
          BY <4>1, <4>2
      <3> QED
        BY <1>2, <3>1, <3>2
    <2>4. PICK F \in {CodeFields, MotionFields, FrameFields} : Inside(F)
      BY <1>2, CodeInside, MotionInside, FrameInside
    <2>5. /\ function' = function /\ epoch' = epoch /\ session'.capture = session.capture
          /\ session'.attempts = session.attempts /\ session'.returns = session.returns
      BY <2>4 DEF Inside, Kept, Fields, NewSession, CodeFields, MotionFields, FrameFields
    <2> QED
      BY <2>1, <2>2, <2>3, <2>5, SelectUntouched
  <1>3. CASE SelectActions
    BY <1>3, SelectAllocates, SelectBegins, SelectReturns DEF SelectActions
  <1>4. CASE CaptureNext
    BY <1>2, <1>3, <1>4, ActionGroups, SelectReset, SelectEnters, SelectEnds DEF Base
  <1> QED
    BY <1>1, <1>4

IsEdge(x, neighbors) == \E l \in DOMAIN neighbors : \E r \in neighbors[l] : x = {l, r}

IsRoot(x, parents) == \E r \in DOMAIN parents : parents[r] # r /\ x = <<r, RootIn(parents, r)>>

LEMMA EdgesOfOne ==
    ASSUME NEW f, NEW x
    PROVE  /\ x \in {e[4] : e \in FlattenColoring({f}).edges} <=> IsEdge(x, f.neighbors)
           /\ x \in {<<e[4], e[5]>> : e \in FlattenColoring({f}).coalesces} <=>
                IsRoot(x, f.parents)
  <1> DEFINE Tuple(l, r) == <<f.class, f.phase, f.attempt, {l, r}>>
             Root(r) == <<f.class, f.phase, f.attempt, r, RootIn(f.parents, r)>>
             Of(l) == {Tuple(l, r) : r \in f.neighbors[l]}
             E == FlattenColoring({f}).edges
             C == FlattenColoring({f}).coalesces
  <1>1. E = UNION {Of(l) : l \in DOMAIN f.neighbors}
    BY DEF FlattenColoring
  <1>2. C = {Root(r) : r \in {q \in DOMAIN f.parents : f.parents[q] # q}}
    <2>1. C = {<<f.class, f.phase, f.attempt, r, RootIn(f.parents, r)>> :
                 r \in {q \in DOMAIN f.parents : f.parents[q] # q}}
      BY DEF FlattenColoring
    <2> QED
      BY <2>1
  <1>3. \A l, r : Tuple(l, r)[4] = {l, r}
    OBVIOUS
  <1>4. \A r : Root(r)[4] = r /\ Root(r)[5] = RootIn(f.parents, r)
    OBVIOUS
  <1>5. \A l, e : e \in Of(l) <=> \E r \in f.neighbors[l] : e = Tuple(l, r)
    OBVIOUS
  <1> HIDE DEF Tuple, Root, Of, E, C
  <1>6. \A e : e \in E <=> \E l \in DOMAIN f.neighbors : e \in Of(l)
    BY <1>1
  <1>7. (\E e \in E : x = e[4]) <=> IsEdge(x, f.neighbors)
    <2>1. ASSUME NEW e \in E, x = e[4] PROVE IsEdge(x, f.neighbors)
      <3>1. PICK l \in DOMAIN f.neighbors : e \in Of(l)
        BY <1>6
      <3>2. PICK r \in f.neighbors[l] : e = Tuple(l, r)
        BY <1>5, <3>1
      <3> QED
        BY <1>3, <2>1, <3>2 DEF IsEdge
    <2>2. ASSUME NEW l \in DOMAIN f.neighbors, NEW r \in f.neighbors[l], x = {l, r}
          PROVE  \E e \in E : x = e[4]
      <3>1. Tuple(l, r) \in E
        BY <1>5, <1>6
      <3> QED
        BY <1>3, <2>2, <3>1
    <2> QED
      BY <2>1, <2>2 DEF IsEdge
  <1>8. (\E e \in C : x = <<e[4], e[5]>>) <=> IsRoot(x, f.parents)
    BY <1>2, <1>4 DEF IsRoot
  <1> QED
    BY <1>7, <1>8 DEF E, C

LEMMA SelectSuffices == ASSUME Base, SelectInv PROVE AttemptsPair
  <1>1. \A f \in disk.coloring : ValidColoring(f)
    BY DEF SelectInv, Filed
  <1>2. ASSUME session.capture, session.index = function, NEW c \in Classes
        PROVE  LET own(phase) == {f \in disk.coloring :
                                    f.capture = function /\ f.class = c /\ f.phase = phase}
                   running    == IF call.kind = "select" /\ call.class = c THEN 1 ELSE 0
                   edges(f)   == {e[4] : e \in FlattenColoring({f}).edges}
                   roots(f)   == {<<e[4], e[5]>> : e \in FlattenColoring({f}).coalesces}
               IN  /\ {f.attempt : f \in own("before")} = 1..facts.selections[c]
                   /\ {f.attempt : f \in own("after")} = 1..(facts.selections[c] - running)
                   /\ \A b \in own("before"), a \in own("after") : a.attempt = b.attempt =>
                        /\ edges(a) = edges(b) /\ roots(a) = roots(b)
                        /\ a.parents = b.parents
                   /\ \A file \in Range(disk.stage), f \in own("before") : SameCapture(file, f)
    <2> DEFINE own(phase) == {f \in disk.coloring :
                                f.capture = function /\ f.class = c /\ f.phase = phase}
    <2>1. epoch # "frontend" /\ FilesComplete
      <3>1. function \in Nat
        BY FunctionsAssumption DEF Base, Shaped
      <3> QED
        BY <1>2, <3>1 DEF SelectInv, Base, Timeline
    <2>2. facts.selections[c] \in Nat /\ \A f \in disk.coloring : Filed(f)
      BY DEF SelectInv, Counted
    <2>3. {f.attempt : f \in own("before")} = 1..facts.selections[c]
      <3>1. \A f \in own("before") : f.attempt \in 1..facts.selections[c]
        BY <2>2 DEF Filed
      <3>2. \A k \in 1..facts.selections[c] : \E f \in own("before") : f.attempt = k
        BY <2>1, <2>2 DEF FilesComplete, HasFile, Filed
      <3> QED
        BY <3>1, <3>2
    <2>4. {f.attempt : f \in own("after")} = 1..(facts.selections[c] - Running(c))
      <3>1. \A f \in own("after") : f.attempt \in 1..(facts.selections[c] - Running(c))
        BY <2>2 DEF Filed
      <3>2. \A k \in 1..(facts.selections[c] - Running(c)) : \E f \in own("after") : f.attempt = k
        BY <2>1, <2>2 DEF FilesComplete, HasFile, Filed
      <3> QED
        BY <3>1, <3>2
    <2>5. ASSUME NEW b \in own("before"), NEW a \in own("after"), a.attempt = b.attempt
          PROVE  /\ {e[4] : e \in FlattenColoring({a}).edges} = {e[4] : e \in FlattenColoring({b}).edges}
                 /\ {<<e[4], e[5]>> : e \in FlattenColoring({a}).coalesces} =
                      {<<e[4], e[5]>> : e \in FlattenColoring({b}).coalesces}
                 /\ a.parents = b.parents
      <3>1. a.neighbors = b.neighbors /\ a.parents = b.parents
        BY <2>5 DEF SelectInv, FilesPair, OfGraph
      <3>2. \A x : x \in {e[4] : e \in FlattenColoring({a}).edges} <=>
                   x \in {e[4] : e \in FlattenColoring({b}).edges}
        BY <3>1, EdgesOfOne
      <3>3. \A x : x \in {<<e[4], e[5]>> : e \in FlattenColoring({a}).coalesces} <=>
                   x \in {<<e[4], e[5]>> : e \in FlattenColoring({b}).coalesces}
        BY <3>1, EdgesOfOne
      <3> QED
        BY <3>1, <3>2, <3>3
    <2>6. \A file \in Range(disk.stage), f \in own("before") : SameCapture(file, f)
      BY DEF SelectInv, StagesCurrent, Range, SameCapture
    <2> QED
      BY <2>3, <2>4, <2>5, <2>6 DEF Running
  <1> QED
    BY <1>1, <1>2 DEF AttemptsPair

(* Every selection of a captured function has a file before and one after, *)
(* under its own number, with one graph in both.                           *)
THEOREM SelectionsPair == CaptureSpec => []AttemptsPair
  <1> DEFINE I == Base /\ SelectInv
  <1>1. CaptureInit => I
    BY BaseInit, SelectInit
  <1>2. I /\ [CaptureNext]_captureVars => I'
    BY BaseStep, SelectStep
  <1>3. I => AttemptsPair
    BY SelectSuffices
  <1> QED
    BY <1>1, <1>2, <1>3, PTL DEF CaptureSpec

(***************************************************************************)
(* Registers.  The events of a captured function account for the counters, *)
(* if its front end did not run inside the capture of another function.    *)
(***************************************************************************)
Event == [sequence : Nat, epoch : EpochNames, class : Classes, numbers : SUBSET Int,
          object : BOOLEAN]

Accounts(events, cnt) ==
  /\ events \in Seq(Event)
  /\ \A c \in Classes : \A x :
       x \in FirstVirtualRegister..(cnt[c] - 1) <=>
         \E n \in 1..Len(events) : events[n].class = c /\ x \in events[n].numbers
  /\ \A j, k \in 1..Len(events) : j < k /\ events[j].class = events[k].class =>
       \A x \in events[j].numbers, y \in events[k].numbers : x < y

Phases == {"initial", "optimized", "scheduled", "allocator", "register_coloring"} \cup EpochNames

BoundaryRecord == [phase : Phases, counts : [Classes -> Nat], ranges : [Classes -> SUBSET Int]]

InRange(e, b) ==
  /\ e.numbers \subseteq b.ranges[e.class]
  /\ IF b.phase = "allocator" THEN e.epoch = "register_allocation" ELSE Stage(e.epoch) = b.phase

(* An event lies in a boundary, or in the one to come.                     *)
Placed(e) ==
  \/ \E n \in 1..Len(session.boundaries) : InRange(e, session.boundaries[n])
  \/ /\ e.numbers \subseteq session.previous[e.class]..(counts[e.class] - 1)
     /\ e.epoch = session.epoch

NameOf(n) == FunctionIdentity(Objects, FunctionAt[n]).name

Apart == function = 1 \/ target.index # 0 \/ target.name # ""

Fits(registers) == \A r \in registers : r[2] < counts[r[1]]

Allocating ==
  /\ \A c \in Classes : counts[c] >= FirstVirtualRegister
  /\ session.objectEvent =
       IF call.kind = "object" /\ session.capture
       THEN <<[sequence |-> 0, epoch |-> session.epoch, class |-> call.class, numbers |-> {},
               object |-> TRUE]>>
       ELSE <<>>

CodeFits ==
  /\ \A n \in DOMAIN code : Fits(code[n].registers)
  /\ call.kind = "clone" => Fits(call.of.registers)
  /\ call.kind = "filled" /\ call.for.kind = "clone" => Fits(call.for.of.registers)

Wanted == target.index \in {0, session.index} /\ target.name \in {"", NameOf(session.index)}

Buffered ==
  /\ Accounts(session.frontend, counts)
  /\ \A n \in 1..Len(session.frontend) : session.frontend[n].epoch = "initial_lowering"

Tracked ==
  /\ Accounts(session.registers, counts)
  /\ \A n \in 1..Len(session.registers) :
       session.registers[n].sequence = n - 1 /\ Placed(session.registers[n])
  /\ session.boundaries \in Seq(BoundaryRecord) /\ session.previous \in [Classes -> Nat]
  /\ \A c \in Classes : session.previous[c] <= counts[c]

StagesEmpty == epoch = "frontend" \/ ~session.capture => disk.stage = <<>>

StagesAccounted == Apart => \A n \in DOMAIN disk.stage : RegistersAreAccounted(disk.stage[n])

RegisterInv ==
  /\ Allocating /\ CodeFits /\ StagesEmpty /\ StagesAccounted
  /\ session.capture => Wanted
  /\ ~session.capture /\ epoch = "frontend" => Buffered
  /\ session.capture /\ epoch # "frontend" /\ Apart => Tracked

LEMMA EventAdded ==
    ASSUME NEW cnt \in [Classes -> Nat], NEW c \in Classes, cnt[c] >= FirstVirtualRegister,
           NEW w \in Nat, NEW events, Accounts(events, cnt),
           NEW e \in Event, e.class = c, e.numbers = cnt[c]..(cnt[c] + w - 1),
           NEW more, more = Append(events, e), NEW next, next = [cnt EXCEPT ![c] = cnt[c] + w]
    PROVE  Accounts(more, next)
  <1> DEFINE N == Len(events)
  <1>1. events \in Seq(Event) /\ N \in Nat
    BY DEF Accounts
  <1>2. /\ more \in Seq(Event) /\ Len(more) = N + 1 /\ more[N + 1] = e
        /\ \A n \in 1..N : more[n] = events[n]
    BY <1>1
  <1>3. next[c] = cnt[c] + w /\ \A d \in Classes : d # c => next[d] = cnt[d]
    OBVIOUS
  <1>4. FirstVirtualRegister \in Nat
    BY FirstVirtualAssumption
  <1> HIDE DEF N
  <1>5. ASSUME NEW n \in 1..(N + 1) PROVE n \in 1..N \/ n = N + 1
    BY <1>1
  <1>6. ASSUME NEW n \in 1..N, events[n].class = c, NEW x \in events[n].numbers
        PROVE  x \in FirstVirtualRegister..(cnt[c] - 1)
    BY <1>6 DEF Accounts, N
  <1>7. ASSUME NEW d \in Classes, NEW x
        PROVE  x \in FirstVirtualRegister..(next[d] - 1) <=>
                 \E n \in 1..(N + 1) : more[n].class = d /\ x \in more[n].numbers
    <2>1. x \in FirstVirtualRegister..(cnt[d] - 1) <=>
            \E n \in 1..N : events[n].class = d /\ x \in events[n].numbers
      BY DEF Accounts, N
    <2>2. (\E n \in 1..(N + 1) : more[n].class = d /\ x \in more[n].numbers) <=>
            \/ \E n \in 1..N : events[n].class = d /\ x \in events[n].numbers
            \/ d = c /\ x \in e.numbers
      BY <1>1, <1>2, <1>5
    <2>3. CASE d = c
      <3>1. x \in FirstVirtualRegister..(next[d] - 1) <=>
              x \in FirstVirtualRegister..(cnt[d] - 1) \/ x \in e.numbers
        BY <1>3, <1>4, <2>3
      <3> QED
        BY <2>1, <2>2, <2>3, <3>1
    <2>4. CASE d # c
      BY <1>3, <2>1, <2>2, <2>4
    <2> QED
      BY <2>3, <2>4
  <1>8. ASSUME NEW j \in 1..(N + 1), NEW k \in 1..(N + 1), j < k, more[j].class = more[k].class,
               NEW x \in more[j].numbers, NEW y \in more[k].numbers
        PROVE  x < y
    <2>1. j \in 1..N
      BY <1>1, <1>8
    <2>2. CASE k \in 1..N
      BY <1>2, <1>8, <2>1, <2>2 DEF Accounts, N
    <2>3. CASE k = N + 1
      <3>1. events[j].class = c /\ x \in events[j].numbers /\ y \in cnt[c]..(cnt[c] + w - 1)
        BY <1>2, <1>8, <2>1, <2>3
      <3>2. x \in FirstVirtualRegister..(cnt[c] - 1)
        BY <1>6, <2>1, <3>1
      <3> QED
        BY <1>4, <3>1, <3>2
    <2> QED
      BY <1>5, <2>2, <2>3
  <1> QED
    BY <1>2, <1>7, <1>8 DEF Accounts

LEMMA EventsRenumbered ==
    ASSUME NEW cnt, NEW events, Accounts(events, cnt)
    PROVE  LET again == [n \in DOMAIN events |-> [events[n] EXCEPT !.sequence = n - 1]]
           IN  /\ Accounts(again, cnt) /\ Len(again) = Len(events)
               /\ \A n \in 1..Len(events) : /\ again[n].sequence = n - 1
                                            /\ again[n].epoch = events[n].epoch
                                            /\ again[n].class = events[n].class
                                            /\ again[n].numbers = events[n].numbers
  <1> DEFINE again == [n \in DOMAIN events |-> [events[n] EXCEPT !.sequence = n - 1]]
  <1>1. events \in Seq(Event) /\ Len(events) \in Nat /\ DOMAIN events = 1..Len(events)
    BY DEF Accounts
  <1>2. ASSUME NEW n \in 1..Len(events)
        PROVE  /\ again[n] \in Event /\ again[n].sequence = n - 1
               /\ again[n].epoch = events[n].epoch /\ again[n].class = events[n].class
               /\ again[n].numbers = events[n].numbers
    <2>1. events[n] \in Event /\ n - 1 \in Nat
      BY <1>1
    <2>2. again[n] = [events[n] EXCEPT !.sequence = n - 1]
      BY <1>1
    <2> QED
      BY <2>1, <2>2 DEF Event
  <1>3. DOMAIN again = 1..Len(events)
    BY <1>1
  <1>4. again \in Seq(Event) /\ Len(again) = Len(events)
    <2>1. again = [n \in 1..Len(events) |-> again[n]]
      BY <1>3
    <2> HIDE DEF again
    <2> QED
      BY <1>1, <1>2, <1>3, <2>1
  <1> HIDE DEF again
  <1>5. \A n \in 1..Len(events) : /\ again[n].class = events[n].class
                                  /\ again[n].numbers = events[n].numbers
    BY <1>2
  <1>6. \A d \in Classes : \A x :
          (\E n \in 1..Len(again) : again[n].class = d /\ x \in again[n].numbers) <=>
          (\E n \in 1..Len(events) : events[n].class = d /\ x \in events[n].numbers)
    BY <1>4, <1>5
  <1>7. \A j, k \in 1..Len(again) : j < k /\ again[j].class = again[k].class =>
          \A x \in again[j].numbers, y \in again[k].numbers : x < y
    BY <1>4, <1>5 DEF Accounts
  <1>8. Accounts(again, cnt)
    <2>1. \A d \in Classes : \A x :
            x \in FirstVirtualRegister..(cnt[d] - 1) <=>
              \E n \in 1..Len(again) : again[n].class = d /\ x \in again[n].numbers
      BY <1>6 DEF Accounts
    <2> QED
      BY <1>4, <1>7, <2>1 DEF Accounts
  <1> QED
    BY <1>2, <1>4, <1>8 DEF again

LEMMA NothingAccounts == Accounts(<<>>, NoCounts)
  <1>1. \A c \in Classes : NoCounts[c] = FirstVirtualRegister
    BY DEF NoCounts
  <1>2. <<>> \in Seq(Event) /\ Len(<<>>) = 0
    OBVIOUS
  <1>3. \A x : x \notin FirstVirtualRegister..(FirstVirtualRegister - 1)
    BY FirstVirtualAssumption
  <1> QED
    BY <1>1, <1>2, <1>3 DEF Accounts

(* A file made from such events is accounted for.                          *)
LEMMA FileIsAccounted ==
    ASSUME NEW file, file.counts \in [Classes -> Nat],
           Accounts(file.trace.registers, file.counts),
           \A n \in 1..Len(file.trace.registers) :
             /\ file.trace.registers[n].sequence = n - 1
             /\ \E m \in DOMAIN file.trace.boundaries :
                  InRange(file.trace.registers[n], file.trace.boundaries[m]),
           \A n \in DOMAIN file.code : \A r \in file.code[n].registers :
             r \in Classes \X Int /\ r[2] < file.counts[r[1]]
    PROVE  RegistersAreAccounted(file)
  <1> DEFINE events == file.trace.registers
  <1>1. events \in Seq(Event) /\ DOMAIN events = 1..Len(events)
    BY DEF Accounts
  <1>2. ASSUME NEW c \in Classes
        PROVE  LET own == {n \in DOMAIN events : events[n].class = c}
                   numbers(n) == events[n].numbers
               IN  /\ UNION {numbers(n) : n \in own} = FirstVirtualRegister..(file.counts[c] - 1)
                   /\ \A j, k \in own : j < k => \A x \in numbers(j), y \in numbers(k) : x < y
    <2> DEFINE own == {n \in DOMAIN events : events[n].class = c}
    <2>1. \A x : x \in UNION {events[n].numbers : n \in own} <=>
                   \E n \in 1..Len(events) : events[n].class = c /\ x \in events[n].numbers
      BY <1>1
    <2>2. \A x : x \in FirstVirtualRegister..(file.counts[c] - 1) <=>
                   \E n \in 1..Len(events) : events[n].class = c /\ x \in events[n].numbers
      BY DEF Accounts
    <2>3. UNION {events[n].numbers : n \in own} = FirstVirtualRegister..(file.counts[c] - 1)
      BY <2>1, <2>2
    <2>4. \A j, k \in own : j < k => \A x \in events[j].numbers, y \in events[k].numbers : x < y
      BY <1>1 DEF Accounts
    <2> QED
      BY <2>3, <2>4
  <1>3. ASSUME NEW n \in DOMAIN events
        PROVE  /\ events[n].sequence = n - 1
               /\ \E b \in Range(file.trace.boundaries) :
                    /\ events[n].numbers \subseteq b.ranges[events[n].class]
                    /\ IF b.phase = "allocator" THEN events[n].epoch = "register_allocation"
                       ELSE Stage(events[n].epoch) = b.phase
    BY <1>1 DEF InRange, Range
  <1>4. ASSUME NEW r \in RegistersOf(file.code), r[2] >= FirstVirtualRegister
        PROVE  Cardinality({o \in JoinRegisters(file.code, file.trace) : o[1] = r}) = 1
    <2>1. r \in Classes \X Int /\ r[2] < file.counts[r[1]]
      BY DEF RegistersOf
    <2>2. r[1] \in Classes /\ r[2] \in Int
      BY <2>1
    <2>3. r[2] \in FirstVirtualRegister..(file.counts[r[1]] - 1)
      <3>1. file.counts[r[1]] \in Nat /\ FirstVirtualRegister \in Nat
        BY <2>2, FirstVirtualAssumption
      <3> QED
        BY <1>4, <2>1, <2>2, <3>1
    <2>4. PICK n \in 1..Len(events) : events[n].class = r[1] /\ r[2] \in events[n].numbers
      BY <2>2, <2>3 DEF Accounts
    <2>5. ASSUME NEW m \in 1..Len(events), events[m].class = r[1], r[2] \in events[m].numbers
          PROVE  m = n
      <3>3. \A j, k \in 1..Len(events) : j < k /\ events[j].class = events[k].class =>
              \A x \in events[j].numbers, y \in events[k].numbers : x < y
        BY DEF Accounts
      <3>4. ~(r[2] < r[2])
        BY <2>2
      <3>1. ~(m < n) /\ ~(n < m)
        <4>1. ~(m < n)
          BY <2>4, <2>5, <3>3, <3>4
        <4>2. ~(n < m)
          BY <2>4, <2>5, <3>3, <3>4
        <4> QED
          BY <4>1, <4>2
      <3>2. m \in Int /\ n \in Int
        BY <1>1
      <3> QED
        BY <3>1, <3>2, SMTT(30)
    <2> DEFINE o == <<r, events[n].sequence>>
    <2>6. o \in JoinRegisters(file.code, file.trace)
      <3>1. events[n] \in Range(events)
        BY <1>1 DEF Range
      <3> QED
        BY <2>4, <3>1 DEF JoinRegisters
    <2>7. ASSUME NEW q \in JoinRegisters(file.code, file.trace), q[1] = r
          PROVE  q = o
      <3>1. PICK e \in Range(events) :
              q \in {<<p, e.sequence>> : p \in {s \in RegistersOf(file.code) : s[1] = e.class /\ s[2] \in e.numbers}}
        BY DEF JoinRegisters
      <3>2. q = <<r, e.sequence>> /\ r[1] = e.class /\ r[2] \in e.numbers
        BY <2>7, <3>1
      <3>3. PICK m \in 1..Len(events) : e = events[m]
        BY <1>1 DEF Range
      <3> QED
        BY <2>5, <3>2, <3>3
    <2> HIDE DEF o
    <2>8. {q \in JoinRegisters(file.code, file.trace) : q[1] = r} = {o}
      BY <2>6, <2>7 DEF o
    <2> QED
      BY <2>8, FS_Singleton
  <1> QED
    BY <1>2, <1>3, <1>4 DEF RegistersAreAccounted

(* Steps that give out no registers and keep the code.                     *)
LEMMA RegisterUntouched ==
    ASSUME RegisterInv, UNCHANGED <<function, epoch, target, counts, code>>,
           disk'.stage = disk.stage, session'.capture = session.capture,
           session'.index = session.index, session'.epoch = session.epoch,
           session'.registers = session.registers, session'.frontend = session.frontend,
           session'.objectEvent = session.objectEvent,
           session'.boundaries = session.boundaries, session'.previous = session.previous,
           call.kind \notin {"object", "clone", "filled"},
           call'.kind \notin {"object", "clone", "filled"}
    PROVE  RegisterInv'
  <1>1. Allocating' /\ CodeFits'
    BY DEF RegisterInv, Allocating, CodeFits, Fits
  <1>2. StagesEmpty' /\ (Apart' <=> Apart) /\ StagesAccounted'
    BY DEF RegisterInv, StagesEmpty, StagesAccounted, Apart
  <1>3. (Wanted => Wanted') /\ (Buffered => Buffered')
    BY DEF Wanted, Buffered
  <1>4. Tracked => Tracked'
    BY DEF Tracked, Placed
  <1> QED
    BY <1>1, <1>2, <1>3, <1>4 DEF RegisterInv

(* Steps inside a function while counters only grow: what is left to show. *)
LEMMA RegisterGrows ==
    ASSUME Base, RegisterInv, CodeActions, Allocating', CodeFits',
           ~session.capture /\ epoch = "frontend" => Buffered',
           session.capture /\ epoch # "frontend" /\ Tracked => Tracked'
    PROVE  RegisterInv'
  <1>1. Inside(CodeFields) /\ disk' = disk
    BY CodeInside, CodeLeaves DEF CodeFootprint
  <1>2. /\ UNCHANGED <<function, epoch, target>> /\ session'.capture = session.capture
        /\ session'.index = session.index
    BY <1>1 DEF Inside, Kept, Fields, NewSession, CodeFields
  <1>3. StagesEmpty' /\ (Apart' <=> Apart) /\ StagesAccounted' /\ (Wanted => Wanted')
    BY <1>1, <1>2 DEF RegisterInv, StagesEmpty, StagesAccounted, Apart, Wanted
  <1> QED
    BY <1>2, <1>3 DEF RegisterInv

(* An event more, for numbers just given out.                              *)
LEMMA TrackedMore ==
    ASSUME Base, Allocating, Tracked, NEW c \in Classes, NEW w \in Nat, NEW e \in Event,
           e.class = c, e.numbers = counts[c]..(counts[c] + w - 1), e.epoch = session.epoch,
           e.sequence = Len(session.registers),
           counts' = [counts EXCEPT ![c] = @ + w],
           session'.registers = Append(session.registers, e),
           session'.boundaries = session.boundaries, session'.previous = session.previous,
           session'.epoch = session.epoch
    PROVE  Tracked'
  <1>1. counts \in [Classes -> Nat] /\ counts[c] >= FirstVirtualRegister
        /\ session.previous \in [Classes -> Nat]
        /\ \A d \in Classes : session.previous[d] <= counts[d]
    BY DEF Base, Shaped, Allocating, Tracked
  <1>2. Accounts(session.registers, counts)
    BY DEF Tracked
  <1>3. counts' = [counts EXCEPT ![c] = counts[c] + w]
    OBVIOUS
  <1>4. Accounts(session'.registers, counts')
    <2>1. PICK more, next : more = session'.registers /\ next = counts'
      OBVIOUS
    <2>2. more = Append(session.registers, e) /\ next = [counts EXCEPT ![c] = counts[c] + w]
      BY <2>1, <1>3
    <2>3. Accounts(more, next)
      BY <1>1, <1>2, <2>2, EventAdded
    <2> QED
      BY <2>1, <2>3
  <1> DEFINE N == Len(session.registers)
  <1>5. /\ session.registers \in Seq(Event) /\ N \in Nat
        /\ Len(session'.registers) = N + 1 /\ session'.registers[N + 1] = e
        /\ \A n \in 1..N : session'.registers[n] = session.registers[n]
    BY <1>2 DEF Accounts
  <1>6. \A d \in Classes : counts'[d] \in Nat /\ counts[d] <= counts'[d]
    BY <1>1, <1>3
  <1>7. ASSUME NEW x \in Event, \/ \E n \in 1..Len(session.boundaries) : InRange(x, session.boundaries[n])
                                \/ /\ x.numbers \subseteq session.previous[x.class]..(counts[x.class] - 1)
                                   /\ x.epoch = session.epoch
        PROVE  \/ \E n \in 1..Len(session.boundaries) : InRange(x, session.boundaries[n])
               \/ /\ x.numbers \subseteq session.previous[x.class]..(counts'[x.class] - 1)
                  /\ x.epoch = session.epoch
    <2>1. x.class \in Classes
      BY DEF Event
    <2>2. session.previous[x.class]..(counts[x.class] - 1)
            \subseteq session.previous[x.class]..(counts'[x.class] - 1)
      BY <1>1, <1>6, <2>1
    <2> QED
      BY <1>7, <2>2
  <1>8. /\ e.numbers \subseteq session.previous[e.class]..(counts'[e.class] - 1)
        /\ e.epoch = session.epoch
    BY <1>1, <1>3
  <1>9. ASSUME NEW n \in 1..Len(session'.registers)
        PROVE  /\ session'.registers[n].sequence = n - 1
               /\ \/ \E m \in 1..Len(session.boundaries) : InRange(session'.registers[n], session.boundaries[m])
                  \/ /\ session'.registers[n].numbers \subseteq
                          session.previous[session'.registers[n].class]..(counts'[session'.registers[n].class] - 1)
                     /\ session'.registers[n].epoch = session.epoch
    <2>1. n \in 1..N \/ n = N + 1
      BY <1>5
    <2>2. CASE n \in 1..N
      <3>1. session.registers[n].sequence = n - 1 /\ Placed(session.registers[n])
        BY <2>2 DEF Tracked
      <3>2. session.registers[n] \in Event
        BY <1>5, <2>2
      <3>3. \/ \E m \in 1..Len(session.boundaries) : InRange(session.registers[n], session.boundaries[m])
            \/ /\ session.registers[n].numbers \subseteq
                    session.previous[session.registers[n].class]..(counts'[session.registers[n].class] - 1)
               /\ session.registers[n].epoch = session.epoch
        BY <1>7, <3>1, <3>2 DEF Placed
      <3>4. session'.registers[n] = session.registers[n]
        BY <1>5, <2>2
      <3> QED
        BY <3>1, <3>3, <3>4
    <2>3. CASE n = N + 1
      <3>1. session'.registers[n] = e /\ N = n - 1
        BY <1>5, <2>3
      <3> QED
        BY <1>8, <3>1 DEF N
    <2> QED
      BY <2>1, <2>2, <2>3
  <1> HIDE DEF N
  <1>10. /\ session'.boundaries \in Seq(BoundaryRecord) /\ session'.previous \in [Classes -> Nat]
         /\ \A d \in Classes : session'.previous[d] <= counts'[d]
    <2>1. \A d \in Classes : session.previous[d] \in Nat /\ counts[d] \in Nat
      BY <1>1
    <2> QED
      BY <1>1, <1>6, <2>1 DEF Tracked
  <1>11. \A n \in 1..Len(session'.registers) :
           session'.registers[n].sequence = n - 1 /\ Placed(session.registers[n])'
    BY <1>9 DEF Placed
  <1> QED
    BY <1>4, <1>10, <1>11 DEF Tracked

LEMMA CodeFitsGrowing ==
    ASSUME Base, CodeFits, code' = code, NEW c \in Classes, NEW w \in Nat,
           counts' = [counts EXCEPT ![c] = @ + w],
           call'.kind \notin {"clone", "filled"}
    PROVE  CodeFits'
  <1>1. \A d \in Classes : counts[d] \in Nat /\ counts[d] <= counts'[d] /\ counts'[d] \in Nat
    BY DEF Base, Shaped
  <1>2. ASSUME NEW n \in DOMAIN code, NEW r \in code[n].registers
        PROVE  r[2] < counts'[r[1]]
    <2>1. code[n] \in Instruction
      BY DEF Base, Shaped
    <2>2. r \in Classes \X Int
      BY <2>1 DEF Instruction
    <2>3. r[1] \in Classes /\ r[2] \in Int /\ r[2] < counts[r[1]]
      BY <2>2 DEF CodeFits, Fits
    <2> QED
      BY <1>1, <2>3
  <1> QED
    BY <1>2 DEF CodeFits, Fits

LEMMA RegisterDirect ==
    ASSUME Base, RegisterInv, NEW c \in Classes, DirectRegister(c)
    PROVE  RegisterInv'
  <1>1. /\ call.kind = "none" /\ call' = call /\ code' = code /\ epoch' = epoch
        /\ counts' = [counts EXCEPT ![c] = @ + 1]
        /\ session' = OnDirectRegister(session, c, counts[c])
    BY DEF DirectRegister, Idle, Base, Shaped
  <1>2. counts \in [Classes -> Nat] /\ counts[c] >= FirstVirtualRegister
    BY DEF Base, Shaped, RegisterInv, Allocating
  <1> DEFINE event == [sequence |-> 0, epoch |-> session.epoch, class |-> c,
                       numbers |-> {counts[c]}, object |-> FALSE]
             logged == [event EXCEPT !.sequence = Len(session.registers)]
  <1>3. CodeActions
    BY DEF CodeActions
  <1>4. session.epoch \in EpochNames
    BY DEF Base, Shaped, Timeline, EpochNames
  <1>5. {counts[c]} = counts[c]..(counts[c] + 1 - 1)
    BY <1>2
  <1>6. Kept(session, session', {"registers", "frontend"})
    BY ShapedDirectRegister DEF Base
  <1>7. /\ session'.objectEvent = session.objectEvent /\ session'.capture = session.capture
        /\ session'.boundaries = session.boundaries /\ session'.previous = session.previous
        /\ session'.epoch = session.epoch
    BY <1>6 DEF Kept, Fields, NewSession
  <1>8. CodeFits'
    BY <1>1, CodeFitsGrowing DEF RegisterInv
  <1>9. Allocating'
    BY <1>1, <1>2, <1>7, FirstVirtualAssumption DEF RegisterInv, Allocating
  <1>10. ASSUME ~session.capture, epoch = "frontend" PROVE Buffered'
    <2>1. session'.frontend = Append(session.frontend, event)
      BY <1>1, <1>10 DEF OnDirectRegister, Base, Shaped, IsSession, Fields, NewSession
    <2>2. session.epoch = "initial_lowering"
      BY <1>10 DEF Base, Timeline
    <2>3. /\ event \in Event /\ event.class = c /\ event.epoch = "initial_lowering"
          /\ event.numbers = counts[c]..(counts[c] + 1 - 1)
      BY <1>2, <1>4, <1>5, <2>2 DEF Event
    <2> HIDE DEF event
    <2>4. Accounts(session.frontend, counts) /\ session.frontend \in Seq(Event)
          /\ \A n \in 1..Len(session.frontend) : session.frontend[n].epoch = "initial_lowering"
      BY <1>10 DEF RegisterInv, Buffered, Accounts
    <2>5. counts' = [counts EXCEPT ![c] = counts[c] + 1]
      BY <1>1
    <2>6. Accounts(session'.frontend, counts')
      BY <1>2, <2>1, <2>3, <2>4, <2>5, EventAdded
    <2>7. \A n \in 1..Len(session'.frontend) : session'.frontend[n].epoch = "initial_lowering"
      BY <2>1, <2>3, <2>4
    <2> QED
      BY <2>6, <2>7 DEF Buffered
  <1>11. ASSUME session.capture, epoch # "frontend", Tracked PROVE Tracked'
    <2>1. session'.registers = Append(session.registers, logged)
      BY <1>1, <1>11 DEF OnDirectRegister, Log, Base, Shaped, IsSession, Fields, NewSession
    <2>2. Len(session.registers) \in Nat
      BY <1>11 DEF Tracked, Accounts
    <2>3. /\ logged \in Event /\ logged.class = c /\ logged.epoch = session.epoch
          /\ logged.numbers = counts[c]..(counts[c] + 1 - 1)
          /\ logged.sequence = Len(session.registers)
      <3>1. {counts[c]} \in SUBSET Int
        BY <1>2
      <3> QED
        BY <1>4, <1>5, <2>2, <3>1 DEF Event
    <2> HIDE DEF event, logged
    <2> QED
      BY <1>1, <1>7, <1>11, <2>1, <2>3, TrackedMore DEF RegisterInv
  <1> QED
    BY <1>3, <1>8, <1>9, <1>10, <1>11, RegisterGrows

LEMMA RegisterObjectEnters ==
    ASSUME Base, RegisterInv, NEW c \in Classes, NEW width \in 1..2,
           EnterObjectRegister(c, width)
    PROVE  RegisterInv'
  <1>1. /\ call.kind = "none" /\ call' = [kind |-> "object", class |-> c, width |-> width]
        /\ UNCHANGED <<code, epoch, counts>>
        /\ session' = OnObjectRegister(session, c)
    BY DEF EnterObjectRegister, Idle
  <1>2. CodeActions
    BY DEF CodeActions
  <1>3. Kept(session, session', {"objectEvent"})
    BY ShapedEnterObjectRegister DEF Base
  <1>4. /\ session'.capture = session.capture /\ session'.registers = session.registers
        /\ session'.frontend = session.frontend
        /\ session'.boundaries = session.boundaries /\ session'.previous = session.previous
        /\ session'.epoch = session.epoch
    BY <1>3 DEF Kept, Fields, NewSession
  <1>5. Allocating'
    <2>1. CASE session.capture
      <3>1. session'.objectEvent = <<[sequence |-> 0, epoch |-> session.epoch, class |-> c,
                                      numbers |-> {}, object |-> TRUE]>>
        BY <1>1, <2>1 DEF OnObjectRegister, Base, Shaped, IsSession, Fields, NewSession
      <3> QED
        BY <1>1, <1>4, <2>1, <3>1 DEF RegisterInv, Allocating
    <2>2. CASE ~session.capture
      BY <1>1, <1>4, <2>2 DEF OnObjectRegister, RegisterInv, Allocating
    <2> QED
      BY <2>1, <2>2
  <1>6. CodeFits'
    BY <1>1 DEF RegisterInv, CodeFits, Fits
  <1>7. (Buffered => Buffered') /\ (Tracked => Tracked')
    BY <1>1, <1>4 DEF Buffered, Tracked, Placed
  <1> QED
    BY <1>2, <1>5, <1>6, <1>7, RegisterGrows DEF RegisterInv

LEMMA RegisterObjectReturns ==
    ASSUME Base, RegisterInv, ReturnObjectRegister
    PROVE  RegisterInv'
  <1> DEFINE c == call.class
             w == call.width
             event == [sequence |-> 0, epoch |-> session.epoch, class |-> c, numbers |-> {},
                       object |-> TRUE]
             numbers == counts[c]..(counts'[c] - 1)
             logged == [[event EXCEPT !.numbers = numbers] EXCEPT !.sequence = Len(session.registers)]
  <1>1. /\ call.kind = "object" /\ call' = Idle /\ code' = code /\ epoch' = epoch
        /\ counts' = [counts EXCEPT ![c] = @ + w]
        /\ session' = OnObjectRegisterReturn(session, numbers)
    BY DEF ReturnObjectRegister
  <1>2. c \in Classes /\ w \in Nat
    BY <1>1, OperationKinds DEF Base, Shaped
  <1>3. counts \in [Classes -> Nat] /\ counts[c] >= FirstVirtualRegister
    BY <1>2 DEF Base, Shaped, RegisterInv, Allocating
  <1>4. numbers = counts[c]..(counts[c] + w - 1)
    BY <1>1, <1>2, <1>3
  <1>5. session.epoch \in EpochNames /\ epoch # "frontend"
    BY <1>1 DEF Base, Shaped, Timeline, EpochNames, EpochsOf
  <1>6. CodeActions
    BY DEF CodeActions
  <1>7. Kept(session, session', {"registers", "objectEvent"})
    BY ShapedReturnObjectRegister DEF Base
  <1>8. /\ session'.capture = session.capture
        /\ session'.boundaries = session.boundaries /\ session'.previous = session.previous
        /\ session'.epoch = session.epoch
    BY <1>7 DEF Kept, Fields, NewSession
  <1>9. session.objectEvent = IF session.capture THEN <<event>> ELSE <<>>
    BY <1>1 DEF RegisterInv, Allocating
  <1>10. CodeFits'
    BY <1>1, <1>2, CodeFitsGrowing DEF RegisterInv, Idle
  <1>11. session'.objectEvent = <<>>
    BY <1>1, <1>9 DEF OnObjectRegisterReturn, Base, Shaped, IsSession, Fields, NewSession
  <1>12. Allocating'
    BY <1>1, <1>2, <1>3, <1>11, FirstVirtualAssumption DEF RegisterInv, Allocating, Idle
  <1>13. ASSUME session.capture, Tracked PROVE Tracked'
    <2>1. session'.registers = Append(session.registers, logged)
      BY <1>1, <1>9, <1>13 DEF OnObjectRegisterReturn, Log, Base, Shaped, IsSession, Fields, NewSession
    <2>2. Len(session.registers) \in Nat
      BY <1>13 DEF Tracked, Accounts
    <2>3. /\ logged \in Event /\ logged.class = c /\ logged.epoch = session.epoch
          /\ logged.numbers = counts[c]..(counts[c] + w - 1)
          /\ logged.sequence = Len(session.registers)
      <3>1. numbers \in SUBSET Int
        BY <1>2, <1>3, <1>4
      <3> HIDE DEF numbers
      <3> QED
        BY <1>2, <1>4, <1>5, <2>2, <3>1 DEF Event
    <2> HIDE DEF logged, c, w, numbers
    <2> QED
      BY <1>1, <1>2, <1>8, <1>13, <2>1, <2>3, TrackedMore DEF RegisterInv
  <1> QED
    BY <1>5, <1>6, <1>10, <1>12, <1>13, RegisterGrows

(* Steps that build, clone and unlink instructions.                        *)
LEMMA RegisterBuilds ==
    ASSUME Base, RegisterInv, CodeActions, counts' = counts, CodeFits',
           call.kind # "object", call'.kind # "object",
           Kept(session, session', {"pendingCreations", "raised", "creations", "allocations",
                                    "pendingClones", "clones"})
    PROVE  RegisterInv'
  <1>1. Inside(CodeFields)
    BY CodeInside
  <1>2. epoch' = epoch
    BY <1>1 DEF Inside
  <1>3. /\ session'.capture = session.capture /\ session'.registers = session.registers
        /\ session'.frontend = session.frontend /\ session'.objectEvent = session.objectEvent
        /\ session'.boundaries = session.boundaries /\ session'.previous = session.previous
        /\ session'.epoch = session.epoch
    BY DEF Kept, Fields, NewSession
  <1>4. Allocating'
    BY <1>3 DEF RegisterInv, Allocating
  <1>5. (Buffered => Buffered') /\ (Tracked => Tracked')
    BY <1>2, <1>3 DEF Buffered, Tracked, Placed
  <1> QED
    BY <1>4, <1>5, RegisterGrows DEF RegisterInv

LEMMA RemovedAt ==
    ASSUME NEW list \in Seq(Instruction), NEW n \in DOMAIN list,
           NEW less, less = RemoveAt(list, n)
    PROVE  \A m \in DOMAIN less : \E k \in DOMAIN list : less[m] = list[k]
  <1>1. list \in Seq(Instruction) /\ DOMAIN list = 1..Len(list) /\ Len(list) \in Nat
        /\ n \in 1..Len(list)
    OBVIOUS
  <1>2. PICK k : k = n
    OBVIOUS
  <1>3. less = SubSeq(list, 1, k - 1) \o SubSeq(list, k + 1, Len(list))
    BY <1>2 DEF RemoveAt
  <1>4. /\ SubSeq(list, 1, k - 1) \in Seq(Instruction) /\ Len(SubSeq(list, 1, k - 1)) = k - 1
        /\ SubSeq(list, k + 1, Len(list)) \in Seq(Instruction)
        /\ Len(SubSeq(list, k + 1, Len(list))) = Len(list) - k
        /\ \A m \in 1..(k - 1) : SubSeq(list, 1, k - 1)[m] = list[m]
        /\ \A m \in 1..(Len(list) - k) : SubSeq(list, k + 1, Len(list))[m] = list[k + m]
    BY <1>1, <1>2
  <1>5. ASSUME NEW m \in DOMAIN less PROVE \E j \in DOMAIN list : less[m] = list[j]
    <2>1. m \in 1..(Len(list) - 1)
      <3>1. PICK A, B : A = SubSeq(list, 1, k - 1) /\ B = SubSeq(list, k + 1, Len(list))
        OBVIOUS
      <3>2. /\ A \in Seq(Instruction) /\ B \in Seq(Instruction)
            /\ Len(A) = k - 1 /\ Len(B) = Len(list) - k /\ less = A \o B
        BY <1>3, <1>4, <3>1
      <3>3. m \in 1..(Len(A) + Len(B))
        BY <3>2
      <3> QED
        BY <1>1, <1>2, <3>2, <3>3
    <2>2. CASE m \in 1..(k - 1)
      <3>1. PICK A, B : A = SubSeq(list, 1, k - 1) /\ B = SubSeq(list, k + 1, Len(list))
        OBVIOUS
      <3>2. /\ A \in Seq(Instruction) /\ B \in Seq(Instruction) /\ Len(A) = k - 1 /\ less = A \o B
            /\ A[m] = list[m]
        BY <1>3, <1>4, <2>2, <3>1
      <3>3. less[m] = list[m] /\ m \in 1..Len(list)
        BY <1>1, <1>2, <2>2, <3>2
      <3> QED
        BY <1>1, <3>3
    <2>3. CASE m \notin 1..(k - 1)
      <3>1. m - (k - 1) \in 1..(Len(list) - k) /\ k + (m - (k - 1)) = m + 1 /\ m + 1 \in DOMAIN list
        <4>1. m \in Int /\ k \in Int /\ Len(list) \in Int /\ m >= k /\ m <= Len(list) - 1
          BY <1>1, <1>2, <2>1, <2>3
        <4> QED
          BY <1>1, <1>2, <4>1
      <3>2. less[m] = SubSeq(list, k + 1, Len(list))[m - (k - 1)]
        <4>1. PICK A, B : A = SubSeq(list, 1, k - 1) /\ B = SubSeq(list, k + 1, Len(list))
          OBVIOUS
        <4>2. /\ A \in Seq(Instruction) /\ B \in Seq(Instruction)
              /\ Len(A) = k - 1 /\ Len(B) = Len(list) - k /\ less = A \o B
          BY <1>3, <1>4, <4>1
        <4>3. k - 1 \in Nat /\ m \in Int /\ m > k - 1 /\ m <= Len(A) + Len(B)
          BY <1>1, <1>2, <2>1, <2>3, <4>2
        <4>4. less[m] = B[m - Len(A)]
          BY <4>2, <4>3
        <4> QED
          BY <4>1, <4>2, <4>4
      <3>3. less[m] = list[m + 1]
        BY <1>4, <3>1, <3>2
      <3> QED
        BY <3>1, <3>3
    <2> QED
      BY <2>2, <2>3
  <1> QED
    BY <1>5

LEMMA RegisterCode ==
    ASSUME Base, RegisterInv, CodeActions
    PROVE  RegisterInv'
  <1> DEFINE F == {"pendingCreations", "raised", "creations", "allocations", "pendingClones", "clones"}
  <1>1. Shaped /\ CodeFits
    BY DEF Base, RegisterInv
  <1>2. CASE ReturnFromArena
    <2>1. Kept(session, session', F)
      BY <1>1, <1>2, ShapedReturnFromArena, FewerKept
    <2>2. counts' = counts /\ code' = code /\ call.kind # "object" /\ call'.kind # "object"
      BY <1>2 DEF ReturnFromArena, Idle
    <2>3. call'.kind # "clone" /\
          (call'.kind = "filled" /\ call'.for.kind = "clone" =>
             call.kind = "clone" /\ call'.for = call)
      BY <1>2 DEF ReturnFromArena, Idle
    <2>4. CodeFits'
      BY <1>1, <2>2, <2>3 DEF CodeFits, Fits
    <2> QED
      BY <2>1, <2>2, <2>4, RegisterBuilds
  <1>3. CASE ReturnClone
    <2>1. Kept(session, session', F)
      BY <1>1, <1>3, ShapedReturnClone, FewerKept
    <2>2. /\ counts' = counts /\ call' = Idle /\ call.kind = "filled" /\ call.for.kind = "clone"
          /\ code' = Append(code, [call.for.of EXCEPT !.address = call.address])
      BY <1>3 DEF ReturnClone
    <2>3. call.for.of \in Instruction /\ code \in Seq(Instruction)
      BY <1>1, <2>2, OperationKinds DEF Shaped, Wrappers, Clones
    <2>4. [call.for.of EXCEPT !.address = call.address].registers = call.for.of.registers
      BY <2>3 DEF Instruction
    <2>5. CodeFits'
      BY <1>1, <2>2, <2>3, <2>4 DEF CodeFits, Fits, Idle
    <2> QED
      BY <2>1, <2>2, <2>5, RegisterBuilds DEF Idle
  <1>4. ASSUME NEW opcode \in Opcodes, EnterWrapper(opcode) PROVE RegisterInv'
    <2>1. Kept(session, session', F)
      BY <1>1, <1>4, ShapedEnterWrapper, FewerKept
    <2>2. /\ counts' = counts /\ code' = code /\ call.kind # "object"
          /\ call'.kind = "wrapper"
      BY <1>4 DEF EnterWrapper, Idle
    <2>3. CodeFits'
      BY <1>1, <2>2 DEF CodeFits, Fits
    <2> QED
      BY <2>1, <2>2, <2>3, RegisterBuilds
  <1>5. ASSUME NEW registers \in BuiltRegisters, ReturnBuilder(registers) PROVE RegisterInv'
    <2>1. Kept(session, session', F)
      BY <1>1, <1>5, BuiltRegistersAreTyped, ShapedReturnBuilder, FewerKept
    <2>2. /\ counts' = counts /\ call' = Idle /\ call.kind = "filled"
          /\ code' = Append(code, [address |-> call.address, opcode |-> call.for.opcode,
                                   registers |-> registers])
      BY <1>5 DEF ReturnBuilder
    <2>3. code \in Seq(Instruction)
      BY <1>1 DEF Shaped
    <2>4. Fits(registers)
      BY <1>1 DEF BuiltRegisters, Fits, Shaped
    <2>5. CodeFits'
      BY <1>1, <2>2, <2>3, <2>4 DEF CodeFits, Fits, Idle
    <2> QED
      BY <2>1, <2>2, <2>5, RegisterBuilds DEF Idle
  <1>6. ASSUME NEW n \in DOMAIN code, EnterClone(n) PROVE RegisterInv'
    <2>1. Kept(session, session', F)
      BY <1>1, <1>6, ShapedEnterClone, FewerKept
    <2>2. /\ counts' = counts /\ code' = code /\ call.kind # "object"
          /\ call' = [kind |-> "clone", of |-> code[n]]
      BY <1>6 DEF EnterClone, Idle
    <2>3. CodeFits'
      BY <1>1, <2>2 DEF CodeFits, Fits
    <2> QED
      BY <2>1, <2>2, <2>3, RegisterBuilds
  <1>7. ASSUME NEW n \in DOMAIN code, Unlink(n) PROVE RegisterInv'
    <2>1. Kept(session, session', F)
      BY <1>1, <1>7, ShapedUnlink, SelfKept DEF Shaped
    <2>2. /\ counts' = counts /\ call.kind = "none" /\ call' = call /\ code' = RemoveAt(code, n)
      BY <1>7 DEF Unlink, Idle
    <2>3. \A m \in DOMAIN code' : \E k \in DOMAIN code : code'[m] = code[k]
      <3>1. code \in Seq(Instruction)
        BY <1>1 DEF Shaped
      <3> QED
        BY <2>2, <3>1, RemovedAt
    <2>4. CodeFits'
      BY <1>1, <2>2, <2>3 DEF CodeFits, Fits
    <2> QED
      BY <2>1, <2>2, <2>4, RegisterBuilds
  <1> QED
    BY <1>2, <1>3, <1>4, <1>5, <1>6, <1>7, RegisterDirect, RegisterObjectEnters,
       RegisterObjectReturns DEF CodeActions

LEMMA RegisterReset ==
    ASSUME Base, RegisterInv, ResetCounters
    PROVE  RegisterInv'
  <1>1. /\ epoch' = "frontend" /\ call.kind = "none" /\ call' = call /\ disk'.stage = <<>>
        /\ code' = <<>> /\ counts' = NoCounts /\ target' = target
        /\ session' = OnCounterReset(session)
    BY NoCallsOutside DEF ResetCounters, Base, Shaped
  <1>2. /\ session'.capture = session.capture /\ session'.index = session.index
        /\ session'.objectEvent = session.objectEvent /\ session'.epoch = session.epoch
    BY ShapedResetCounters DEF Base, Kept, Fields, NewSession
  <1>3. session'.frontend = <<>>
    BY <1>1 DEF OnCounterReset, Base, Shaped, IsSession, Fields, NewSession
  <1>4. Allocating'
    BY <1>1, <1>2, FirstVirtualAssumption DEF RegisterInv, Allocating, NoCounts
  <1>5. CodeFits' /\ StagesEmpty' /\ StagesAccounted'
    BY <1>1 DEF CodeFits, StagesEmpty, StagesAccounted
  <1>6. Wanted => Wanted'
    BY <1>1, <1>2 DEF Wanted
  <1>7. Buffered'
    BY <1>1, <1>3, NothingAccounts DEF Buffered
  <1> QED
    BY <1>1, <1>2, <1>4, <1>5, <1>6, <1>7 DEF RegisterInv

LEMMA RegisterEnters ==
    ASSUME Base, RegisterInv, EnterCodeGen
    PROVE  RegisterInv'
  <1>1. /\ epoch = "frontend" /\ epoch' = "initial_lowering" /\ call.kind = "none"
        /\ call' = call /\ disk' = disk
        /\ UNCHANGED <<function, target, counts, code>>
        /\ session' = BeginFunction(session, FunctionIdentity(Objects, FunctionAt[function]))
    BY NoCallsOutside DEF EnterCodeGen, Base
  <1>2. /\ session'.index = session.index + 1
        /\ session'.objectEvent = session.objectEvent /\ session'.epoch = "initial_lowering"
        /\ session'.capture <=> (/\ target.index \in {0, session.index + 1}
                                 /\ target.name \in {"", NameOf(function)})
        /\ session'.boundaries = <<>> /\ session'.previous = NoCounts
    BY <1>1 DEF BeginFunction, NewSession, NameOf
  <1>3. /\ function \in 1..Functions /\ session.index = function - 1
        /\ session.index + 1 = function /\ session'.index = function
    <2>1. function \in 0..Functions /\ function > 0 /\ session.index = function - 1
      BY <1>1 DEF Base, Shaped, Timeline
    <2>2. function \in 1..Functions
      BY <2>1, FunctionsAssumption
    <2>3. session.index + 1 = function
      BY <2>1, <2>2, FunctionsAssumption
    <2>4. session'.index = session.index + 1
      BY <1>2
    <2> QED
      BY <2>1, <2>2, <2>3, <2>4
  <1>4. Allocating' /\ CodeFits' /\ StagesEmpty' /\ StagesAccounted'
    <2>1. session.objectEvent = <<>>
      BY <1>1 DEF RegisterInv, Allocating
    <2>2. disk.stage = <<>>
      BY <1>1 DEF RegisterInv, StagesEmpty
    <2>3. Allocating'
      BY <1>1, <1>2, <2>1 DEF RegisterInv, Allocating
    <2>4. CodeFits'
      BY <1>1 DEF RegisterInv, CodeFits, Fits
    <2> QED
      BY <1>1, <2>2, <2>3, <2>4 DEF StagesEmpty, StagesAccounted
  <1>5. session'.capture => Wanted'
    BY <1>1, <1>2, <1>3 DEF Wanted
  <1>6. ASSUME session'.capture, Apart PROVE Tracked'
    <2>1. ~session.capture
      <3> SUFFICES ASSUME session.capture PROVE FALSE
        OBVIOUS
      <3>1. session.index > 0 /\ session.index \in 1..Functions /\ session.index # function
        <4>1. session.index > 0
          BY DEF Base, Timeline
        <4> QED
          BY <1>3, <4>1, FunctionsAssumption
      <3>2. target.index \in {0, session.index} /\ target.name \in {"", NameOf(session.index)}
        BY DEF RegisterInv, Wanted
      <3>3. target.index \in {0, session.index + 1} /\ target.name \in {"", NameOf(function)}
        BY <1>2, <1>6
      <3>4. target.index = 0
        BY <1>3, <3>1, <3>2, <3>3
      <3>5. target.name = ""
        <4>1. NameOf(function) = "" \/ NameOf(function) # NameOf(session.index)
          BY <1>3, <3>1, NamesAssumption, Zenon DEF NameOf
        <4> QED
          BY <3>2, <3>3, <4>1
      <3>6. function # 1
        BY <1>3, <3>1
      <3> QED
        BY <1>6, <3>4, <3>5, <3>6 DEF Apart
    <2>2. Buffered
      BY <1>1, <2>1 DEF RegisterInv
    <2> DEFINE again == [n \in DOMAIN session.frontend |-> [session.frontend[n] EXCEPT !.sequence = n - 1]]
    <2>3. session'.registers = again
      BY <1>1, <1>2, <1>6 DEF BeginFunction, NewSession, NameOf
    <2>4. /\ Accounts(again, counts) /\ Len(again) = Len(session.frontend)
          /\ \A n \in 1..Len(session.frontend) :
               /\ again[n].sequence = n - 1
               /\ again[n].epoch = session.frontend[n].epoch
               /\ again[n].class = session.frontend[n].class
               /\ again[n].numbers = session.frontend[n].numbers
      BY <2>2, EventsRenumbered DEF Buffered
    <2> HIDE DEF again
    <2>5. /\ \A d \in Classes : NoCounts[d] = FirstVirtualRegister
          /\ NoCounts \in [Classes -> Nat]
          /\ \A d \in Classes : NoCounts[d] <= counts[d]
      BY FirstVirtualAssumption DEF NoCounts, RegisterInv, Allocating, Base, Shaped
    <2>6. ASSUME NEW n \in 1..Len(again)
          PROVE  /\ again[n].sequence = n - 1 /\ again[n].epoch = "initial_lowering"
                 /\ again[n].numbers \subseteq NoCounts[again[n].class]..(counts[again[n].class] - 1)
      <3>1. again \in Seq(Event) /\ again[n].class \in Classes
        <4>1. again \in Seq(Event)
          BY <2>4 DEF Accounts
        <4>2. again[n] \in Event
          BY <4>1
        <4> QED
          BY <4>1, <4>2 DEF Event
      <3>2. \A x \in again[n].numbers : x \in FirstVirtualRegister..(counts[again[n].class] - 1)
        BY <2>4, <3>1 DEF Accounts
      <3>3. n \in 1..Len(session.frontend)
        BY <2>4
      <3>4. again[n].sequence = n - 1 /\ again[n].epoch = "initial_lowering"
        BY <2>2, <2>4, <3>3 DEF Buffered
      <3>5. NoCounts[again[n].class] = FirstVirtualRegister
        BY <2>5, <3>1
      <3> QED
        BY <3>2, <3>4, <3>5
    <2>7. session'.boundaries \in Seq(BoundaryRecord) /\ Len(session'.boundaries) = 0
      <3>1. session'.boundaries = <<>>
        BY <1>2
      <3> QED
        BY <3>1
    <2>8. Accounts(session'.registers, counts')
      BY <1>1, <2>3, <2>4
    <2>9. \A n \in 1..Len(session'.registers) :
            session'.registers[n].sequence = n - 1 /\ Placed(session.registers[n])'
      BY <1>1, <1>2, <2>3, <2>6 DEF Placed
    <2>10. session'.previous \in [Classes -> Nat] /\ \A d \in Classes : session'.previous[d] <= counts'[d]
      BY <1>1, <1>2, <2>5
    <2> QED
      BY <2>7, <2>8, <2>9, <2>10 DEF Tracked
  <1>7. Apart' <=> Apart
    BY <1>1 DEF Apart
  <1> QED
    BY <1>1, <1>4, <1>5, <1>6, <1>7 DEF RegisterInv

(* A stage breakpoint or the entry of the allocator closes a range.        *)
LEMMA RegisterCloses ==
    ASSUME Base, RegisterInv, UNCHANGED <<function, target, counts, code>>,
           call.kind = "none", call' = call, epoch # "frontend", epoch' # "frontend",
           NEW phase \in Phases, phase = "allocator" <=> phase # Stage(epoch),
           phase = "allocator" => epoch = "register_allocation",
           session'.capture = session.capture, session'.index = session.index,
           session'.registers = session.registers, session'.frontend = session.frontend,
           session'.objectEvent = session.objectEvent,
           session.capture => /\ session'.boundaries = Append(session.boundaries, Boundary(phase, counts, session.previous))
                              /\ session'.previous = counts,
           ~session.capture => disk'.stage = disk.stage,
           NEW file, session.capture => disk'.stage = <<file>>,
           file.counts = counts, file.code = code,
           file.trace.registers = session.registers,
           session.capture => file.trace.boundaries = session'.boundaries
    PROVE  RegisterInv'
  <1>1. counts \in [Classes -> Nat] /\ code \in Seq(Instruction)
    BY DEF Base, Shaped
  <1>2. Allocating' /\ CodeFits'
    BY DEF RegisterInv, Allocating, CodeFits, Fits
  <1>3. StagesEmpty' /\ (Apart' <=> Apart) /\ (Wanted => Wanted')
    BY DEF RegisterInv, StagesEmpty, Apart, Wanted
  <1> DEFINE b == Boundary(phase, counts, session.previous)
             N == Len(session.boundaries)
  <1>4. ASSUME session.capture, Apart
        PROVE  Tracked' /\ RegistersAreAccounted(file)
    <2>1. Tracked
      BY <1>4 DEF RegisterInv
    <2>2. /\ b \in BoundaryRecord /\ b.phase = phase
          /\ \A c \in Classes : b.ranges[c] = session.previous[c]..(counts[c] - 1)
      BY <1>1, <2>1 DEF Boundary, BoundaryRecord, Tracked
    <2>3. /\ session.boundaries \in Seq(BoundaryRecord) /\ N \in Nat
          /\ session.registers \in Seq(Event)
      BY <2>1 DEF Tracked, Accounts
    <2> HIDE DEF b
    <2>4. session'.boundaries = Append(session.boundaries, b) /\ session'.previous = counts
      BY <1>4 DEF b
    <2>5. /\ session'.boundaries \in Seq(BoundaryRecord) /\ Len(session'.boundaries) = N + 1
          /\ session'.boundaries[N + 1] = b
          /\ \A m \in 1..N : session'.boundaries[m] = session.boundaries[m]
          /\ DOMAIN session'.boundaries = 1..(N + 1)
      BY <2>2, <2>3, <2>4
    <2>6. ASSUME NEW n \in 1..Len(session.registers)
          PROVE  /\ session.registers[n].sequence = n - 1
                 /\ \E m \in 1..(N + 1) : InRange(session.registers[n], session'.boundaries[m])
      <3> DEFINE e == session.registers[n]
      <3>1. e.sequence = n - 1 /\ Placed(e) /\ e \in Event
        BY <2>1, <2>3 DEF Tracked
      <3>2. CASE \E m \in 1..N : InRange(e, session.boundaries[m])
        <4>1. PICK m \in 1..N : InRange(e, session.boundaries[m])
          BY <3>2
        <4>2. m \in 1..(N + 1) /\ session'.boundaries[m] = session.boundaries[m]
          BY <2>3, <2>5
        <4> QED
          BY <3>1, <4>1, <4>2
      <3>3. CASE /\ e.numbers \subseteq session.previous[e.class]..(counts[e.class] - 1)
                 /\ e.epoch = session.epoch
        <4>1. e.epoch = epoch /\ e.class \in Classes
          BY <1>4, <3>1, <3>3 DEF Base, Timeline, Event
        <4>2. InRange(e, b)
          BY <2>2, <3>3, <4>1 DEF InRange
        <4>3. N + 1 \in 1..(N + 1)
          BY <2>3
        <4> QED
          BY <2>5, <3>1, <4>2, <4>3
      <3> QED
        BY <3>1, <3>2, <3>3 DEF Placed
    <2>7. Tracked'
      BY <1>1, <2>1, <2>4, <2>5, <2>6 DEF Tracked, Placed
    <2>8. Accounts(file.trace.registers, file.counts)
      BY <2>1 DEF Tracked
    <2>9. \A n \in DOMAIN file.code : \A r \in file.code[n].registers :
            r \in Classes \X Int /\ r[2] < file.counts[r[1]]
      <3>1. \A n \in DOMAIN code : code[n] \in Instruction
        BY <1>1
      <3>2. \A n \in DOMAIN code : \A r \in code[n].registers : r \in Classes \X Int
        BY <3>1 DEF Instruction
      <3> QED
        BY <3>2 DEF RegisterInv, CodeFits, Fits
    <2>10. \A n \in 1..Len(file.trace.registers) :
             /\ file.trace.registers[n].sequence = n - 1
             /\ \E m \in DOMAIN file.trace.boundaries :
                  InRange(file.trace.registers[n], file.trace.boundaries[m])
      BY <1>4, <2>5, <2>6
    <2> QED
      BY <1>1, <2>7, <2>8, <2>9, <2>10, FileIsAccounted
  <1>5. StagesAccounted'
    BY <1>3, <1>4 DEF RegisterInv, StagesAccounted
  <1> QED
    BY <1>2, <1>3, <1>4, <1>5 DEF RegisterInv

LEMMA RegisterEnds ==
    ASSUME Base, RegisterInv, EndEpoch
    PROVE  RegisterInv'
  <1> DEFINE file == StageFile(session, Stage(epoch))
  <1>1. /\ call.kind = "none" /\ call' = call /\ function' = function /\ target' = target
        /\ counts' = counts /\ code' = code
        /\ epoch # "frontend" /\ epoch' # "frontend"
        /\ session' = OnStage(session, Stage(epoch), After(epoch))
    BY AfterEpoch DEF EndEpoch, Idle, Base, Shaped, EpochNames
  <1>2. Kept(session, session', {"boundaries", "previous", "raised", "motion",
                                 "pendingMotion", "epoch", "tracing"})
    BY ShapedEndEpoch DEF Base
  <1>3. /\ session'.capture = session.capture /\ session'.index = session.index
        /\ session'.registers = session.registers /\ session'.frontend = session.frontend
        /\ session'.objectEvent = session.objectEvent
    BY <1>2 DEF Kept, Fields, NewSession
  <1>4. Stage(epoch) # "allocator" /\ Stage(epoch) \in Phases
    BY DEF Base, Shaped, EpochNames, Stage, Phases
  <1>5. ASSUME session.capture
        PROVE  /\ session'.boundaries = Append(session.boundaries, Boundary(Stage(epoch), counts, session.previous))
               /\ session'.previous = counts
    BY <1>1, <1>5 DEF OnStage, RecordBoundary, FinishMotion, Base, Shaped, IsSession, Fields, NewSession
  <1>6. /\ ~session.capture => disk'.stage = disk.stage
        /\ session.capture => disk'.stage = <<file>>
    BY DEF EndEpoch, WithStage, Base, Shaped
  <1>7. /\ file.counts = counts /\ file.code = code
        /\ file.trace.registers = session.registers
        /\ file.trace.boundaries = Append(session.boundaries, Boundary(Stage(epoch), counts, session.previous))
    BY DEF StageFile, CreationTrace, RecordBoundary, Base, Shaped, IsSession, Fields, NewSession
  <1> HIDE DEF file
  <1> QED
    BY <1>1, <1>3, <1>4, <1>5, <1>6, <1>7, RegisterCloses

LEMMA RegisterAllocates ==
    ASSUME Base, RegisterInv, EnterAllocateRegisters
    PROVE  RegisterInv'
  <1> DEFINE file == [phase |-> "allocator", capture |-> session'.index,
                      identity |-> session'.identity, counts |-> counts, code |-> code,
                      trace |-> CreationTrace(session', code)]
  <1>1. /\ call.kind = "none" /\ call' = call /\ function' = function /\ target' = target
        /\ counts' = counts /\ code' = code
        /\ epoch = "register_allocation" /\ epoch' = epoch /\ session.active
    BY FunctionsAssumption DEF EnterAllocateRegisters, Idle, Base, Shaped, Timeline
  <1>2. Kept(session, session', {"attempts", "boundaries", "previous", "raised"})
    BY <1>1, ShapedEnterAllocateRegisters DEF Base
  <1>3. /\ session'.capture = session.capture /\ session'.index = session.index
        /\ session'.registers = session.registers /\ session'.frontend = session.frontend
        /\ session'.objectEvent = session.objectEvent
    BY <1>2 DEF Kept, Fields, NewSession
  <1>4. Stage(epoch) = "register_coloring" /\ "allocator" \in Phases
    BY <1>1 DEF Stage, Phases
  <1>5. ASSUME session.capture
        PROVE  /\ session'.boundaries = Append(session.boundaries, Boundary("allocator", counts, session.previous))
               /\ session'.previous = counts
    BY <1>1, <1>5 DEF EnterAllocateRegisters, OnAllocate, RecordBoundary, Base, Shaped, IsSession,
       Fields, NewSession
  <1>6. /\ ~session.capture => disk'.stage = disk.stage
        /\ session.capture => disk'.stage = <<file>>
    BY <1>3 DEF EnterAllocateRegisters, Base, Shaped
  <1>7. /\ file.counts = counts /\ file.code = code
        /\ file.trace.registers = session.registers
        /\ file.trace.boundaries = session'.boundaries
    BY <1>3 DEF CreationTrace
  <1> HIDE DEF file
  <1> QED
    BY <1>1, <1>3, <1>4, <1>5, <1>6, <1>7, RegisterCloses

LEMMA RegisterInit == CaptureInit => RegisterInv
  <1> SUFFICES ASSUME CaptureInit PROVE RegisterInv
    OBVIOUS
  <1>1. /\ call.kind = "none" /\ epoch = "final" /\ code = <<>> /\ counts = NoCounts
        /\ disk.stage = <<>> /\ ~session.capture /\ session.objectEvent = <<>>
    BY DEF CaptureInit, Idle, NewSession
  <1>2. Allocating
    BY <1>1, FirstVirtualAssumption DEF Allocating, NoCounts
  <1> QED
    BY <1>1, <1>2 DEF RegisterInv, CodeFits, StagesEmpty, StagesAccounted

LEMMA RegisterStep == ASSUME Base, RegisterInv, [CaptureNext]_captureVars PROVE RegisterInv'
  <1>1. CASE UNCHANGED captureVars
    BY <1>1 DEF captureVars, compiler, RegisterInv, Allocating, CodeFits, Fits, StagesEmpty,
       StagesAccounted, Apart, Wanted, Buffered, Tracked, Placed
  <1>2. CASE MotionActions
    <2>1. Inside(MotionFields) /\ MotionFootprint
      BY <1>2, MotionInside, MotionLeaves
    <2> QED
      BY <2>1, RegisterUntouched DEF Inside, Kept, Fields, NewSession, MotionFields, MotionFootprint
  <1>3. CASE FrameActions
    BY <1>3, FrameInside, FrameLeaves, RegisterUntouched DEF Inside, Kept, Fields, NewSession, FrameFields
  <1>4. CASE SelectActions
    <2>1. CASE EnterAllocateRegisters
      BY <2>1, RegisterAllocates
    <2>2. CASE ReturnSelect \/ \E c \in Classes, graph \in Graphs : Select(c, graph)
      <3>1. /\ disk'.stage = disk.stage /\ UNCHANGED <<function, epoch, target, counts, code>>
        BY <2>2 DEF ReturnSelect, Select, WithColoring, Base, Shaped
      <3>2. Kept(session, session', {"attempts", "returns"})
        BY <2>2, ShapedSelect, ShapedReturnSelect, FewerKept DEF Base
      <3>3. call.kind \in {"none", "select"} /\ call'.kind \in {"none", "select"}
        BY <1>4, SelectLeaves
      <3> QED
        BY <3>1, <3>2, <3>3, RegisterUntouched DEF Kept, Fields, NewSession
    <2> QED
      BY <1>4, <2>1, <2>2 DEF SelectActions
  <1>5. CASE CaptureNext
    BY <1>2, <1>3, <1>4, <1>5, ActionGroups, RegisterCode, RegisterReset, RegisterEnters,
       RegisterEnds DEF Base
  <1> QED
    BY <1>1, <1>5

(* Every virtual register in the code of a captured function has exactly   *)
(* one origin, unless its front end ran inside the capture before.         *)
THEOREM OriginsRecorded == CaptureSpec => []RegistersHaveOrigins
  <1> DEFINE I == Base /\ SelectInv /\ RegisterInv
  <1>1. CaptureInit => I
    BY BaseInit, SelectInit, RegisterInit
  <1>2. I /\ [CaptureNext]_captureVars => I'
    BY BaseStep, SelectStep, RegisterStep
  <1>3. I => RegistersHaveOrigins
    <2> SUFFICES ASSUME I, NEW n \in DOMAIN disk.stage, Current(disk.stage[n]),
                        disk.stage[n].capture = 1 \/ target.index # 0 \/ target.name # ""
                 PROVE  RegistersAreAccounted(disk.stage[n])
      BY DEF RegistersHaveOrigins, Range
    <2> QED
      BY DEF SelectInv, StagesCurrent, RegisterInv, StagesAccounted, Apart
  <1> QED
    BY <1>1, <1>2, <1>3, PTL DEF CaptureSpec

(***************************************************************************)
(* What is pending.  Entries that wait for a return are those of the call  *)
(* under way, so no handler finds one of another call, or none.            *)
(***************************************************************************)
Begun(opcode) == [sequence |-> 0, epoch |-> session.epoch, opcode |-> opcode, address |-> 0]

Cloning(source) == [sequence |-> 0, source |-> source, address |-> 0]

Homing(local, cursor, alignment) ==
  [sequence |-> 0, object |-> local.object, type |-> local.type, size |-> local.size,
   before |-> cursor, alignment |-> alignment, slot |-> 0, after |-> 0]

PendingFits ==
  /\ session.pendingCreations =
       IF call.kind = "wrapper" THEN <<Begun(call.opcode)>>
       ELSE IF call.kind = "filled" /\ call.for.kind = "wrapper" THEN <<Begun(call.for.opcode)>>
       ELSE <<>>
  /\ session.pendingClones =
       IF call.kind = "clone" THEN <<Cloning(call.of.address)>>
       ELSE IF call.kind = "filled" /\ call.for.kind = "clone" THEN <<Cloning(call.for.of.address)>>
       ELSE <<>>
  /\ session.pendingSlot =
       IF call.kind = "slot"
       THEN <<Homing(call.of, frame.cursor, IF call.at = "entry" THEN 0 ELSE call.of.alignment)>>
       ELSE <<>>
  /\ session.tracing <=> epoch = "backend_optimization"

PendingInv == session.capture => PendingFits

Waiting == {"wrapper", "clone", "filled", "slot"}

LEMMA OneEntry ==
    ASSUME NEW x, NEW y
    PROVE  /\ Append(<<>>, x) = <<x>> /\ <<x>> # <<>> /\ Last(<<x>>) = x /\ Front(<<x>>) = <<>>
           /\ <<x>>[1] = x /\ [<<x>> EXCEPT ![1] = y] = <<y>>
  <1>1. Append(<<>>, x) = <<x>> /\ <<x>> # <<>> /\ <<x>>[1] = x /\ [<<x>> EXCEPT ![1] = y] = <<y>>
    OBVIOUS
  <1>2. Last(<<x>>) = x /\ Front(<<x>>) = <<>>
    BY DEF Last, Front
  <1> QED
    BY <1>1, <1>2

LEMMA PendingUntouched ==
    ASSUME PendingInv, session'.capture = session.capture, session'.epoch = session.epoch,
           session'.pendingCreations = session.pendingCreations,
           session'.pendingClones = session.pendingClones,
           session'.pendingSlot = session.pendingSlot, session'.tracing = session.tracing,
           epoch' = epoch, frame'.cursor = frame.cursor,
           call' = call \/ (call.kind \notin Waiting /\ call'.kind \notin Waiting)
    PROVE  PendingInv'
  BY DEF PendingInv, PendingFits, Begun, Waiting

LEMMA PendingCode ==
    ASSUME Base, PendingInv, CodeActions
    PROVE  PendingInv'
  <1>1. Inside(CodeFields) /\ frame' = frame
    BY CodeInside, CodeLeaves DEF CodeFootprint
  <1>2. /\ epoch' = epoch /\ session'.capture = session.capture /\ session'.epoch = session.epoch
        /\ session'.pendingSlot = session.pendingSlot /\ session'.tracing = session.tracing
    BY <1>1 DEF Inside, Kept, Fields, NewSession, CodeFields
  <1>3. Shaped /\ IsSession(session) /\ DOMAIN session = DOMAIN NewSession
    BY DEF Base, Shaped, IsSession, Fields
  <1>4. session.capture => PendingFits
    BY DEF PendingInv
  <1>5. ASSUME NEW opcode \in Opcodes, EnterWrapper(opcode) PROVE PendingInv'
    <2>1. Kept(session, session', {"pendingCreations"})
      BY <1>3, <1>5, ShapedEnterWrapper
    <2>2. /\ call.kind = "none" /\ call'.kind = "wrapper" /\ call'.opcode = opcode
          /\ session' = OnWrapper(session, opcode)
      BY <1>5 DEF EnterWrapper, Idle
    <2>3. session'.pendingClones = session.pendingClones
      BY <2>1 DEF Kept, Fields, NewSession
    <2>4. ASSUME session.capture PROVE session'.pendingCreations = <<Begun(opcode)>>
      <3>1. session.pendingCreations = <<>>
        BY <1>4, <2>2, <2>4 DEF PendingFits
      <3>2. session'.pendingCreations = Append(session.pendingCreations, Begun(opcode))
        BY <1>3, <2>2, <2>4 DEF OnWrapper, NewSession, Begun
      <3> QED
        BY <3>1, <3>2, OneEntry
    <2> QED
      BY <1>1, <1>2, <1>4, <2>2, <2>3, <2>4 DEF PendingInv, PendingFits, Begun
  <1>6. ASSUME NEW n \in DOMAIN code, EnterClone(n) PROVE PendingInv'
    <2>1. Kept(session, session', {"pendingClones"})
      BY <1>3, <1>6, ShapedEnterClone
    <2>2. /\ call.kind = "none" /\ call' = [kind |-> "clone", of |-> code[n]]
          /\ epoch = "backend_optimization" /\ session' = OnClone(session, code[n].address)
      BY <1>6 DEF EnterClone, Idle
    <2>3. session'.pendingCreations = session.pendingCreations
      BY <2>1 DEF Kept, Fields, NewSession
    <2>4. ASSUME session.capture PROVE session'.pendingClones = <<Cloning(code[n].address)>>
      <3>1. session.pendingClones = <<>> /\ session.tracing
        BY <1>4, <2>2, <2>4 DEF PendingFits
      <3>2. Optimizing(session)
        BY <2>2, <2>4, <3>1 DEF Optimizing, Base, Timeline
      <3>3. session'.pendingClones = Append(session.pendingClones, Cloning(code[n].address))
        BY <1>3, <2>2, <3>2 DEF OnClone, NewSession, Cloning
      <3> QED
        BY <3>1, <3>3, OneEntry
    <2> QED
      BY <1>1, <1>2, <1>4, <2>2, <2>3, <2>4 DEF PendingInv, PendingFits, Begun
  <1>7. CASE ReturnFromArena
    <2>1. Kept(session, session', {"allocations"})
      BY <1>3, <1>7, ShapedReturnFromArena
    <2>2. \/ /\ call.kind \in {"wrapper", "clone"}
             /\ call' = [kind |-> "filled", for |-> call, address |-> heap]
          \/ call' = call
      BY <1>7 DEF ReturnFromArena
    <2>3. /\ session'.pendingCreations = session.pendingCreations
          /\ session'.pendingClones = session.pendingClones
      BY <2>1 DEF Kept, Fields, NewSession
    <2>4. CASE call' = call
      BY <1>1, <1>2, <2>3, <2>4, PendingUntouched
    <2>5. CASE call.kind \in {"wrapper", "clone"}
               /\ call' = [kind |-> "filled", for |-> call, address |-> heap]
      BY <1>1, <1>2, <1>4, <2>3, <2>5 DEF PendingInv, PendingFits, Begun
    <2> QED
      BY <2>2, <2>4, <2>5
  <1>8. ASSUME NEW registers \in BuiltRegisters, ReturnBuilder(registers) PROVE PendingInv'
    <2>1. Kept(session, session', {"pendingCreations", "raised", "creations"})
      BY <1>3, <1>8, BuiltRegistersAreTyped, ShapedReturnBuilder
    <2>2. PICK i : /\ call.kind = "filled" /\ call.for.kind = "wrapper" /\ call' = Idle
                   /\ session' = OnBuilderReturn(session, i)
      BY <1>8 DEF ReturnBuilder
    <2>3. session'.pendingClones = session.pendingClones
      BY <2>1 DEF Kept, Fields, NewSession
    <2>4. ASSUME session.capture PROVE session'.pendingCreations = <<>>
      <3>1. PICK x : session.pendingCreations = <<x>>
        BY <1>4, <2>2, <2>4 DEF PendingFits
      <3>2. session'.pendingCreations = Front(session.pendingCreations)
        BY <1>3, <2>2, <2>4, <3>1, OneEntry DEF OnBuilderReturn, NewSession
      <3> QED
        BY <3>1, <3>2, OneEntry
    <2> QED
      BY <1>1, <1>2, <1>4, <2>2, <2>3, <2>4 DEF PendingInv, PendingFits, Idle
  <1>9. CASE ReturnClone
    <2>1. Kept(session, session', {"pendingClones", "clones"})
      BY <1>3, <1>9, ShapedReturnClone
    <2>2. /\ call.kind = "filled" /\ call.for.kind = "clone" /\ call' = Idle
          /\ session' = OnCloneReturn(session, call.address)
      BY <1>9 DEF ReturnClone
    <2>3. session'.pendingCreations = session.pendingCreations
      BY <2>1 DEF Kept, Fields, NewSession
    <2>4. ASSUME session.capture PROVE session'.pendingClones = <<>>
      <3>1. PICK x : session.pendingClones = <<x>>
        BY <1>4, <2>2, <2>4 DEF PendingFits
      <3>2. session.tracing
        BY <1>3, <1>4, <2>2, <2>4 DEF PendingFits, Shaped, EpochsOf
      <3>3. session'.pendingClones = Front(session.pendingClones)
        BY <1>3, <2>2, <2>4, <3>1, <3>2, OneEntry DEF OnCloneReturn, NewSession
      <3> QED
        BY <3>1, <3>3, OneEntry
    <2> QED
      BY <1>1, <1>2, <1>4, <2>2, <2>3, <2>4 DEF PendingInv, PendingFits, Idle
  <1>10. CASE \/ ReturnObjectRegister
              \/ \E c \in Classes : \/ DirectRegister(c)
                                    \/ \E width \in 1..2 : EnterObjectRegister(c, width)
              \/ \E n \in DOMAIN code : Unlink(n)
    <2>1. call.kind \notin Waiting /\ call'.kind \notin Waiting
      BY <1>10 DEF ReturnObjectRegister, DirectRegister, EnterObjectRegister, Unlink, Waiting, Idle
    <2>2. Kept(session, session', {"registers", "frontend", "objectEvent"})
      BY <1>3, <1>10, ShapedReturnObjectRegister, ShapedDirectRegister, ShapedEnterObjectRegister,
         ShapedUnlink, SelfKept, FewerKept
    <2>3. /\ session'.pendingCreations = session.pendingCreations
          /\ session'.pendingClones = session.pendingClones
      BY <2>2 DEF Kept, Fields, NewSession
    <2> QED
      BY <1>1, <1>2, <2>1, <2>3, PendingUntouched
  <1> QED
    BY <1>5, <1>6, <1>7, <1>8, <1>9, <1>10 DEF CodeActions

LEMMA PendingFrame ==
    ASSUME Base, PendingInv, FrameActions
    PROVE  PendingInv'
  <1>1. Inside(FrameFields)
    BY FrameInside
  <1>2. /\ epoch' = epoch /\ session'.capture = session.capture /\ session'.epoch = session.epoch
        /\ session'.pendingCreations = session.pendingCreations
        /\ session'.pendingClones = session.pendingClones /\ session'.tracing = session.tracing
    BY <1>1 DEF Inside, Kept, Fields, NewSession, FrameFields
  <1>3. Shaped /\ IsSession(session) /\ DOMAIN session = DOMAIN NewSession
    BY DEF Base, Shaped, IsSession, Fields
  <1>4. session.capture => PendingFits
    BY DEF PendingInv
  <1>5. CASE EnterSlot
    <2>1. /\ call.kind = "homing" /\ frame' = frame
          /\ call' = [kind |-> "slot", of |-> Head(call.rest), rest |-> Tail(call.rest), at |-> "entry"]
          /\ session' = OnSlot(session, Head(call.rest))
      BY <1>5 DEF EnterSlot
    <2>2. session.capture => session'.pendingSlot = <<Homing(Head(call.rest), frame.cursor, 0)>>
      BY <1>3, <2>1 DEF OnSlot, NewSession, Homing
    <2> QED
      BY <1>2, <1>4, <2>1, <2>2 DEF PendingInv, PendingFits
  <1>6. CASE ReturnAlignment
    <2>1. /\ call.kind = "slot" /\ call.at = "entry" /\ frame' = frame
          /\ call' = [call EXCEPT !.at = "aligned"]
          /\ session' = OnAlignment(session, call.of.alignment)
      BY <1>6 DEF ReturnAlignment
    <2>2. call'.kind = "slot" /\ call'.at = "aligned" /\ call'.of = call.of
      BY <1>3, <2>1, OperationKinds DEF Shaped
    <2>3. ASSUME session.capture
          PROVE  session'.pendingSlot = <<Homing(call.of, frame.cursor, call.of.alignment)>>
      <3>1. session.pendingSlot = <<Homing(call.of, frame.cursor, 0)>>
        BY <1>4, <2>1, <2>3 DEF PendingFits
      <3>2. session'.pendingSlot =
              [session.pendingSlot EXCEPT ![1] = [session.pendingSlot[1] EXCEPT !.alignment = call.of.alignment]]
        BY <1>3, <2>1, <2>3, <3>1, OneEntry DEF OnAlignment, NewSession
      <3>3. [Homing(call.of, frame.cursor, 0) EXCEPT !.alignment = call.of.alignment]
              = Homing(call.of, frame.cursor, call.of.alignment)
        BY DEF Homing
      <3> QED
        BY <3>1, <3>2, <3>3, OneEntry
    <2> QED
      BY <1>2, <1>4, <2>1, <2>2, <2>3 DEF PendingInv, PendingFits
  <1>7. CASE ReturnSlot
    <2>1. PICK slot, next : /\ call.kind = "slot" /\ call.at = "aligned"
                            /\ call' = [kind |-> "homing", rest |-> call.rest]
                            /\ session' = OnSlotReturn(session, slot, next)
      BY <1>7 DEF ReturnSlot
    <2>2. ASSUME session.capture PROVE session'.pendingSlot = <<>>
      <3>1. session.pendingSlot # <<>>
        BY <1>4, <2>1, <2>2, OneEntry DEF PendingFits
      <3> QED
        BY <1>3, <2>1, <2>2, <3>1 DEF OnSlotReturn, NewSession
    <2> QED
      BY <1>2, <1>4, <2>1, <2>2 DEF PendingInv, PendingFits
  <1>8. CASE \/ EnterHomingLoop \/ LeaveHomingLoop
             \/ \E at \in {"entry", "middle", "return"} : FrameCheckpoint(at)
    <2>1. /\ call.kind \notin Waiting /\ call'.kind \notin Waiting
      BY <1>3, <1>8, OperationKinds DEF EnterHomingLoop, LeaveHomingLoop, FrameCheckpoint, Waiting, Idle, Shaped
    <2>2. frame' = frame
      BY <1>8 DEF EnterHomingLoop, LeaveHomingLoop, FrameCheckpoint
    <2>3. Kept(session, session', {"raised", "checkpoints"})
      BY <1>3, <1>8, ShapedEnterHomingLoop, ShapedLeaveHomingLoop, ShapedFrameCheckpoint, SelfKept
    <2>4. session'.pendingSlot = session.pendingSlot
      BY <2>3 DEF Kept, Fields, NewSession
    <2> QED
      BY <1>2, <2>1, <2>2, <2>4, PendingUntouched
  <1> QED
    BY <1>5, <1>6, <1>7, <1>8 DEF FrameActions

LEMMA PendingEnds ==
    ASSUME Base, PendingInv, EndEpoch
    PROVE  PendingInv'
  <1>1. /\ call.kind = "none" /\ call' = call /\ epoch' = After(epoch) /\ epoch \in EpochNames
        /\ epoch \notin {"frontend", "final"} /\ session' = OnStage(session, Stage(epoch), After(epoch))
    BY DEF EndEpoch, Idle, Base, Shaped
  <1>2. DOMAIN session = DOMAIN NewSession
    BY DEF Base, Shaped, IsSession, Fields
  <1>3. Kept(session, session', {"boundaries", "previous", "raised", "motion",
                                 "pendingMotion", "epoch", "tracing"})
    BY ShapedEndEpoch DEF Base
  <1>4. /\ session'.capture = session.capture
        /\ session'.pendingCreations = session.pendingCreations
        /\ session'.pendingClones = session.pendingClones
        /\ session'.pendingSlot = session.pendingSlot
    BY <1>3 DEF Kept, Fields, NewSession
  <1>5. ASSUME session.capture
        PROVE  session'.tracing = IF Stage(epoch) = "optimized" THEN FALSE
                                  ELSE IF Stage(epoch) = "initial" THEN TRUE ELSE session.tracing
    BY <1>1, <1>2, <1>5 DEF OnStage, RecordBoundary, FinishMotion, NewSession
  <1>6. /\ Stage(epoch) = "optimized" <=> epoch = "backend_optimization"
        /\ Stage(epoch) = "initial" <=> epoch = "initial_lowering"
        /\ epoch' = "backend_optimization" <=> epoch = "initial_lowering"
    BY <1>1, AfterEpoch DEF Stage, EpochNames
  <1>7. ASSUME session.capture PROVE session'.tracing <=> epoch' = "backend_optimization"
    <2>1. session.tracing <=> epoch = "backend_optimization"
      BY <1>7 DEF PendingInv, PendingFits
    <2> QED
      BY <1>5, <1>6, <1>7, <2>1
  <1> QED
    BY <1>1, <1>4, <1>7 DEF PendingInv, PendingFits

LEMMA PendingInit == CaptureInit => PendingInv
  <1> SUFFICES ASSUME CaptureInit PROVE PendingInv
    OBVIOUS
  <1>1. session.capture = FALSE
    BY DEF CaptureInit, NewSession
  <1> QED
    BY <1>1 DEF PendingInv

LEMMA WaitingStep == ASSUME Base, PendingInv, [CaptureNext]_captureVars PROVE PendingInv'
  <1>1. CASE UNCHANGED captureVars
    BY <1>1 DEF captureVars, compiler, PendingInv, PendingFits, Begun
  <1>2. CASE MotionActions \/ SelectActions
    <2>1. /\ call.kind \notin Waiting /\ call'.kind \notin Waiting /\ frame' = frame
      BY <1>2, MotionLeaves, SelectLeaves DEF MotionFootprint, Waiting
    <2>2. PICK F \in {MotionFields, SelectFields} : Inside(F)
      BY <1>2, MotionInside, SelectInside
    <2>3. /\ epoch' = epoch /\ session'.capture = session.capture /\ session'.epoch = session.epoch
          /\ session'.pendingCreations = session.pendingCreations
          /\ session'.pendingClones = session.pendingClones
          /\ session'.pendingSlot = session.pendingSlot /\ session'.tracing = session.tracing
      BY <2>2 DEF Inside, Kept, Fields, NewSession, MotionFields, SelectFields
    <2> QED
      BY <2>1, <2>3, PendingUntouched
  <1>3. CASE ResetCounters
    <2>1. /\ epoch = "final" /\ epoch' = "frontend" /\ call.kind = "none" /\ call' = call
      BY <1>3, NoCallsOutside DEF ResetCounters, Base
    <2>2. Kept(session, session', {"registers", "frontend"})
      BY <1>3, ShapedResetCounters DEF Base
    <2>3. /\ session'.capture = session.capture
          /\ session'.pendingCreations = session.pendingCreations
          /\ session'.pendingClones = session.pendingClones
          /\ session'.pendingSlot = session.pendingSlot /\ session'.tracing = session.tracing
      BY <2>2 DEF Kept, Fields, NewSession
    <2> QED
      BY <2>1, <2>3 DEF PendingInv, PendingFits
  <1>4. CASE EnterCodeGen
    <2>1. /\ epoch' = "initial_lowering" /\ call.kind = "none" /\ call' = call
      BY <1>4, NoCallsOutside DEF EnterCodeGen, Base
    <2>2. /\ session'.pendingCreations = <<>> /\ session'.pendingClones = <<>>
          /\ session'.pendingSlot = <<>> /\ session'.tracing = FALSE
      BY <1>4 DEF EnterCodeGen, BeginFunction, NewSession
    <2> QED
      BY <2>1, <2>2 DEF PendingInv, PendingFits
  <1>5. CASE CaptureNext
    BY <1>2, <1>3, <1>4, <1>5, ActionGroups, PendingCode, PendingFrame, PendingEnds DEF Base
  <1> QED
    BY <1>1, <1>5

(***************************************************************************)
(* The links of instructions.  Each address of the arena that became an    *)
(* instruction has one event, in the list that its origin asks for.        *)
(***************************************************************************)
CreationEvent == [sequence : Nat, epoch : EpochNames, opcode : Opcodes, address : Nat]

CloneEvent == [sequence : Nat, source : Nat, address : Nat]

AllocationEvent == [sequence : Nat, address : Nat]

Created(origin) == {a \in DOMAIN origin : origin[a] = 0}

Cloned(origin) == {a \in DOMAIN origin : origin[a] # 0}

(* One event for each of the addresses, numbered in order.                 *)
Listed(events, addresses) ==
  /\ \A n \in 1..Len(events) : events[n].sequence = n - 1 /\ events[n].address \in addresses
  /\ \A a \in addresses : \E n \in 1..Len(events) : events[n].address = a
  /\ \A m, n \in 1..Len(events) : events[m].address = events[n].address => m = n

Addresses(instructions) == {instructions[n].address : n \in DOMAIN instructions}

(* What LinksAreExact says of one file.                                    *)
Linked(file, origin) ==
  LET join     == JoinInstructions(file.code, file.trace)
      live     == {file.code[n].address : n \in DOMAIN file.code}
      made     == {a \in live : origin[a] = 0}
  IN  /\ {l[1] : l \in join.createdBy} = made
      /\ \A n \in DOMAIN file.code : \A e \in Range(file.trace.creations) :
           <<file.code[n].address, e.sequence>> \in join.createdBy =>
             e.opcode = file.code[n].opcode
      /\ {<<l[1], l[2]>> : l \in join.derivedFrom} =
           {<<a, origin[a]>> : a \in live \ made}
      /\ Cardinality(join.derivedFrom) = Cardinality(live \ made)
      /\ join.unlinked = {} /\ file.trace.pending = 0
      /\ file.trace.unwrapped = live \ made

Allocated(a) == \E n \in 1..Len(session.allocations) : session.allocations[n].address = a

Arena ==
  /\ heap \in Nat \ {0}
  /\ DOMAIN facts.origin \subseteq 1..(heap - 1)
  /\ \A n \in DOMAIN code : code[n].address \in DOMAIN facts.origin
  /\ call.kind = "clone" => call.of.address \in DOMAIN facts.origin
  /\ call.kind = "filled" =>
       /\ call.address \in 1..(heap - 1) /\ call.address \notin DOMAIN facts.origin
       /\ call.for.kind = "clone" => call.for.of.address \in DOMAIN facts.origin
  /\ epoch = "frontend" => code = <<>> /\ DOMAIN facts.origin = {}

SameOpcodes(events, instructions) ==
  \A n \in 1..Len(events), k \in DOMAIN instructions :
    events[n].address = instructions[k].address => events[n].opcode = instructions[k].opcode

Recorded ==
  /\ session.creations \in Seq(CreationEvent)
  /\ Listed(session.creations, Created(facts.origin))
  /\ SameOpcodes(session.creations, code)
  /\ session.clones \in Seq(CloneEvent)
  /\ Listed(session.clones, Cloned(facts.origin))
  /\ \A n \in 1..Len(session.clones) :
       /\ session.clones[n].source = facts.origin[session.clones[n].address]
       /\ Allocated(session.clones[n].address)
  /\ session.allocations \in Seq(AllocationEvent)
  /\ call.kind = "filled" /\ call.for.kind = "clone" => Allocated(call.address)

StagesLinked ==
  \A n \in DOMAIN disk.stage :
    /\ Addresses(disk.stage[n].code) \subseteq DOMAIN facts.origin
    /\ Linked(disk.stage[n], facts.origin)

LinksInv ==
  /\ Arena /\ StagesLinked
  /\ session.capture /\ epoch # "frontend" => Recorded

LEMMA IndexByAddress ==
    ASSUME NEW events, NEW addresses, Listed(events, addresses), DOMAIN events = 1..Len(events)
    PROVE  /\ DOMAIN ByAddress(events) = addresses
           /\ \A n \in 1..Len(events) : ByAddress(events)[events[n].address] = n - 1
  <1>1. {events[n].address : n \in DOMAIN events} = addresses
    <2>1. \A x : x \in {events[n].address : n \in DOMAIN events} <=>
                 \E n \in 1..Len(events) : events[n].address = x
      OBVIOUS
    <2> QED
      BY <2>1 DEF Listed
  <1>2. DOMAIN ByAddress(events) = addresses
    BY <1>1 DEF ByAddress
  <1>3. ASSUME NEW n \in 1..Len(events) PROVE ByAddress(events)[events[n].address] = n - 1
    <2> DEFINE P(m) == /\ m \in DOMAIN events /\ events[m].address = events[n].address
                       /\ \A k \in DOMAIN events : events[k].address = events[n].address => k <= m
               c == CHOOSE m \in DOMAIN events :
                      /\ events[m].address = events[n].address
                      /\ \A k \in DOMAIN events : events[k].address = events[n].address => k <= m
    <2>1. \A k \in DOMAIN events : events[k].address = events[n].address => k = n
      BY DEF Listed
    <2>2. P(n)
      BY <2>1
    <2>3. P(c)
      BY <2>2
    <2>4. c = n
      BY <2>1, <2>3
    <2>5. events[n].address \in {events[m].address : m \in DOMAIN events}
      OBVIOUS
    <2>6. ByAddress(events)[events[n].address] = events[c].sequence
      BY <2>5 DEF ByAddress
    <2> HIDE DEF c
    <2> QED
      BY <2>4, <2>6 DEF Listed
  <1> QED
    BY <1>2, <1>3

LEMMA LinkedFile ==
    ASSUME NEW origin, NEW file, NEW creations \in Seq(CreationEvent), NEW clones \in Seq(CloneEvent),
           file.code \in Seq(Instruction), Addresses(file.code) \subseteq DOMAIN origin,
           Listed(creations, Created(origin)), SameOpcodes(creations, file.code),
           Listed(clones, Cloned(origin)),
           \A n \in 1..Len(clones) : clones[n].source = origin[clones[n].address],
           file.trace.creations = creations, file.trace.clones = clones, file.trace.pending = 0,
           NEW allocated, \A n \in 1..Len(clones) : clones[n].address \in allocated,
           file.trace.unwrapped =
             allocated \cap (Addresses(file.code) \ {c.address : c \in Range(creations)})
    PROVE  Linked(file, origin)
  <1> DEFINE join == JoinInstructions(file.code, file.trace)
             live == {file.code[n].address : n \in DOMAIN file.code}
             made == {a \in live : origin[a] = 0}
             creation == ByAddress(creations)
  <1>1. DOMAIN creations = 1..Len(creations) /\ DOMAIN clones = 1..Len(clones)
        /\ Len(creations) \in Nat /\ Len(clones) \in Nat
    OBVIOUS
  <1>2. /\ DOMAIN creation = Created(origin)
        /\ \A n \in 1..Len(creations) : creation[creations[n].address] = n - 1
        /\ DOMAIN ByAddress(clones) = Cloned(origin)
    BY <1>1, IndexByAddress
  <1>3. live = Addresses(file.code) /\ live \subseteq DOMAIN origin
        /\ made = live \cap Created(origin) /\ live \ made = live \cap Cloned(origin)
    BY DEF Addresses, Created, Cloned
  <1>4. /\ join.createdBy = {<<a, creation[a]>> : a \in live \cap Created(origin)}
        /\ join.derivedFrom = {<<e.address, e.source, e.sequence>> :
                                  e \in {f \in Range(clones) : f.address \in live}}
        /\ join.unlinked = live \ (Created(origin) \cup Cloned(origin))
    BY <1>2 DEF JoinInstructions
  <1> HIDE DEF join, creation
  <1>5. {l[1] : l \in join.createdBy} = made
    <2>1. ASSUME NEW a \in live \cap Created(origin) PROVE \E l \in join.createdBy : l[1] = a
      <3>1. <<a, creation[a]>> \in join.createdBy
        BY <1>4
      <3> QED
        BY <3>1
    <2>2. ASSUME NEW l \in join.createdBy PROVE l[1] \in live \cap Created(origin)
      <3>1. PICK a \in live \cap Created(origin) : l = <<a, creation[a]>>
        BY <1>4
      <3> QED
        BY <3>1
    <2>3. {l[1] : l \in join.createdBy} = live \cap Created(origin)
      BY <2>1, <2>2
    <2> QED
      BY <1>3, <2>3
  <1>6. ASSUME NEW n \in DOMAIN file.code, NEW e \in Range(creations),
               <<file.code[n].address, e.sequence>> \in join.createdBy
        PROVE  e.opcode = file.code[n].opcode
    <2>1. PICK k \in 1..Len(creations) : e = creations[k]
      BY <1>1 DEF Range
    <2>2. PICK a \in live \cap Created(origin) :
            <<file.code[n].address, e.sequence>> = <<a, creation[a]>>
      BY <1>4, <1>6
    <2>3. a = file.code[n].address /\ e.sequence = creation[a]
      BY <2>2
    <2>4. PICK m \in 1..Len(creations) : creations[m].address = a
      BY DEF Listed
    <2>5. creation[a] = m - 1 /\ e.sequence = k - 1
      BY <1>2, <2>1, <2>4 DEF Listed
    <2>6. m = k
      BY <2>3, <2>5
    <2> QED
      BY <2>1, <2>3, <2>4, <2>6 DEF SameOpcodes
  <1> DEFINE alive == {f \in Range(clones) : f.address \in live}
  <1>7. /\ \A f \in alive : f \in CloneEvent /\ f.address \in live \cap Cloned(origin)
                            /\ f.source = origin[f.address]
        /\ \A a \in live \cap Cloned(origin) : \E f \in alive : f.address = a
        /\ \A f, g \in alive : f.address = g.address => f = g
    <2>1. \A x : x \in Range(clones) <=> \E n \in 1..Len(clones) : x = clones[n]
      BY <1>1 DEF Range
    <2>2. ASSUME NEW f \in alive
          PROVE  f \in CloneEvent /\ f.address \in live \cap Cloned(origin) /\ f.source = origin[f.address]
      <3>1. PICK n \in 1..Len(clones) : f = clones[n]
        BY <2>1
      <3> QED
        BY <1>1, <3>1 DEF Listed
    <2>3. ASSUME NEW a \in live \cap Cloned(origin) PROVE \E f \in alive : f.address = a
      <3>1. PICK n \in 1..Len(clones) : clones[n].address = a
        BY DEF Listed
      <3>2. clones[n] \in Range(clones)
        BY <2>1
      <3> QED
        BY <3>1, <3>2
    <2>4. ASSUME NEW f \in alive, NEW g \in alive, f.address = g.address PROVE f = g
      <3>1. PICK m, n \in 1..Len(clones) : f = clones[m] /\ g = clones[n]
        BY <2>1
      <3> QED
        BY <2>4, <3>1 DEF Listed
    <2> QED
      BY <2>2, <2>3, <2>4
  <1> HIDE DEF alive
  <1>8. {<<l[1], l[2]>> : l \in join.derivedFrom} = {<<a, origin[a]>> : a \in live \ made}
    <2>1. join.derivedFrom = {<<e.address, e.source, e.sequence>> : e \in alive}
      BY <1>4 DEF alive
    <2>2. \A x : x \in {<<l[1], l[2]>> : l \in join.derivedFrom} <=>
                 \E e \in alive : x = <<e.address, e.source>>
      <3>1. \A l \in join.derivedFrom : \E e \in alive : l[1] = e.address /\ l[2] = e.source
        BY <2>1
      <3>2. ASSUME NEW e \in alive
            PROVE  \E l \in join.derivedFrom : l[1] = e.address /\ l[2] = e.source
        <4>1. <<e.address, e.source, e.sequence>> \in join.derivedFrom
          BY <2>1
        <4> QED
          BY <4>1
      <3> QED
        BY <3>1, <3>2
    <2>3. \A x : x \in {<<a, origin[a]>> : a \in live \cap Cloned(origin)} <=>
                 \E e \in alive : x = <<e.address, e.source>>
      BY <1>7
    <2> QED
      BY <1>3, <2>2, <2>3
  <1>9. Cardinality(join.derivedFrom) = Cardinality(live \ made)
    <2> DEFINE S == live \cap Cloned(origin)
               event(a) == CHOOSE e \in alive : e.address = a
               f == [a \in S |-> <<event(a).address, event(a).source, event(a).sequence>>]
    <2>1. \A a \in S : event(a) \in alive /\ event(a).address = a
      BY <1>7
    <2>2. \A a, b \in S : f[a] = f[b] => a = b
      BY <2>1
    <2>3. ASSUME NEW x \in join.derivedFrom PROVE \E a \in S : x = f[a]
      <3>4. PICK e \in alive : x = <<e.address, e.source, e.sequence>>
        BY <1>4 DEF alive
      <3>1. e.address \in S
        BY <1>7
      <3>2. event(e.address) = e
        BY <1>7, <2>1, <3>1
      <3> HIDE DEF event
      <3>3. f[e.address] = x
        BY <3>1, <3>2, <3>4
      <3> QED
        BY <3>1, <3>3
    <2>4. \A a \in S : f[a] \in join.derivedFrom
      BY <1>4, <2>1 DEF alive
    <2>5. f \in Bijection(S, join.derivedFrom)
      <3> HIDE DEF event
      <3>1. f \in [S -> join.derivedFrom]
        BY <2>4
      <3> HIDE DEF f
      <3>2. f \in Injection(S, join.derivedFrom)
        BY <2>2, <3>1 DEF Injection, IsInjective
      <3>3. f \in Surjection(S, join.derivedFrom)
        BY <2>3, <3>1 DEF Surjection
      <3> QED
        BY <3>2, <3>3 DEF Bijection
    <2>6. IsFiniteSet(S)
      <3>1. IsFiniteSet(live)
        <4> DEFINE g == [n \in 1..Len(file.code) |-> file.code[n].address]
        <4>1. DOMAIN file.code = 1..Len(file.code) /\ Len(file.code) \in Nat
          OBVIOUS
        <4>2. IsFiniteSet(1..Len(file.code))
          BY <4>1, FS_Interval
        <4>3. g \in Surjection(1..Len(file.code), live)
          BY <4>1 DEF Surjection
        <4> QED
          BY <4>2, <4>3, FS_Surjection
      <3> QED
        BY <3>1, FS_Subset
    <2>7. Cardinality(S) = Cardinality(join.derivedFrom)
      <3>1. ExistsBijection(S, join.derivedFrom)
        BY <2>5 DEF ExistsBijection
      <3> QED
        BY <2>6, <3>1, FS_Bijection
    <2> QED
      BY <1>3, <2>7
  <1>10. join.unlinked = {}
    BY <1>3, <1>4 DEF Created, Cloned
  <1>11. file.trace.unwrapped = live \ made
    <2>1. {c.address : c \in Range(creations)} = Created(origin)
      <3>1. \A x : x \in {c.address : c \in Range(creations)} <=>
                   \E n \in 1..Len(creations) : creations[n].address = x
        BY <1>1 DEF Range
      <3>2. \A x : (\E n \in 1..Len(creations) : creations[n].address = x) <=> x \in Created(origin)
        BY DEF Listed
      <3> QED
        BY <3>1, <3>2
    <2>2. Cloned(origin) \subseteq allocated
      BY DEF Listed
    <2>3. live \ Created(origin) = live \cap Cloned(origin)
      BY <1>3 DEF Created, Cloned
    <2> QED
      BY <1>3, <2>1, <2>2, <2>3
  <1> HIDE DEF live, made
  <1>12. \A n \in DOMAIN file.code : \A e \in Range(file.trace.creations) :
           <<file.code[n].address, e.sequence>> \in join.createdBy => e.opcode = file.code[n].opcode
    BY <1>6
  <1> QED
    BY <1>5, <1>8, <1>9, <1>10, <1>11, <1>12 DEF Linked, join, live, made

LEMMA LinkedStays ==
    ASSUME NEW origin, NEW file, Linked(file, origin), Addresses(file.code) \subseteq DOMAIN origin,
           NEW address, address \notin DOMAIN origin, NEW source,
           NEW more, more = WithOrigin(origin, address, source)
    PROVE  Linked(file, more) /\ Addresses(file.code) \subseteq DOMAIN more
  <1> DEFINE live == {file.code[n].address : n \in DOMAIN file.code}
  <1>1. \A a \in live : more[a] = origin[a] /\ a \in DOMAIN more
    BY DEF WithOrigin, Addresses
  <1>2. {a \in live : more[a] = 0} = {a \in live : origin[a] = 0}
    BY <1>1
  <1>3. {<<a, more[a]>> : a \in live \ {x \in live : more[x] = 0}} =
          {<<a, origin[a]>> : a \in live \ {x \in live : origin[x] = 0}}
    BY <1>1, <1>2
  <1>4. Addresses(file.code) \subseteq DOMAIN more
    BY <1>1 DEF Addresses
  <1> QED
    BY <1>2, <1>3, <1>4 DEF Linked

LEMMA ListedAdded ==
    ASSUME NEW T, NEW events \in Seq(T), NEW addresses, Listed(events, addresses),
           NEW e \in T, e.sequence = Len(events), e.address \notin addresses,
           NEW more, more = Append(events, e)
    PROVE  Listed(more, addresses \cup {e.address})
  <1> DEFINE N == Len(events)
  <1>1. /\ N \in Nat /\ Len(more) = N + 1 /\ more[N + 1] = e
        /\ \A n \in 1..N : more[n] = events[n]
        /\ \A n \in 1..(N + 1) : n = N + 1 \/ n \in 1..N
        /\ \A n \in 1..N : n \in 1..(N + 1)
        /\ N + 1 \in 1..(N + 1)
    OBVIOUS
  <1> HIDE DEF N
  <1>2. \A n \in 1..N : events[n].sequence = n - 1 /\ events[n].address \in addresses
    BY DEF Listed, N
  <1>3. ASSUME NEW n \in 1..(N + 1)
        PROVE  more[n].sequence = n - 1 /\ more[n].address \in addresses \cup {e.address}
    BY <1>1, <1>2 DEF N
  <1>4. ASSUME NEW a \in addresses \cup {e.address}
        PROVE  \E n \in 1..(N + 1) : more[n].address = a
    <2>1. CASE a = e.address
      BY <1>1, <2>1
    <2>2. CASE a \in addresses
      <3>1. PICK n \in 1..N : events[n].address = a
        BY <2>2 DEF Listed, N
      <3> QED
        BY <1>1, <3>1
    <2> QED
      BY <2>1, <2>2
  <1>5. ASSUME NEW m \in 1..(N + 1), NEW n \in 1..(N + 1), more[m].address = more[n].address
        PROVE  m = n
    <2>1. \A i, j \in 1..N : events[i].address = events[j].address => i = j
      BY DEF Listed, N
    <2>2. CASE m \in 1..N /\ n \in 1..N
      BY <1>1, <1>5, <2>1, <2>2
    <2>3. CASE m = N + 1 /\ n \in 1..N
      BY <1>1, <1>2, <1>5, <2>3
    <2>4. CASE m \in 1..N /\ n = N + 1
      BY <1>1, <1>2, <1>5, <2>4
    <2> QED
      BY <1>1, <2>2, <2>3, <2>4
  <1> QED
    BY <1>1, <1>3, <1>4, <1>5 DEF Listed

LEMMA LinksUntouched ==
    ASSUME LinksInv, session'.capture = session.capture,
           session'.creations = session.creations, session'.clones = session.clones,
           session'.allocations = session.allocations,
           code' = code, heap' = heap, epoch' = epoch, facts'.origin = facts.origin,
           disk'.stage = disk.stage,
           call' = call \/ (call.kind \notin {"clone", "filled"} /\ call'.kind \notin {"clone", "filled"})
    PROVE  LinksInv'
  <1>1. Arena'
    BY DEF LinksInv, Arena
  <1>2. StagesLinked'
    BY DEF LinksInv, StagesLinked
  <1>3. session'.capture /\ epoch' # "frontend" => Recorded'
    BY DEF LinksInv, Recorded, Allocated
  <1> QED
    BY <1>1, <1>2, <1>3 DEF LinksInv

LEMMA ArenaReturns ==
    ASSUME Base, PendingInv, LinksInv, ReturnFromArena
    PROVE  LinksInv'
  <1>1. Shaped /\ IsSession(session) /\ DOMAIN session = DOMAIN NewSession
    BY DEF Base, Shaped, IsSession, Fields
  <1>2. /\ UNCHANGED <<code, epoch, facts, disk>> /\ heap' = heap + 1
        /\ session' = OnArenaReturn(session, heap)
    BY DEF ReturnFromArena
  <1>3. \/ /\ call.kind \in {"wrapper", "clone"}
           /\ call' = [kind |-> "filled", for |-> call, address |-> heap]
        \/ call.kind = "none" /\ call' = call
    BY DEF ReturnFromArena, Idle
  <1>4. Kept(session, session', {"allocations"})
    BY ShapedReturnFromArena DEF Base
  <1>5. /\ session'.capture = session.capture /\ session'.creations = session.creations
        /\ session'.clones = session.clones
    BY <1>4 DEF Kept, Fields, NewSession
  <1>6. heap \in Nat \ {0} /\ DOMAIN facts.origin \subseteq 1..(heap - 1)
    BY DEF LinksInv, Arena
  <1>7. Arena'
    <2>1. /\ heap' \in Nat \ {0} /\ 1..(heap - 1) \subseteq 1..(heap' - 1)
          /\ heap \in 1..(heap' - 1) /\ heap \notin DOMAIN facts.origin
      BY <1>2, <1>6
    <2> QED
      BY <1>2, <1>3, <2>1 DEF LinksInv, Arena
  <1>8. StagesLinked'
    BY <1>2 DEF LinksInv, StagesLinked
  <1>9. ASSUME session.capture, epoch # "frontend" PROVE Recorded'
    <2> DEFINE N == Len(session.allocations)
               e == [sequence |-> N, address |-> heap]
    <2>1. Recorded
      BY <1>9 DEF LinksInv
    <2>2. session.allocations \in Seq(AllocationEvent) /\ N \in Nat
      BY <2>1 DEF Recorded
    <2>3. \/ session'.allocations = session.allocations
          \/ session'.allocations = Append(session.allocations, e)
      BY <1>1, <1>2 DEF OnArenaReturn, Log, NewSession
    <2>4. e \in AllocationEvent /\ e.address = heap
      BY <1>6, <2>2 DEF AllocationEvent
    <2> HIDE DEF e
    <2>5. session'.allocations \in Seq(AllocationEvent)
      BY <2>2, <2>3, <2>4
    <2>6. ASSUME NEW a, Allocated(a) PROVE Allocated(a)'
      <3>1. PICK n \in 1..N : session.allocations[n].address = a
        BY <2>6 DEF Allocated
      <3>2. n \in 1..Len(session'.allocations) /\ session'.allocations[n] = session.allocations[n]
        BY <2>2, <2>3
      <3> QED
        BY <3>1, <3>2 DEF Allocated
    <2>7. ASSUME call.kind = "clone"
          PROVE  \E n \in 1..Len(session'.allocations) : session'.allocations[n].address = heap
      <3>1. session.tracing /\ session.epoch = "backend_optimization"
        BY <1>1, <1>9, <2>7 DEF PendingInv, PendingFits, Shaped, EpochsOf, Base, Timeline
      <3>2. session'.allocations = Append(session.allocations, e)
        BY <1>1, <1>2, <1>9, <3>1 DEF OnArenaReturn, Optimizing, Log, NewSession, e
      <3>3. N + 1 \in 1..Len(session'.allocations) /\ session'.allocations[N + 1] = e
        BY <2>2, <3>2
      <3> QED
        BY <2>4, <3>3
    <2>8. (call.kind = "filled" /\ call.for.kind = "clone" => Allocated(call.address))'
      <3>1. CASE call.kind = "none" /\ call' = call
        BY <3>1 DEF Allocated
      <3>2. CASE call.kind \in {"wrapper", "clone"}
                 /\ call' = [kind |-> "filled", for |-> call, address |-> heap]
        <4>1. call'.for = call /\ call'.address = heap
          BY <3>2
        <4> QED
          BY <3>2, <4>1, <2>7 DEF Allocated
      <3> QED
        BY <1>3, <3>1, <3>2
    <2>9. (\A n \in 1..Len(session.clones) : Allocated(session.clones[n].address))'
      BY <1>5, <2>1, <2>6 DEF Recorded
    <2> QED
      BY <1>2, <1>5, <2>1, <2>5, <2>8, <2>9 DEF Recorded
  <1> QED
    BY <1>2, <1>5, <1>7, <1>8, <1>9 DEF LinksInv

LEMMA CodeAdded ==
    ASSUME Base, LinksInv, NEW instruction, code' = Append(code, instruction),
           NEW source, facts'.origin = WithOrigin(facts.origin, call.address, source),
           instruction.address = call.address, call.kind = "filled", call'.kind = "none",
           UNCHANGED <<epoch, heap, disk>>, epoch # "frontend"
    PROVE  Arena' /\ StagesLinked'
  <1>1. /\ heap \in Nat \ {0} /\ DOMAIN facts.origin \subseteq 1..(heap - 1)
        /\ call.address \in 1..(heap - 1) /\ call.address \notin DOMAIN facts.origin
        /\ \A n \in DOMAIN code : code[n].address \in DOMAIN facts.origin
    BY DEF LinksInv, Arena
  <1>2. DOMAIN facts'.origin = DOMAIN facts.origin \cup {call.address}
    BY DEF WithOrigin
  <1>3. \A n \in DOMAIN code' : code'[n].address \in DOMAIN facts'.origin
    <2>1. code \in Seq(Instruction)
      BY DEF Base, Shaped
    <2>2. \A n \in DOMAIN code' : code'[n] = instruction \/ (n \in DOMAIN code /\ code'[n] = code[n])
      BY <2>1
    <2> QED
      BY <1>1, <1>2, <2>2
  <1>4. Arena'
    BY <1>1, <1>2, <1>3 DEF Arena
  <1>5. StagesLinked'
    <2>1. ASSUME NEW n \in DOMAIN disk.stage
          PROVE  /\ Addresses(disk.stage[n].code) \subseteq DOMAIN facts'.origin
                 /\ Linked(disk.stage[n], facts'.origin)
      BY <1>1, LinkedStays DEF LinksInv, StagesLinked
    <2> QED
      BY <2>1 DEF StagesLinked
  <1> QED
    BY <1>4, <1>5

LEMMA BuilderReturns ==
    ASSUME Base, PendingInv, LinksInv, NEW registers \in BuiltRegisters, ReturnBuilder(registers)
    PROVE  LinksInv'
  <1> DEFINE instruction == [address |-> call.address, opcode |-> call.for.opcode,
                             registers |-> registers]
  <1>1. Shaped /\ IsSession(session) /\ DOMAIN session = DOMAIN NewSession
    BY DEF Base, Shaped, IsSession, Fields
  <1>2. /\ call.kind = "filled" /\ call.for.kind = "wrapper" /\ call'.kind = "none"
        /\ UNCHANGED <<epoch, heap, disk>>
        /\ session' = OnBuilderReturn(session, instruction) /\ code' = Append(code, instruction)
        /\ instruction.address = call.address /\ instruction.opcode = call.for.opcode
    BY DEF ReturnBuilder, Idle
  <1> HIDE DEF instruction
  <1>3. facts'.origin = WithOrigin(facts.origin, call.address, 0)
    BY <1>1 DEF ReturnBuilder, Shaped
  <1>4. Kept(session, session', {"pendingCreations", "raised", "creations"})
    BY <1>1, BuiltRegistersAreTyped, ShapedReturnBuilder
  <1>5. /\ session'.capture = session.capture /\ session'.allocations = session.allocations
        /\ session'.clones = session.clones
    BY <1>4 DEF Kept, Fields, NewSession
  <1>6. epoch # "frontend"
    BY <1>1, <1>2 DEF Shaped, EpochsOf
  <1>7. call.for.opcode \in Opcodes /\ call.address \in Nat
    BY <1>1, <1>2, OperationKinds DEF Shaped, Wrappers, Clones
  <1>8. Arena' /\ StagesLinked'
    BY <1>2, <1>3, <1>6, CodeAdded
  <1>9. ASSUME session.capture PROVE Recorded'
    <2> DEFINE N == Len(session.creations)
               e == [sequence |-> N, epoch |-> session.epoch, opcode |-> call.for.opcode,
                     address |-> call.address]
    <2>1. Recorded
      BY <1>6, <1>9 DEF LinksInv
    <2>2. session.creations \in Seq(CreationEvent) /\ N \in Nat
      BY <2>1 DEF Recorded
    <2>3. e \in CreationEvent /\ e.sequence = N /\ e.address = call.address
          /\ e.opcode = call.for.opcode
      BY <1>7, <2>2 DEF CreationEvent, Base, Shaped, Timeline, EpochNames
    <2>4. session'.creations = Append(session.creations, e)
      <3>1. session.pendingCreations = <<Begun(call.for.opcode)>>
        BY <1>2, <1>9 DEF PendingInv, PendingFits
      <3>2. Last(session.pendingCreations) = Begun(call.for.opcode) /\ session.pendingCreations # <<>>
        BY <3>1, OneEntry
      <3>3. Begun(call.for.opcode).opcode = instruction.opcode
        BY <1>2 DEF Begun
      <3>4. session'.creations =
              Append(session.creations, [[Begun(call.for.opcode) EXCEPT !.address = call.address]
                                           EXCEPT !.sequence = N])
        BY <1>1, <1>2, <1>9, <3>2, <3>3 DEF OnBuilderReturn, Log, NewSession
      <3>5. [Begun(call.for.opcode) EXCEPT !.address = call.address] =
              [sequence |-> 0, epoch |-> session.epoch, opcode |-> call.for.opcode,
               address |-> call.address]
        BY DEF Begun
      <3>6. [[sequence |-> 0, epoch |-> session.epoch, opcode |-> call.for.opcode,
              address |-> call.address] EXCEPT !.sequence = N] = e
        OBVIOUS
      <3> QED
        BY <3>4, <3>5, <3>6
    <2> HIDE DEF e
    <2>5. /\ call.address \notin DOMAIN facts.origin
          /\ \A n \in DOMAIN code : code[n].address \in DOMAIN facts.origin
      BY <1>2 DEF LinksInv, Arena
    <2>6. /\ Created(facts'.origin) = Created(facts.origin) \cup {call.address}
          /\ Cloned(facts'.origin) = Cloned(facts.origin)
          /\ \A x \in DOMAIN facts.origin : facts'.origin[x] = facts.origin[x]
      <3>1. /\ DOMAIN facts'.origin = DOMAIN facts.origin \cup {call.address}
            /\ facts'.origin[call.address] = 0
            /\ \A x \in DOMAIN facts.origin : facts'.origin[x] = facts.origin[x]
        BY <1>3, <2>5 DEF WithOrigin
      <3> QED
        BY <2>5, <3>1 DEF Created, Cloned
    <2>7. session'.creations \in Seq(CreationEvent)
      BY <2>2, <2>3, <2>4
    <2>8. Listed(session'.creations, Created(facts'.origin))
      <3>1. e.address \notin Created(facts.origin) /\ Listed(session.creations, Created(facts.origin))
        BY <2>1, <2>3, <2>5 DEF Created, Recorded
      <3>2. Listed(session'.creations, Created(facts.origin) \cup {e.address})
        BY <2>2, <2>3, <2>4, <3>1, ListedAdded
      <3> QED
        BY <2>3, <2>6, <3>2
    <2>9. SameOpcodes(session'.creations, code')
      <3> SUFFICES ASSUME NEW n \in 1..Len(session'.creations), NEW k \in DOMAIN code',
                          session'.creations[n].address = code'[k].address
                   PROVE  session'.creations[n].opcode = code'[k].opcode
        BY DEF SameOpcodes
      <3>1. session'.creations[n] = e \/ (n \in 1..N /\ session'.creations[n] = session.creations[n])
        BY <2>2, <2>4
      <3>2. code'[k] = instruction \/ (k \in DOMAIN code /\ code'[k] = code[k])
        BY <1>1, <1>2 DEF Shaped
      <3>3. \A m \in 1..N : session.creations[m].address \in DOMAIN facts.origin
        BY <2>1 DEF Recorded, Listed, Created
      <3>4. \A m \in 1..N, j \in DOMAIN code :
              session.creations[m].address = code[j].address =>
                session.creations[m].opcode = code[j].opcode
        BY <2>1 DEF Recorded, SameOpcodes
      <3> QED
        BY <1>2, <2>3, <2>5, <3>1, <3>2, <3>3, <3>4
    <2>10. /\ Listed(session'.clones, Cloned(facts'.origin)) /\ session'.clones \in Seq(CloneEvent)
           /\ session'.allocations \in Seq(AllocationEvent)
      BY <1>5, <2>1, <2>6 DEF Recorded
    <2>11. \A n \in 1..Len(session'.clones) :
             session'.clones[n].source = facts'.origin[session'.clones[n].address]
      <3>1. \A n \in 1..Len(session.clones) : session.clones[n].address \in DOMAIN facts.origin
        BY <2>1 DEF Recorded, Listed, Cloned
      <3> QED
        BY <1>5, <2>1, <2>6, <3>1 DEF Recorded
    <2>12. (\A n \in 1..Len(session.clones) : Allocated(session.clones[n].address))'
      BY <1>5, <2>1 DEF Recorded, Allocated
    <2> QED
      BY <1>2, <2>7, <2>8, <2>9, <2>10, <2>11, <2>12 DEF Recorded
  <1> QED
    BY <1>5, <1>8, <1>9 DEF LinksInv

LEMMA CloneReturns ==
    ASSUME Base, PendingInv, LinksInv, ReturnClone
    PROVE  LinksInv'
  <1> DEFINE instruction == [call.for.of EXCEPT !.address = call.address]
             source == call.for.of.address
  <1>1. Shaped /\ IsSession(session) /\ DOMAIN session = DOMAIN NewSession
    BY DEF Base, Shaped, IsSession, Fields
  <1>2. call.kind = "filled" /\ call.for.kind = "clone" /\ call.for \in Clones
        /\ call.for.of \in Instruction /\ call.address \in Nat /\ source \in Nat
    BY <1>1, OperationKinds DEF ReturnClone, Shaped, Wrappers, Clones, Instruction
  <1>3. /\ call'.kind = "none" /\ UNCHANGED <<epoch, heap, disk>>
        /\ session' = OnCloneReturn(session, call.address) /\ code' = Append(code, instruction)
        /\ instruction.address = call.address
    BY <1>2 DEF ReturnClone, Idle, Instruction
  <1> HIDE DEF instruction
  <1>4. facts'.origin = WithOrigin(facts.origin, call.address, source)
    BY <1>1 DEF ReturnClone, Shaped
  <1>5. Kept(session, session', {"pendingClones", "clones"})
    BY <1>1, ShapedReturnClone
  <1>6. /\ session'.capture = session.capture /\ session'.allocations = session.allocations
        /\ session'.creations = session.creations
    BY <1>5 DEF Kept, Fields, NewSession
  <1>7. epoch = "backend_optimization"
    BY <1>1, <1>2 DEF Shaped, EpochsOf
  <1>8. /\ call.address \notin DOMAIN facts.origin /\ source # 0
        /\ \A n \in DOMAIN code : code[n].address \in DOMAIN facts.origin
    <2>1. source \in DOMAIN facts.origin /\ DOMAIN facts.origin \subseteq 1..(heap - 1)
      BY <1>2 DEF LinksInv, Arena
    <2>2. source # 0
      BY <2>1
    <2> QED
      BY <1>2, <2>2 DEF LinksInv, Arena
  <1> HIDE DEF source
  <1>9. Arena' /\ StagesLinked'
    BY <1>2, <1>3, <1>4, <1>7, CodeAdded
  <1>10. ASSUME session.capture PROVE Recorded'
    <2> DEFINE N == Len(session.clones)
               e == [sequence |-> N, source |-> source, address |-> call.address]
    <2>1. Recorded
      BY <1>7, <1>10 DEF LinksInv
    <2>2. session.clones \in Seq(CloneEvent) /\ N \in Nat
      BY <2>1 DEF Recorded
    <2>3. e \in CloneEvent /\ e.sequence = N /\ e.address = call.address /\ e.source = source
      BY <1>2, <2>2 DEF CloneEvent
    <2>4. session'.clones = Append(session.clones, e)
      <3>1. session.pendingClones = <<Cloning(source)>> /\ session.tracing
        BY <1>2, <1>7, <1>10 DEF PendingInv, PendingFits, source
      <3>2. Last(session.pendingClones) = Cloning(source) /\ session.pendingClones # <<>>
        BY <3>1, OneEntry
      <3>3. session'.clones =
              Append(session.clones, [[Cloning(source) EXCEPT !.address = call.address]
                                           EXCEPT !.sequence = N])
        BY <1>1, <1>3, <1>10, <3>1, <3>2 DEF OnCloneReturn, Log, NewSession
      <3>4. [Cloning(source) EXCEPT !.address = call.address] =
              [sequence |-> 0, source |-> source, address |-> call.address]
        BY DEF Cloning
      <3>5. [[sequence |-> 0, source |-> source, address |-> call.address] EXCEPT !.sequence = N] = e
        OBVIOUS
      <3> QED
        BY <3>3, <3>4, <3>5
    <2> HIDE DEF e
    <2>5. /\ Cloned(facts'.origin) = Cloned(facts.origin) \cup {call.address}
          /\ Created(facts'.origin) = Created(facts.origin)
          /\ \A x \in DOMAIN facts.origin : facts'.origin[x] = facts.origin[x]
          /\ facts'.origin[call.address] = source
      <3>1. /\ DOMAIN facts'.origin = DOMAIN facts.origin \cup {call.address}
            /\ facts'.origin[call.address] = source
            /\ \A x \in DOMAIN facts.origin : facts'.origin[x] = facts.origin[x]
        BY <1>4, <1>8 DEF WithOrigin
      <3> QED
        BY <1>8, <3>1 DEF Created, Cloned
    <2>6. session'.clones \in Seq(CloneEvent)
      BY <2>2, <2>3, <2>4
    <2>7. Listed(session'.clones, Cloned(facts'.origin))
      <3>1. e.address \notin Cloned(facts.origin) /\ Listed(session.clones, Cloned(facts.origin))
        BY <1>8, <2>1, <2>3 DEF Cloned, Recorded
      <3>2. Listed(session'.clones, Cloned(facts.origin) \cup {e.address})
        BY <2>2, <2>3, <2>4, <3>1, ListedAdded
      <3> QED
        BY <2>3, <2>5, <3>2
    <2>8. ASSUME NEW n \in 1..Len(session'.clones)
          PROVE  session'.clones[n] = e \/ (n \in 1..N /\ session'.clones[n] = session.clones[n])
      BY <2>2, <2>4
    <2>9. \A n \in 1..Len(session'.clones) :
            session'.clones[n].source = facts'.origin[session'.clones[n].address]
      <3>1. \A n \in 1..N : session.clones[n].address \in DOMAIN facts.origin
        BY <2>1 DEF Recorded, Listed, Cloned
      <3>2. \A n \in 1..N : session.clones[n].source = facts.origin[session.clones[n].address]
        BY <2>1 DEF Recorded
      <3> QED
        BY <2>3, <2>5, <2>8, <3>1, <3>2
    <2>10. (\A n \in 1..Len(session.clones) : Allocated(session.clones[n].address))'
      <3>1. \A n \in 1..N : Allocated(session.clones[n].address)
        BY <2>1 DEF Recorded
      <3>2. Allocated(call.address)
        BY <1>2, <2>1 DEF Recorded
      <3> QED
        BY <1>6, <2>3, <2>8, <3>1, <3>2 DEF Allocated
    <2>11. SameOpcodes(session'.creations, code')
      <3> SUFFICES ASSUME NEW n \in 1..Len(session.creations), NEW k \in DOMAIN code',
                          session.creations[n].address = code'[k].address
                   PROVE  session.creations[n].opcode = code'[k].opcode
        BY <1>6 DEF SameOpcodes
      <3>1. code'[k] = instruction \/ (k \in DOMAIN code /\ code'[k] = code[k])
        BY <1>1, <1>3 DEF Shaped
      <3>2. session.creations[n].address \in DOMAIN facts.origin
        BY <2>1 DEF Recorded, Listed, Created
      <3>3. \A m \in 1..Len(session.creations), j \in DOMAIN code :
              session.creations[m].address = code[j].address =>
                session.creations[m].opcode = code[j].opcode
        BY <2>1 DEF Recorded, SameOpcodes
      <3> QED
        BY <1>3, <1>8, <3>1, <3>2, <3>3
    <2>12. /\ Listed(session'.creations, Created(facts'.origin))
           /\ session'.creations \in Seq(CreationEvent)
           /\ session'.allocations \in Seq(AllocationEvent)
      BY <1>6, <2>1, <2>5 DEF Recorded
    <2> QED
      BY <1>3, <2>6, <2>7, <2>9, <2>10, <2>11, <2>12 DEF Recorded
  <1> QED
    BY <1>6, <1>9, <1>10 DEF LinksInv

LEMMA StageIsLinked ==
    ASSUME Base, PendingInv, LinksInv, session.capture, epoch # "frontend", call.kind = "none",
           NEW file, file.code = code, file.trace.creations = session.creations,
           file.trace.clones = session.clones,
           file.trace.pending = Len(session.pendingCreations) + Len(session.pendingClones),
           file.trace.unwrapped =
             {a.address : a \in Range(session.allocations)}
               \cap ({code[n].address : n \in DOMAIN code}
                     \ {c.address : c \in Range(session.creations)})
    PROVE  Addresses(file.code) \subseteq DOMAIN facts.origin /\ Linked(file, facts.origin)
  <1> DEFINE allocated == {a.address : a \in Range(session.allocations)}
  <1>1. Recorded
    BY DEF LinksInv
  <1>2. file.trace.pending = 0
    <2>1. session.pendingCreations = <<>> /\ session.pendingClones = <<>>
      BY DEF PendingInv, PendingFits
    <2> QED
      BY <2>1
  <1>3. Addresses(code) \subseteq DOMAIN facts.origin
    BY DEF Addresses, LinksInv, Arena
  <1>4. ASSUME NEW n \in 1..Len(session.clones) PROVE session.clones[n].address \in allocated
    <2>1. PICK m \in 1..Len(session.allocations) :
            session.allocations[m].address = session.clones[n].address
      BY <1>1 DEF Recorded, Allocated
    <2>2. session.allocations[m] \in Range(session.allocations)
      BY <1>1 DEF Range, Recorded
    <2> QED
      BY <2>1, <2>2
  <1>5. code \in Seq(Instruction)
    BY DEF Base, Shaped
  <1>6. file.trace.unwrapped =
          allocated \cap (Addresses(file.code) \ {c.address : c \in Range(session.creations)})
    BY DEF Addresses
  <1> HIDE DEF allocated
  <1>7. /\ session.creations \in Seq(CreationEvent) /\ session.clones \in Seq(CloneEvent)
        /\ Listed(session.creations, Created(facts.origin)) /\ SameOpcodes(session.creations, code)
        /\ Listed(session.clones, Cloned(facts.origin))
        /\ \A n \in 1..Len(session.clones) :
             session.clones[n].source = facts.origin[session.clones[n].address]
    BY <1>1 DEF Recorded
  <1>8. Linked(file, facts.origin)
    BY <1>2, <1>3, <1>4, <1>5, <1>6, <1>7, LinkedFile
  <1> QED
    BY <1>3, <1>8

LEMMA LinksClose ==
    ASSUME Base, PendingInv, LinksInv, epoch # "frontend", epoch' # "frontend",
           call.kind = "none", call' = call, code' = code, heap' = heap, facts'.origin = facts.origin,
           session'.capture = session.capture, session'.creations = session.creations,
           session'.clones = session.clones, session'.allocations = session.allocations,
           NEW file, file.code = code, file.trace.creations = session.creations,
           file.trace.clones = session.clones,
           file.trace.pending = Len(session.pendingCreations) + Len(session.pendingClones),
           file.trace.unwrapped =
             {a.address : a \in Range(session.allocations)}
               \cap ({code[n].address : n \in DOMAIN code}
                     \ {c.address : c \in Range(session.creations)}),
           disk'.stage = IF session.capture THEN <<file>> ELSE disk.stage
    PROVE  LinksInv'
  <1>1. Arena'
    BY DEF LinksInv, Arena
  <1>2. session'.capture => Recorded'
    BY DEF LinksInv, Recorded, Allocated
  <1>3. StagesLinked'
    <2>1. CASE ~session.capture
      BY <2>1 DEF LinksInv, StagesLinked
    <2>2. CASE session.capture
      <3>1. Addresses(file.code) \subseteq DOMAIN facts.origin /\ Linked(file, facts.origin)
        BY <2>2, StageIsLinked
      <3>2. \A n \in DOMAIN disk'.stage : disk'.stage[n] = file
        BY <2>2
      <3> QED
        BY <3>1, <3>2 DEF StagesLinked
    <2> QED
      BY <2>1, <2>2 DEF Base, Timeline
  <1> QED
    BY <1>1, <1>2, <1>3 DEF LinksInv

LEMMA LinksEnd ==
    ASSUME Base, PendingInv, LinksInv, EndEpoch
    PROVE  LinksInv'
  <1> DEFINE file == StageFile(session, Stage(epoch))
  <1>1. /\ call.kind = "none" /\ call' = call /\ code' = code /\ heap' = heap
        /\ epoch # "frontend" /\ epoch' # "frontend" /\ facts' = facts
    BY AfterEpoch DEF EndEpoch, Idle, Base, Shaped, EpochNames
  <1>2. Kept(session, session', {"boundaries", "previous", "raised", "motion",
                                 "pendingMotion", "epoch", "tracing"})
    BY ShapedEndEpoch DEF Base
  <1>3. /\ session'.capture = session.capture /\ session'.creations = session.creations
        /\ session'.clones = session.clones /\ session'.allocations = session.allocations
    BY <1>2 DEF Kept, Fields, NewSession
  <1>4. disk'.stage = IF session.capture THEN <<file>> ELSE disk.stage
    BY DEF EndEpoch, WithStage, Base, Shaped
  <1>5. /\ file.code = code /\ file.trace.creations = session.creations
        /\ file.trace.clones = session.clones
        /\ file.trace.pending = Len(session.pendingCreations) + Len(session.pendingClones)
        /\ file.trace.unwrapped =
             {a.address : a \in Range(session.allocations)}
               \cap ({code[n].address : n \in DOMAIN code}
                     \ {c.address : c \in Range(session.creations)})
    BY DEF StageFile, CreationTrace, RecordBoundary, Base, Shaped, IsSession, Fields, NewSession
  <1> HIDE DEF file
  <1> QED
    BY <1>1, <1>3, <1>4, <1>5, LinksClose

LEMMA LinksAllocate ==
    ASSUME Base, PendingInv, LinksInv, EnterAllocateRegisters
    PROVE  LinksInv'
  <1> DEFINE file == [phase |-> "allocator", capture |-> session'.index,
                      identity |-> session'.identity, counts |-> counts, code |-> code,
                      trace |-> CreationTrace(session', code)]
  <1>1. /\ call.kind = "none" /\ call' = call /\ code' = code /\ heap' = heap
        /\ epoch = "register_allocation" /\ epoch' = epoch /\ session.active
    BY FunctionsAssumption DEF EnterAllocateRegisters, Idle, Base, Shaped, Timeline
  <1>2. Kept(session, session', {"attempts", "boundaries", "previous", "raised"})
    BY <1>1, ShapedEnterAllocateRegisters DEF Base
  <1>3. /\ session'.capture = session.capture /\ session'.creations = session.creations
        /\ session'.clones = session.clones /\ session'.allocations = session.allocations
        /\ session'.pendingCreations = session.pendingCreations
        /\ session'.pendingClones = session.pendingClones
    BY <1>2 DEF Kept, Fields, NewSession
  <1>4. disk'.stage = IF session.capture THEN <<file>> ELSE disk.stage
    BY <1>3 DEF EnterAllocateRegisters, Base, Shaped
  <1>5. /\ file.code = code /\ file.trace.creations = session.creations
        /\ file.trace.clones = session.clones
        /\ file.trace.pending = Len(session.pendingCreations) + Len(session.pendingClones)
        /\ file.trace.unwrapped =
             {a.address : a \in Range(session.allocations)}
               \cap ({code[n].address : n \in DOMAIN code}
                     \ {c.address : c \in Range(session.creations)})
    BY <1>3 DEF CreationTrace
  <1>6. facts'.origin = facts.origin
    BY SelectLeaves DEF SelectActions
  <1> HIDE DEF file
  <1> QED
    BY <1>1, <1>3, <1>4, <1>5, <1>6, LinksClose

LEMMA LinksCode ==
    ASSUME Base, PendingInv, LinksInv, CodeActions
    PROVE  LinksInv'
  <1>1. Inside(CodeFields) /\ Shaped
    BY CodeInside DEF Base
  <1>2. /\ epoch' = epoch /\ session'.capture = session.capture
    BY <1>1 DEF Inside, Kept, Fields, NewSession, CodeFields
  <1>3. ASSUME NEW opcode \in Opcodes, EnterWrapper(opcode) PROVE LinksInv'
    <2>1. /\ call.kind = "none" /\ call'.kind = "wrapper" /\ UNCHANGED <<code, heap, facts, disk>>
      BY <1>3 DEF EnterWrapper, Idle
    <2>2. Kept(session, session', {"pendingCreations"})
      BY <1>1, <1>3, ShapedEnterWrapper
    <2>3. /\ session'.creations = session.creations /\ session'.clones = session.clones
          /\ session'.allocations = session.allocations
      BY <2>2 DEF Kept, Fields, NewSession
    <2> QED
      BY <1>2, <2>1, <2>3, LinksUntouched
  <1>4. CASE \/ ReturnObjectRegister
             \/ \E c \in Classes : \/ DirectRegister(c)
                                   \/ \E width \in 1..2 : EnterObjectRegister(c, width)
    <2>1. /\ call.kind \notin {"clone", "filled"} /\ call'.kind \notin {"clone", "filled"}
          /\ UNCHANGED <<code, heap, facts, disk>>
      BY <1>4 DEF ReturnObjectRegister, DirectRegister, EnterObjectRegister, Idle
    <2>2. Kept(session, session', {"registers", "frontend", "objectEvent"})
      BY <1>1, <1>4, ShapedReturnObjectRegister, ShapedDirectRegister, ShapedEnterObjectRegister, FewerKept
    <2>3. /\ session'.creations = session.creations /\ session'.clones = session.clones
          /\ session'.allocations = session.allocations
      BY <2>2 DEF Kept, Fields, NewSession
    <2> QED
      BY <1>2, <2>1, <2>3, LinksUntouched
  <1>5. ASSUME NEW n \in DOMAIN code, EnterClone(n) PROVE LinksInv'
    <2>1. /\ call.kind = "none" /\ call'.kind = "clone" /\ call'.of = code[n]
          /\ UNCHANGED <<code, heap, facts, disk>>
      BY <1>5 DEF EnterClone, Idle
    <2>2. Kept(session, session', {"pendingClones"})
      BY <1>1, <1>5, ShapedEnterClone
    <2>3. /\ session'.creations = session.creations /\ session'.clones = session.clones
          /\ session'.allocations = session.allocations
      BY <2>2 DEF Kept, Fields, NewSession
    <2>4. Arena'
      BY <1>2, <2>1 DEF LinksInv, Arena
    <2>5. StagesLinked'
      BY <2>1 DEF LinksInv, StagesLinked
    <2>6. session.capture /\ epoch # "frontend" => Recorded'
      BY <2>1, <2>3 DEF LinksInv, Recorded, Allocated
    <2> QED
      BY <1>2, <2>4, <2>5, <2>6 DEF LinksInv
  <1>6. ASSUME NEW n \in DOMAIN code, Unlink(n) PROVE LinksInv'
    <2>1. /\ call.kind = "none" /\ call' = call /\ code' = RemoveAt(code, n)
          /\ UNCHANGED <<heap, facts, disk, session>>
      BY <1>6 DEF Unlink, Idle
    <2>2. \A k \in DOMAIN code' : \E m \in DOMAIN code : code'[k] = code[m]
      <3>1. code \in Seq(Instruction)
        BY <1>1 DEF Shaped
      <3> QED
        BY <2>1, <3>1, RemovedAt
    <2>3. epoch # "frontend"
      BY <1>6 DEF Unlink
    <2>4. Arena'
      BY <1>2, <2>1, <2>2, <2>3 DEF LinksInv, Arena
    <2>5. StagesLinked'
      BY <2>1 DEF LinksInv, StagesLinked
    <2>6. ASSUME session.capture PROVE Recorded'
      <3>1. Recorded
        BY <2>3, <2>6 DEF LinksInv
      <3>2. SameOpcodes(session.creations, code')
        BY <2>2, <3>1 DEF Recorded, SameOpcodes
      <3> QED
        BY <2>1, <3>1, <3>2 DEF Recorded, Allocated
    <2> QED
      BY <1>2, <2>4, <2>5, <2>6 DEF LinksInv
  <1> QED
    BY <1>3, <1>4, <1>5, <1>6, ArenaReturns, BuilderReturns, CloneReturns DEF CodeActions

LEMMA LinksInit == CaptureInit => LinksInv
  <1> SUFFICES ASSUME CaptureInit PROVE LinksInv
    OBVIOUS
  <1>1. /\ call.kind = "none" /\ epoch = "final" /\ code = <<>> /\ heap = 1
        /\ facts.origin = <<>> /\ disk.stage = <<>> /\ ~session.capture
    BY DEF CaptureInit, Idle, NewSession
  <1> QED
    BY <1>1 DEF LinksInv, Arena, StagesLinked

LEMMA LinksStep == ASSUME Base, PendingInv, LinksInv, [CaptureNext]_captureVars PROVE LinksInv'
  <1>1. CASE UNCHANGED captureVars
    BY <1>1, LinksUntouched DEF captureVars, compiler
  <1>2. CASE MotionActions \/ FrameActions
    <2>1. /\ call.kind \notin {"clone", "filled"} /\ call'.kind \notin {"clone", "filled"}
          /\ code' = code /\ heap' = heap /\ facts'.origin = facts.origin /\ disk'.stage = disk.stage
      BY <1>2, MotionLeaves, FrameLeaves DEF MotionFootprint
    <2>2. PICK F \in {MotionFields, FrameFields} : Inside(F)
      BY <1>2, MotionInside, FrameInside
    <2>3. /\ epoch' = epoch /\ session'.capture = session.capture
          /\ session'.creations = session.creations /\ session'.clones = session.clones
          /\ session'.allocations = session.allocations
      BY <2>2 DEF Inside, Kept, Fields, NewSession, MotionFields, FrameFields
    <2> QED
      BY <2>1, <2>3, LinksUntouched
  <1>3. CASE ReturnSelect \/ \E c \in Classes, graph \in Graphs : Select(c, graph)
    <2>1. SelectActions
      BY <1>3 DEF SelectActions
    <2>2. /\ call.kind \notin {"clone", "filled"} /\ call'.kind \notin {"clone", "filled"}
          /\ code' = code /\ heap' = heap /\ facts'.origin = facts.origin
      BY <2>1, SelectLeaves
    <2>3. disk'.stage = disk.stage
      BY <1>3 DEF ReturnSelect, Select, WithColoring, Base, Shaped
    <2>4. Inside(SelectFields)
      BY <2>1, SelectInside
    <2>5. /\ epoch' = epoch /\ session'.capture = session.capture
          /\ session'.creations = session.creations /\ session'.clones = session.clones
          /\ session'.allocations = session.allocations
      BY <2>4 DEF Inside, Kept, Fields, NewSession, SelectFields
    <2> QED
      BY <2>2, <2>3, <2>5, LinksUntouched
  <1>4. CASE ResetCounters
    <2>1. /\ epoch' = "frontend" /\ call.kind = "none" /\ call' = call /\ code' = <<>> /\ heap' = 1
          /\ facts'.origin = <<>> /\ disk'.stage = <<>>
      BY <1>4, NoCallsOutside DEF ResetCounters, Base, Shaped
    <2> QED
      BY <2>1 DEF LinksInv, Arena, StagesLinked
  <1>5. CASE EnterCodeGen
    <2>1. /\ epoch = "frontend" /\ epoch' = "initial_lowering" /\ call.kind = "none" /\ call' = call
          /\ UNCHANGED <<code, heap, facts, disk>>
      BY <1>5, NoCallsOutside DEF EnterCodeGen, Base
    <2>2. /\ session'.creations = <<>> /\ session'.clones = <<>> /\ session'.allocations = <<>>
      BY <1>5 DEF EnterCodeGen, BeginFunction, NewSession
    <2>3. code = <<>> /\ DOMAIN facts.origin = {}
      BY <2>1 DEF LinksInv, Arena
    <2>4. Arena' /\ StagesLinked'
      BY <2>1 DEF LinksInv, Arena, StagesLinked
    <2>5. Recorded'
      <3>1. Created(facts'.origin) = {} /\ Cloned(facts'.origin) = {}
        BY <2>1, <2>3 DEF Created, Cloned
      <3>2. \A n \in 1..Len(<<>>) : FALSE
        OBVIOUS
      <3>3. Listed(<<>>, {})
        BY <3>2 DEF Listed
      <3> QED
        BY <2>1, <2>2, <2>3, <3>1, <3>2, <3>3 DEF Recorded, SameOpcodes
    <2> QED
      BY <2>4, <2>5 DEF LinksInv
  <1>6. CASE CaptureNext
    BY <1>2, <1>3, <1>4, <1>5, <1>6, ActionGroups, LinksCode, LinksEnd, LinksAllocate
       DEF Base, SelectActions
  <1> QED
    BY <1>1, <1>6

(* Every instruction of a captured stage is linked to its own creation or  *)
(* to the clone that made it, and to nothing else.                         *)
THEOREM LinksHold == CaptureSpec => []LinksAreExact
  <1> DEFINE I == Base /\ PendingInv /\ LinksInv
  <1>1. CaptureInit => I
    BY BaseInit, PendingInit, LinksInit
  <1>2. I /\ [CaptureNext]_captureVars => I'
    BY BaseStep, WaitingStep, LinksStep
  <1>3. I => LinksAreExact
    <2> SUFFICES ASSUME I PROVE LinksAreExact
      OBVIOUS
    <2>1. \A file \in Range(disk.stage) : Linked(file, facts.origin)
      BY DEF LinksInv, StagesLinked, Range
    <2>2. \A file \in Range(disk.stage) : Current(file) => Linked(file, facts.origin)
      BY <2>1
    <2> QED
      BY <2>2 DEF LinksAreExact, Linked
  <1> QED
    BY <1>1, <1>2, <1>3, PTL DEF CaptureSpec

(***************************************************************************)
(* The frame.  The slots recorded lie one behind the other below the       *)
(* cursor, and with the locals still waiting they are the homes of the     *)
(* function.                                                               *)
(***************************************************************************)
SlotEvent == [sequence : Nat, object : Nat \ {0}, type : Nat, size : Nat \ {0}, before : Nat,
              alignment : Nat, slot : Nat, after : Nat]

FrameState == [linkage : Nat, outgoing : Nat]

FrameTrace == [capture : Nat, allocations : Seq(SlotEvent), checkpoints : Seq(FrameState)]

Geometry(e) ==
  /\ IsPowerOfTwo(e.alignment) /\ e.slot >= e.before /\ e.slot % e.alignment = 0
  /\ e.after = e.slot + e.size

Homes(events) ==
  /\ events \in Seq(SlotEvent)
  /\ \A n \in 1..Len(events) : events[n].sequence = n - 1 /\ Geometry(events[n])
  /\ \A m, n \in 1..Len(events) : m < n => events[m].after <= events[n].before

ObjectsIn(list) == {list[n].object : n \in DOMAIN list}

HomedObjects(locals) == {l.object : l \in {m \in Range(locals) : Homed(m)}}

WaitingObjects ==
  IF call.kind = "homing" THEN ObjectsIn(call.rest)
  ELSE IF call.kind = "slot" THEN {call.of.object} \cup ObjectsIn(call.rest)
  ELSE {}

FrameRecorded ==
  /\ Homes(session.slots)
  /\ \A n \in 1..Len(session.slots) : session.slots[n].after <= frame.cursor
  /\ {<<e.object, e.slot>> : e \in Range(session.slots)} = frame.slots
  /\ session.checkpoints \in Seq(FrameState)
  /\ call.kind = "frame" => session.checkpoints # <<>>
  /\ "homed" \notin facts.done => session.slots = <<>> /\ disk.homes = <<>>
  /\ "homed" \in facts.done =>
       /\ disk.homes = <<left.locals>>
       /\ ObjectsIn(session.slots) \cup WaitingObjects = HomedObjects(left.locals)
(* The counters are never below what the boundary before recorded.         *)
CountersAhead ==
  /\ session.previous \in [Classes -> Nat]
  /\ \A c \in Classes : session.previous[c] <= counts[c]

FramesFiled ==
  /\ disk.frames \in Seq(FrameTrace)
  /\ \A n \in 1..Len(disk.frames) :
       LET f == disk.frames[n]
       IN  /\ Homes(f.allocations) /\ f.checkpoints # <<>> /\ f.capture <= function
           /\ f.capture = function =>
                /\ session.capture /\ epoch \notin {"frontend", "initial_lowering"}
                /\ f.allocations = session.slots

FrameInv ==
  /\ ~session.raised
  /\ frame.cursor \in Nat /\ \E b \in Budgets : left.locals = b.locals
  /\ epoch = "frontend" => frame.slots = {} /\ disk.homes = <<>> /\ facts.done = {}
  /\ FramesFiled
  /\ call.kind \in {"homing", "slot"} => "homed" \in facts.done
  /\ session.capture /\ epoch # "frontend" => FrameRecorded /\ CountersAhead

Framing == {"homing", "slot", "frame"}

LEMMA SlotForFits ==
    ASSUME NEW cursor \in Nat, NEW alignment \in Nat, IsPowerOfTwo(alignment)
    PROVE  /\ SlotFor(cursor, alignment) \in Nat /\ SlotFor(cursor, alignment) >= cursor
           /\ SlotFor(cursor, alignment) % alignment = 0
  <1>1. alignment \in {1, 2, 4, 8, 16, 32, 64, 128}
    BY DEF IsPowerOfTwo
  <1>2. CASE alignment = 1
    BY <1>2 DEF SlotFor
  <1>3. CASE alignment = 2
    BY <1>3 DEF SlotFor
  <1>4. CASE alignment = 4
    BY <1>4 DEF SlotFor
  <1>5. CASE alignment = 8
    BY <1>5 DEF SlotFor
  <1>6. CASE alignment = 16
    BY <1>6 DEF SlotFor
  <1>7. CASE alignment = 32
    BY <1>7 DEF SlotFor
  <1>8. CASE alignment = 64
    BY <1>8 DEF SlotFor
  <1>9. CASE alignment = 128
    BY <1>9 DEF SlotFor
  <1> QED
    BY <1>1, <1>2, <1>3, <1>4, <1>5, <1>6, <1>7, <1>8, <1>9

LEMMA HomeAdded ==
    ASSUME NEW events, Homes(events), NEW e \in SlotEvent, e.sequence = Len(events), Geometry(e),
           \A n \in 1..Len(events) : events[n].after <= e.before,
           NEW more, more = Append(events, e)
    PROVE  Homes(more)
  <1> DEFINE N == Len(events)
  <1>1. events \in Seq(SlotEvent) /\ N \in Nat
    BY DEF Homes
  <1>2. /\ more \in Seq(SlotEvent) /\ Len(more) = N + 1 /\ more[N + 1] = e
        /\ \A n \in 1..N : more[n] = events[n]
    BY <1>1
  <1>3. \A n \in 1..(N + 1) : n \in 1..N \/ n = N + 1
    BY <1>1
  <1>4. \A n \in 1..N : events[n].sequence = n - 1 /\ Geometry(events[n])
    BY DEF Homes
  <1>5. \A m, n \in 1..N : m < n => events[m].after <= events[n].before
    BY DEF Homes
  <1> HIDE DEF N
  <1>6. ASSUME NEW n \in 1..(N + 1) PROVE more[n].sequence = n - 1 /\ Geometry(more[n])
    BY <1>1, <1>2, <1>3, <1>4 DEF N
  <1>7. ASSUME NEW m \in 1..(N + 1), NEW n \in 1..(N + 1), m < n
        PROVE  more[m].after <= more[n].before
    <2>1. m \in 1..N
      BY <1>1, <1>7
    <2>2. CASE n \in 1..N
      BY <1>2, <1>5, <1>7, <2>1, <2>2
    <2>3. CASE n = N + 1
      BY <1>2, <2>1, <2>3 DEF N
    <2> QED
      BY <1>3, <2>2, <2>3
  <1> QED
    BY <1>2, <1>6, <1>7 DEF Homes

LEMMA HomesAreApart ==
    ASSUME NEW events, Homes(events), NEW d \in Range(events), NEW e \in Range(events), d # e
    PROVE  d.after <= e.slot \/ e.after <= d.slot
  <1>1. events \in Seq(SlotEvent)
    BY DEF Homes
  <1>2. PICK m, n \in 1..Len(events) : d = events[m] /\ e = events[n]
    BY <1>1 DEF Range
  <1>3. d \in SlotEvent /\ e \in SlotEvent
    BY <1>1, <1>2
  <1>4. d.before <= d.slot /\ e.before <= e.slot
    BY <1>2 DEF Homes, Geometry
  <1>5. /\ d.before \in Nat /\ d.slot \in Nat /\ d.after \in Nat
        /\ e.before \in Nat /\ e.slot \in Nat /\ e.after \in Nat
    BY <1>3 DEF SlotEvent
  <1>6. m < n \/ n < m
    BY <1>1, <1>2
  <1>7. /\ m < n => d.after <= e.before
        /\ n < m => e.after <= d.before
    BY <1>2 DEF Homes
  <1> QED
    BY <1>4, <1>5, <1>6, <1>7

LEMMA HomesAreValid ==
    ASSUME NEW f \in FrameTrace, Homes(f.allocations), f.checkpoints # <<>>
    PROVE  ValidTrace(f)
  <1>1. f.allocations \in Seq(SlotEvent) /\ DOMAIN f.allocations = 1..Len(f.allocations)
    BY DEF Homes
  <1>2. f.checkpoints \in Seq(FrameState)
    BY DEF FrameTrace
  <1>3. Len(f.checkpoints) > 0
    BY <1>2
  <1>4. ASSUME NEW n \in DOMAIN f.allocations
        PROVE  /\ f.allocations[n].sequence = n - 1
               /\ IsPowerOfTwo(f.allocations[n].alignment)
               /\ f.allocations[n].slot >= f.allocations[n].before
               /\ f.allocations[n].slot % f.allocations[n].alignment = 0
               /\ f.allocations[n].after = f.allocations[n].slot + f.allocations[n].size
    BY <1>1 DEF Homes, Geometry
  <1> QED
    BY <1>3, <1>4 DEF ValidTrace

(* A comparison pairs an object with one object.                           *)
LEMMA MatchedOnce ==
    ASSUME NEW f, NEW g, NEW uses,
           f.allocations \in Seq(SlotEvent), g.allocations \in Seq(SlotEvent),
           NEW p \in CompareTraces(f, g, uses, uses).matched,
           NEW q \in CompareTraces(f, g, uses, uses).matched
    PROVE  p.before = q.before <=> p.after = q.after
  <1> DEFINE sign(e) == SemanticSignature(e, uses)
             olds == Range(f.allocations)
             news == Range(g.allocations)
             old == [s \in {sign(e) : e \in olds} |-> {e \in olds : sign(e) = s}]
             new == [s \in {sign(e) : e \in news} |-> {e \in news : sign(e) = s}]
             single == {s \in DOMAIN old \cap DOMAIN new :
                          Cardinality(old[s]) = 1 /\ Cardinality(new[s]) = 1}
             paired(o, n) == [before |-> o, after |-> n,
                              delta |-> (n.slot + LocalBandBase(g)) - (o.slot + LocalBandBase(f))]
  <1>1. GroupBySignature(f, uses) = old /\ GroupBySignature(g, uses) = new
    BY DEF GroupBySignature
  <1>2. CompareTraces(f, g, uses, uses).matched =
          UNION {{paired(o, n) : o \in old[s], n \in new[s]} : s \in single}
    <2> HIDE DEF old, new
    <2>1. CompareTraces(f, g, uses, uses).matched =
            LET a == GroupBySignature(f, uses)
                b == GroupBySignature(g, uses)
            IN  UNION {{paired(o, n) : o \in a[s], n \in b[s]} :
                         s \in {t \in DOMAIN a \cap DOMAIN b :
                                  Cardinality(a[t]) = 1 /\ Cardinality(b[t]) = 1}}
      BY DEF CompareTraces
    <2> QED
      BY <1>1, <2>1
  <1>3. IsFiniteSet(olds) /\ IsFiniteSet(news)
    <2>1. ASSUME NEW U, NEW list \in Seq(U) PROVE IsFiniteSet(Range(list))
      <3>0. Len(list) \in Nat
        OBVIOUS
      <3>1. IsFiniteSet(1..Len(list))
        <4>1. ASSUME NEW n \in Nat PROVE IsFiniteSet(1..n)
          <5>1. 1 \in Int /\ n \in Int
            OBVIOUS
          <5> QED
            BY ONLY <5>1, FS_Interval
        <4> QED
          BY ONLY <3>0, <4>1
      <3>2. list \in Surjection(1..Len(list), Range(list))
        BY DEF Surjection, Range
      <3> QED
        BY <3>1, <3>2, FS_Surjection
    <2> QED
      BY <2>1
  <1> HIDE DEF sign, olds, news, paired
  <1>14. /\ \A s \in DOMAIN old : old[s] = {e \in olds : sign(e) = s}
         /\ \A s \in DOMAIN new : new[s] = {e \in news : sign(e) = s}
    OBVIOUS
  <1> HIDE DEF old, new
  <1>15. \A s \in single : /\ s \in DOMAIN old /\ Cardinality(old[s]) = 1
                           /\ s \in DOMAIN new /\ Cardinality(new[s]) = 1
    OBVIOUS
  <1> HIDE DEF single
  <1>16. /\ \A s \in single : old[s] \subseteq olds /\ \A o \in old[s] : sign(o) = s
         /\ \A s \in single : new[s] \subseteq news /\ \A n \in new[s] : sign(n) = s
    BY <1>14, <1>15
  <1>17. ASSUME NEW U, IsFiniteSet(U), Cardinality(U) = 1, NEW x \in U, NEW y \in U PROVE x = y
    BY <1>17, FS_Singleton
  <1>4. ASSUME NEW s \in single, NEW x \in old[s], NEW y \in old[s] PROVE x = y
    <2>1. IsFiniteSet(old[s])
      BY <1>3, <1>16, FS_Subset
    <2> QED
      BY <2>1, <1>15, <1>17
  <1>5. ASSUME NEW s \in single, NEW x \in new[s], NEW y \in new[s] PROVE x = y
    <2>1. IsFiniteSet(new[s])
      BY <1>3, <1>16, FS_Subset
    <2> QED
      BY <2>1, <1>15, <1>17
  <1>6. /\ \A s \in single : \A o \in old[s] : sign(o) = s
        /\ \A s \in single : \A n \in new[s] : sign(n) = s
    BY <1>16
  <1>7. PICK s \in single : p \in {paired(o, n) : o \in old[s], n \in new[s]}
    BY <1>2
  <1>8. PICK t \in single : q \in {paired(o, n) : o \in old[t], n \in new[t]}
    BY <1>2
  <1>9. PICK o \in old[s], n \in new[s] : p = paired(o, n)
    BY <1>7
  <1>10. PICK d \in old[t], e \in new[t] : q = paired(d, e)
    BY <1>8
  <1>11. p.before = o /\ p.after = n /\ q.before = d /\ q.after = e
    BY <1>9, <1>10 DEF paired
  <1>12. o = d => n = e
    BY <1>5, <1>6
  <1>13. n = e => o = d
    BY <1>4, <1>6
  <1> QED
    BY <1>11, <1>12, <1>13

LEMMA FrameUntouched ==
    ASSUME FrameInv, function' = function, frame' = frame, left'.locals = left.locals,
           session'.capture = session.capture, session'.slots = session.slots,
           session'.checkpoints = session.checkpoints,
           disk'.homes = disk.homes, disk'.frames = disk.frames,
           epoch' = "frontend" <=> epoch = "frontend",
           epoch' = "initial_lowering" => epoch = "initial_lowering",
           epoch' = "frontend" => facts'.done = facts.done,
           "homed" \in facts'.done <=> "homed" \in facts.done,
           call' = call \/ (call.kind \notin Framing /\ call'.kind \notin Framing),
           ~session'.raised,
           session'.capture /\ epoch' # "frontend" => CountersAhead'
    PROVE  FrameInv'
  <1>1. FramesFiled'
    BY DEF FrameInv, FramesFiled
  <1>2. session.capture /\ epoch # "frontend" => FrameRecorded'
    <2>1. WaitingObjects' = WaitingObjects
      BY DEF WaitingObjects, Framing
    <2>2. call'.kind = "frame" => call.kind = "frame"
      BY DEF Framing
    <2> QED
      BY <2>1, <2>2 DEF FrameInv, FrameRecorded
  <1>3. call'.kind \in {"homing", "slot"} => "homed" \in facts'.done
    BY DEF FrameInv, Framing
  <1> QED
    BY <1>1, <1>2, <1>3 DEF FrameInv

LEMMA AheadInside ==
    ASSUME Base, FrameInv, epoch' = epoch, session'.capture = session.capture,
           session'.previous = session.previous,
           counts' \in [Classes -> Nat], \A c \in Classes : counts'[c] >= counts[c]
    PROVE  session'.capture /\ epoch' # "frontend" => CountersAhead'
  <1> SUFFICES ASSUME session.capture, epoch # "frontend" PROVE CountersAhead'
    OBVIOUS
  <1>1. session.previous \in [Classes -> Nat] /\ counts \in [Classes -> Nat]
    BY DEF FrameInv, CountersAhead, Base, Shaped
  <1>2. \A c \in Classes : session.previous[c] <= counts[c]
    BY DEF FrameInv, CountersAhead
  <1>3. \A c \in Classes : session.previous[c] <= counts'[c]
    BY <1>1, <1>2
  <1> QED
    BY <1>1, <1>3 DEF CountersAhead

LEMMA NotBackward ==
    ASSUME Base, CountersAhead
    PROVE  ~MovedBackward(counts, session.previous)
  <1>1. counts \in [Classes -> Nat] /\ session.previous \in [Classes -> Nat]
    BY DEF Base, Shaped, CountersAhead
  <1> QED
    BY <1>1 DEF MovedBackward, CountersAhead

LEMMA FrameCode ==
    ASSUME Base, PendingInv, FrameInv, CodeActions
    PROVE  FrameInv'
  <1>1. Inside(CodeFields) /\ CodeFootprint
    BY CodeInside, CodeLeaves
  <1>2. /\ epoch' = epoch /\ function' = function /\ session'.capture = session.capture
        /\ session'.slots = session.slots /\ session'.checkpoints = session.checkpoints
        /\ session'.previous = session.previous
    BY <1>1 DEF Inside, Kept, Fields, NewSession, CodeFields
  <1>3. counts' \in [Classes -> Nat]
    BY CodeInside DEF Shaped
  <1>4. \A c \in Classes : counts'[c] >= counts[c]
    <2>1. counts \in [Classes -> Nat]
      BY DEF Base, Shaped
    <2>2. CASE ReturnObjectRegister
      <3>1. call.class \in Classes /\ call.width \in 1..2
        BY <2>2, OperationKinds DEF ReturnObjectRegister, Base, Shaped
      <3> QED
        BY <2>1, <2>2, <3>1 DEF ReturnObjectRegister
    <2>3. ASSUME NEW d \in Classes, DirectRegister(d) PROVE \A c \in Classes : counts'[c] >= counts[c]
      BY <2>1, <2>3 DEF DirectRegister
    <2>4. CASE counts' = counts
      BY <2>1, <2>4
    <2> QED
      BY <2>2, <2>3, <2>4 DEF CodeActions, ReturnFromArena, ReturnClone, EnterObjectRegister,
         EnterWrapper, ReturnBuilder, EnterClone, Unlink
  <1>5. ~session'.raised
    <2>1. ~session.raised
      BY DEF FrameInv
    <2>2. Shaped /\ DOMAIN session = DOMAIN NewSession
      BY DEF Base, Shaped, IsSession, Fields
    <2>3. ASSUME NEW registers \in BuiltRegisters, ReturnBuilder(registers) PROVE ~session'.raised
      <3>1. PICK i : /\ session' = OnBuilderReturn(session, i) /\ i.opcode = call.for.opcode
                     /\ call.kind = "filled" /\ call.for.kind = "wrapper"
        BY <2>3 DEF ReturnBuilder
      <3>2. CASE ~session.capture
        BY <2>1, <3>1, <3>2 DEF OnBuilderReturn
      <3>3. CASE session.capture
        <4>1. session.pendingCreations = <<Begun(call.for.opcode)>>
          BY <3>1, <3>3 DEF PendingInv, PendingFits
        <4>2. Last(session.pendingCreations).opcode = i.opcode /\ session.pendingCreations # <<>>
          BY <3>1, <4>1, OneEntry DEF Begun
        <4>3. session' = [session EXCEPT
                 !.pendingCreations = Front(@),
                 !.creations = Log(@, [Last(session.pendingCreations) EXCEPT !.address = i.address])]
          BY <3>1, <3>3, <4>2 DEF OnBuilderReturn
        <4> QED
          BY <2>1, <2>2, <4>3 DEF NewSession
      <3> QED
        BY <3>2, <3>3
    <2>4. ASSUME NEW F, Kept(session, session', F), "raised" \notin F PROVE ~session'.raised
      BY <2>1, <2>4 DEF Kept, Fields, NewSession
    <2>5. CASE \/ ReturnFromArena \/ ReturnClone \/ ReturnObjectRegister
               \/ \E c \in Classes : \/ DirectRegister(c)
                                     \/ \E width \in 1..2 : EnterObjectRegister(c, width)
               \/ \E opcode \in Opcodes : EnterWrapper(opcode)
               \/ \E n \in DOMAIN code : EnterClone(n) \/ Unlink(n)
      <3>1. \/ Kept(session, session', {"allocations"})
            \/ Kept(session, session', {"pendingClones", "clones"})
            \/ Kept(session, session', {"registers", "objectEvent"})
            \/ Kept(session, session', {"registers", "frontend"})
            \/ Kept(session, session', {"objectEvent"})
            \/ Kept(session, session', {"pendingCreations"})
            \/ Kept(session, session', {"pendingClones"})
            \/ session' = session
        BY <2>2, <2>5, ShapedReturnFromArena, ShapedReturnClone, ShapedReturnObjectRegister,
           ShapedDirectRegister, ShapedEnterObjectRegister, ShapedEnterWrapper, ShapedEnterClone,
           ShapedUnlink
      <3> QED
        BY <2>1, <2>4, <3>1
    <2> QED
      BY <2>3, <2>5 DEF CodeActions
  <1>6. session'.capture /\ epoch' # "frontend" => CountersAhead'
    BY <1>2, <1>3, <1>4, AheadInside
  <1>7. call.kind \notin Framing /\ call'.kind \notin Framing
    BY <1>1 DEF CodeFootprint, Framing
  <1> QED
    BY <1>1, <1>2, <1>5, <1>6, <1>7, FrameUntouched DEF CodeFootprint

LEMMA FrameBoundary ==
    ASSUME Base, FrameInv, epoch # "frontend", session.capture,
           counts' = counts, session'.previous = counts,
           session'.raised = (session.raised \/ MovedBackward(counts, session.previous))
    PROVE  ~session'.raised /\ CountersAhead'
  <1>1. CountersAhead /\ ~session.raised
    BY DEF FrameInv
  <1>2. counts \in [Classes -> Nat]
    BY DEF Base, Shaped
  <1>3. ~MovedBackward(counts, session.previous)
    BY <1>1, NotBackward
  <1>4. ~session'.raised
    BY <1>1, <1>3, Zenon
  <1>5. CountersAhead'
    <2>1. \A c \in Classes : counts[c] <= counts[c]
      BY <1>2
    <2> QED
      BY <1>2, <2>1 DEF CountersAhead
  <1> QED
    BY <1>4, <1>5

LEMMA FrameMotion ==
    ASSUME Base, FrameInv, MotionActions
    PROVE  FrameInv'
  <1>1. Inside(MotionFields) /\ MotionFootprint
    BY MotionInside, MotionLeaves
  <1>2. /\ epoch' = epoch /\ function' = function /\ session'.capture = session.capture
        /\ session'.slots = session.slots /\ session'.checkpoints = session.checkpoints
        /\ session'.previous = session.previous /\ session'.raised = session.raised
    BY <1>1 DEF Inside, Kept, Fields, NewSession, MotionFields
  <1>3. session'.capture /\ epoch' # "frontend" => CountersAhead'
    BY <1>1, <1>2 DEF FrameInv, CountersAhead, MotionFootprint
  <1>4. call.kind \notin Framing /\ call'.kind \notin Framing /\ ~session'.raised
    BY <1>1, <1>2 DEF MotionFootprint, Framing, FrameInv
  <1> QED
    BY <1>1, <1>2, <1>3, <1>4, FrameUntouched DEF MotionFootprint

LEMMA FrameSelect ==
    ASSUME Base, FrameInv, SelectActions
    PROVE  FrameInv'
  <1>1. Inside(SelectFields)
    BY SelectInside
  <1>2. /\ UNCHANGED <<counts, frame>> /\ left'.locals = left.locals
        /\ disk'.homes = disk.homes /\ disk'.frames = disk.frames
        /\ call.kind \in {"none", "select"} /\ call'.kind \in {"none", "select"}
        /\ epoch = "register_allocation"
    BY SelectLeaves
  <1>3. /\ epoch' = epoch /\ function' = function /\ session'.capture = session.capture
        /\ session'.slots = session.slots /\ session'.checkpoints = session.checkpoints
    BY <1>1 DEF Inside, Kept, Fields, NewSession, SelectFields
  <1>4. DOMAIN session = DOMAIN NewSession /\ DOMAIN facts = {"origin", "moves", "selections", "done"}
    BY DEF Base, Shaped, IsSession, Fields
  <1>5. "homed" \in facts'.done <=> "homed" \in facts.done
    <2>1. CASE EnterAllocateRegisters
      BY <1>4, <2>1 DEF EnterAllocateRegisters
    <2>2. CASE facts'.done = facts.done
      BY <2>2
    <2> QED
      BY <1>4, <2>1, <2>2 DEF SelectActions, ReturnSelect, Select
  <1>6. ~session'.raised /\ (session'.capture /\ epoch' # "frontend" => CountersAhead')
    <2>1. CASE session'.raised = session.raised /\ session'.previous = session.previous
      BY <1>2, <1>3, <2>1 DEF FrameInv, CountersAhead
    <2>2. CASE EnterAllocateRegisters
      <3>1. session.active
        BY <2>2, FunctionsAssumption DEF EnterAllocateRegisters, Base, Timeline, Shaped
      <3>2. PICK identity : session' = OnAllocate(session, identity)
        BY <2>2 DEF EnterAllocateRegisters
      <3>3. CASE ~session.capture
        BY <2>1, <3>1, <3>2, <3>3 DEF OnAllocate
      <3>4. CASE session.capture
        <4>1. /\ session'.previous = counts
              /\ session'.raised = (session.raised \/ MovedBackward(counts, session.previous))
          BY <1>4, <3>1, <3>2, <3>4 DEF OnAllocate, RecordBoundary, NewSession
        <4> QED
          BY <1>2, <3>4, <4>1, FrameBoundary
      <3> QED
        BY <3>3, <3>4
    <2>3. CASE ReturnSelect
      <3>1. Kept(session, session', {"returns"})
        BY <2>3, ShapedReturnSelect DEF Base
      <3> QED
        BY <2>1, <3>1 DEF Kept, Fields, NewSession
    <2>4. ASSUME NEW c \in Classes, NEW graph \in Graphs, Select(c, graph)
          PROVE  session'.raised = session.raised /\ session'.previous = session.previous
      <3>1. Kept(session, session', {"attempts", "returns"})
        BY <2>4, ShapedSelect DEF Base
      <3> QED
        BY <3>1 DEF Kept, Fields, NewSession
    <2> QED
      BY <2>1, <2>2, <2>3, <2>4 DEF SelectActions
  <1>7. call.kind \notin Framing /\ call'.kind \notin Framing
    BY <1>2 DEF Framing
  <1>8. epoch # "frontend" /\ epoch # "initial_lowering"
    BY <1>2
  <1> QED
    BY <1>2, <1>3, <1>5, <1>6, <1>7, <1>8, FrameUntouched

LEMMA FrameEnds ==
    ASSUME Base, FrameInv, EndEpoch
    PROVE  FrameInv'
  <1>1. /\ UNCHANGED <<function, counts, call, left, frame, facts>> /\ epoch' = After(epoch)
        /\ epoch \in EpochNames \ {"frontend", "final"}
        /\ session' = OnStage(session, Stage(epoch), After(epoch))
        /\ disk' = WithStage(session, Stage(epoch))
    BY DEF EndEpoch, Base, Shaped
  <1>2. DOMAIN session = DOMAIN NewSession
        /\ DOMAIN disk = {"stage", "motion", "homes", "frames", "coloring"}
    BY DEF Base, Shaped, IsSession, Fields
  <1>3. Kept(session, session', {"boundaries", "previous", "raised", "motion",
                                 "pendingMotion", "epoch", "tracing"})
    BY ShapedEndEpoch DEF Base
  <1>4. /\ session'.capture = session.capture /\ session'.slots = session.slots
        /\ session'.checkpoints = session.checkpoints
    BY <1>3 DEF Kept, Fields, NewSession
  <1>5. disk'.homes = disk.homes /\ disk'.frames = disk.frames
    BY <1>1, <1>2 DEF WithStage
  <1>6. epoch' # "frontend" /\ epoch' # "initial_lowering"
    BY <1>1, AfterEpoch DEF EpochNames
  <1>7. ~session'.raised /\ (session'.capture /\ epoch' # "frontend" => CountersAhead')
    <2>1. CASE ~session.capture
      BY <1>1, <2>1 DEF OnStage, FrameInv
    <2>2. CASE session.capture
      <3>1. /\ session'.previous = counts
            /\ session'.raised = (session.raised \/ MovedBackward(counts, session.previous))
        BY <1>1, <1>2, <2>2 DEF OnStage, RecordBoundary, FinishMotion, NewSession
      <3> QED
        BY <1>1, <2>2, <3>1, FrameBoundary
    <2> QED
      BY <2>1, <2>2
  <1>8. epoch # "frontend"
    BY <1>1
  <1> QED
    BY <1>1, <1>4, <1>5, <1>6, <1>7, <1>8, FrameUntouched

LEMMA FrameReset ==
    ASSUME Base, FrameInv, ResetCounters
    PROVE  FrameInv'
  <1>1. /\ epoch = "final" /\ epoch' = "frontend" /\ function' = function + 1
        /\ left' \in Budgets /\ frame' = [cursor |-> 0, slots |-> {}] /\ facts'.done = {}
        /\ disk'.homes = <<>> /\ disk'.frames = disk.frames
        /\ call.kind = "none" /\ call' = call
    BY NoCallsOutside DEF ResetCounters, Base, Shaped
  <1>2. Kept(session, session', {"registers", "frontend"})
    BY ShapedResetCounters DEF Base
  <1>3. session'.raised = session.raised
    BY <1>2 DEF Kept, Fields, NewSession
  <1>4. function \in Nat
    BY FunctionsAssumption DEF Base, Shaped
  <1>5. FramesFiled'
    <2>1. \A n \in 1..Len(disk.frames) : disk.frames[n] \in FrameTrace /\ disk.frames[n].capture <= function
      BY DEF FrameInv, FramesFiled
    <2>2. \A n \in 1..Len(disk.frames) : disk.frames[n].capture \in Nat
      BY <2>1 DEF FrameTrace
    <2>3. \A n \in 1..Len(disk.frames) :
            disk.frames[n].capture <= function' /\ disk.frames[n].capture # function'
      BY <1>1, <1>4, <2>1, <2>2
    <2> QED
      BY <1>1, <2>3 DEF FrameInv, FramesFiled
  <1> QED
    BY <1>1, <1>3, <1>5 DEF FrameInv

LEMMA FrameEnters ==
    ASSUME Base, FrameInv, Allocating, EnterCodeGen
    PROVE  FrameInv'
  <1>1. /\ UNCHANGED <<function, counts, call, left, frame, facts, disk>>
        /\ epoch = "frontend" /\ epoch' = "initial_lowering" /\ call.kind = "none"
    BY NoCallsOutside DEF EnterCodeGen, Base
  <1>2. /\ session'.raised = session.raised /\ session'.slots = <<>> /\ session'.checkpoints = <<>>
        /\ session'.previous = NoCounts
    BY DEF EnterCodeGen, BeginFunction, NewSession
  <1>3. CountersAhead'
    BY <1>1, <1>2, FirstVirtualAssumption DEF CountersAhead, NoCounts, Allocating
  <1>4. FramesFiled'
    BY <1>1 DEF FrameInv, FramesFiled
  <1>5. FrameRecorded'
    <2>1. frame.slots = {} /\ disk.homes = <<>> /\ facts.done = {} /\ frame.cursor \in Nat
      BY <1>1 DEF FrameInv
    <2>2. Homes(<<>>) /\ Range(<<>>) = {} /\ <<>> \in Seq(FrameState) /\ \A n \in 1..Len(<<>>) : FALSE
      BY DEF Homes, Range
    <2>3. /\ session'.slots = <<>> /\ session'.checkpoints = <<>> /\ frame'.slots = {}
          /\ facts'.done = {} /\ disk'.homes = <<>> /\ call'.kind = "none"
      BY <1>1, <1>2, <2>1
    <2>4. {<<e.object, e.slot>> : e \in Range(session'.slots)} = {}
      BY <2>2, <2>3
    <2> QED
      BY <2>2, <2>3, <2>4 DEF FrameRecorded
  <1> QED
    BY <1>1, <1>2, <1>3, <1>4, <1>5 DEF FrameInv

LEMMA FrameInit == CaptureInit => FrameInv
  <1> SUFFICES ASSUME CaptureInit PROVE FrameInv
    OBVIOUS
  <1>1. session.raised = FALSE /\ session.capture = FALSE
    BY DEF CaptureInit, NewSession
  <1>2. /\ frame.cursor = 0 /\ left \in Budgets /\ epoch = "final" /\ call.kind = "none"
        /\ disk.frames = <<>>
    BY DEF CaptureInit, Idle
  <1>3. FramesFiled
    BY <1>2 DEF FramesFiled
  <1> QED
    BY <1>1, <1>2, <1>3 DEF FrameInv

LEMMA FrameCommon ==
    ASSUME Base, FrameInv, FrameActions
    PROVE  /\ function' = function /\ epoch' = epoch /\ session'.capture = session.capture
           /\ left'.locals = left.locals /\ epoch # "frontend"
           /\ session.capture => CountersAhead'
  <1>1. Inside(FrameFields) /\ counts' = counts /\ left'.locals = left.locals
    BY FrameInside, FrameLeaves
  <1>2. /\ epoch' = epoch /\ function' = function /\ session'.capture = session.capture
        /\ session'.previous = session.previous
    BY <1>1 DEF Inside, Kept, Fields, NewSession, FrameFields
  <1>3. epoch # "frontend"
    <2>1. call.kind \in {"homing", "slot"} => epoch = "initial_lowering"
      BY DEF Base, Shaped, EpochsOf
    <2> QED
      BY <2>1 DEF FrameActions, EnterHomingLoop, EnterSlot, ReturnAlignment, ReturnSlot,
         LeaveHomingLoop, FrameCheckpoint
  <1> QED
    BY <1>1, <1>2, <1>3 DEF FrameInv, CountersAhead

LEMMA HomingStep ==
    ASSUME Base, FrameInv, FrameActions, epoch = "initial_lowering", disk'.frames = disk.frames,
           "homed" \in facts'.done, ~session'.raised, frame'.cursor \in Nat,
           session.capture => FrameRecorded'
    PROVE  FrameInv'
  <1>1. /\ function' = function /\ epoch' = epoch /\ session'.capture = session.capture
        /\ left'.locals = left.locals /\ (session.capture => CountersAhead')
    BY FrameCommon
  <1>2. FramesFiled'
    BY <1>1 DEF FrameInv, FramesFiled
  <1> QED
    BY <1>1, <1>2 DEF FrameInv

LEMMA HomedWithoutRegister ==
    ASSUME Base, FrameInv
    PROVE  ObjectsIn(WithoutRegister(left.locals)) = HomedObjects(left.locals)
  <1> DEFINE locals == left.locals
             kept == WithoutRegister(locals)
  <1>1. locals \in Seq(LocalRecord)
    BY DEF Base, Shaped
  <1>2. \A n \in DOMAIN locals : locals[n].register = 0 <=> Homed(locals[n])
    <2>1. PICK b \in Budgets : locals = b.locals
      BY DEF FrameInv
    <2>2. \A n \in DOMAIN b.locals : b.locals[n].register = 0 <=> Homed(b.locals[n])
      BY BudgetsAssumption DEF Homed
    <2> QED
      BY <2>1, <2>2
  <1>3. \A x : (\E n \in DOMAIN kept : kept[n] = x) <=> \E n \in DOMAIN locals : locals[n] = x /\ x.register = 0
    BY <1>1, WithoutRegisterIsExact
  <1>4. \A x : (\E n \in DOMAIN kept : kept[n] = x) <=> x \in {m \in Range(locals) : Homed(m)}
    BY <1>2, <1>3 DEF Range
  <1> HIDE DEF kept, locals
  <1>5. ASSUME NEW o PROVE o \in ObjectsIn(kept) <=> o \in HomedObjects(locals)
    <2>1. o \in ObjectsIn(kept) <=> \E n \in DOMAIN kept : kept[n].object = o
      BY DEF ObjectsIn
    <2>2. o \in HomedObjects(locals) <=> \E x \in {m \in Range(locals) : Homed(m)} : x.object = o
      BY DEF HomedObjects
    <2> QED
      BY <1>4, <2>1, <2>2
  <1> QED
    BY <1>5 DEF kept, locals

LEMMA FrameHomes ==
    ASSUME Base, FrameInv, EnterHomingLoop
    PROVE  FrameInv'
  <1>1. /\ epoch = "initial_lowering" /\ call.kind = "none" /\ "homed" \notin facts.done
        /\ UNCHANGED <<left, frame, session>>
        /\ call' = [kind |-> "homing", rest |-> WithoutRegister(left.locals)]
    BY DEF EnterHomingLoop, Idle
  <1>2. DOMAIN facts = {"origin", "moves", "selections", "done"}
        /\ DOMAIN disk = {"stage", "motion", "homes", "frames", "coloring"}
    BY DEF Base, Shaped
  <1>3. /\ "homed" \in facts'.done /\ disk'.frames = disk.frames
        /\ session.capture => disk'.homes = <<left.locals>>
    BY <1>2 DEF EnterHomingLoop
  <1>4. ASSUME session.capture PROVE FrameRecorded'
    <2>1. FrameRecorded /\ session.slots = <<>>
      BY <1>1, <1>4 DEF FrameInv, FrameRecorded
    <2>2. ObjectsIn(<<>>) = {}
      BY DEF ObjectsIn
    <2>3. WaitingObjects' = HomedObjects(left.locals)
      BY <1>1, HomedWithoutRegister DEF WaitingObjects
    <2>4. ObjectsIn(session'.slots) \cup WaitingObjects' = HomedObjects(left'.locals)
      BY <1>1, <2>1, <2>2, <2>3
    <2> QED
      BY <1>1, <1>3, <1>4, <2>1, <2>4 DEF FrameRecorded
  <1> QED
    BY <1>1, <1>3, <1>4, HomingStep DEF FrameInv, FrameActions

LEMMA ObjectsFrom ==
    ASSUME NEW list \in Seq(LocalRecord), list # <<>>
    PROVE  ObjectsIn(list) = {Head(list).object} \cup ObjectsIn(Tail(list))
  <1>1. /\ Len(list) \in Nat /\ Len(list) > 0 /\ Head(list) = list[1]
        /\ DOMAIN list = 1..Len(list) /\ DOMAIN Tail(list) = 1..(Len(list) - 1)
        /\ \A n \in 1..(Len(list) - 1) : Tail(list)[n] = list[n + 1]
    OBVIOUS
  <1>2. ASSUME NEW o PROVE o \in ObjectsIn(list) <=> o = list[1].object \/ o \in ObjectsIn(Tail(list))
    <2>1. ASSUME NEW n \in 1..Len(list), list[n].object = o, n # 1
          PROVE  n - 1 \in 1..(Len(list) - 1) /\ Tail(list)[n - 1].object = o
      BY <1>1, <2>1
    <2>2. ASSUME NEW n \in 1..(Len(list) - 1), Tail(list)[n].object = o
          PROVE  n + 1 \in 1..Len(list) /\ list[n + 1].object = o
      BY <1>1, <2>2
    <2>3. 1 \in 1..Len(list)
      BY <1>1
    <2> QED
      BY <1>1, <2>1, <2>2, <2>3 DEF ObjectsIn
  <1> QED
    BY <1>1, <1>2

LEMMA FrameSlotEnters ==
    ASSUME Base, PendingInv, FrameInv, EnterSlot
    PROVE  FrameInv'
  <1>1. /\ epoch = "initial_lowering" /\ call.kind = "homing" /\ call.rest # <<>>
        /\ call.rest \in Seq(LocalRecord)
        /\ UNCHANGED <<left, frame, facts, disk>> /\ session' = OnSlot(session, Head(call.rest))
        /\ call' = [kind |-> "slot", of |-> Head(call.rest), rest |-> Tail(call.rest), at |-> "entry"]
    BY OperationKinds DEF EnterSlot, Base, Shaped, EpochsOf
  <1>2. /\ "homed" \in facts.done /\ frame.cursor \in Nat /\ ~session.raised
    BY <1>1 DEF FrameInv
  <1>3. Kept(session, session', {"raised", "pendingSlot"}) /\ DOMAIN session = DOMAIN NewSession
    BY <1>1, FrameHandlers DEF Base, Shaped, IsSession, Fields
  <1>4. session'.slots = session.slots /\ session'.checkpoints = session.checkpoints
    BY <1>3 DEF Kept, Fields, NewSession
  <1>5. ~session'.raised
    <2>1. CASE ~session.capture
      BY <1>1, <1>2, <2>1 DEF OnSlot
    <2>2. CASE session.capture
      <3>1. session.pendingSlot = <<>>
        BY <1>1, <2>2 DEF PendingInv, PendingFits
      <3> QED
        BY <1>1, <1>2, <1>3, <2>2, <3>1 DEF OnSlot, NewSession
    <2> QED
      BY <2>1, <2>2
  <1>6. ASSUME session.capture PROVE FrameRecorded'
    <2>1. WaitingObjects = ObjectsIn(call.rest)
      BY <1>1 DEF WaitingObjects
    <2>2. WaitingObjects' = {Head(call.rest).object} \cup ObjectsIn(Tail(call.rest))
      BY <1>1 DEF WaitingObjects
    <2>3. WaitingObjects' = WaitingObjects
      BY <1>1, <2>1, <2>2, ObjectsFrom
    <2>4. FrameRecorded
      BY <1>1, <1>6 DEF FrameInv
    <2> QED
      BY <1>1, <1>4, <2>3, <2>4 DEF FrameRecorded
  <1> QED
    BY <1>1, <1>2, <1>5, <1>6, HomingStep DEF FrameActions

LEMMA FrameAligns ==
    ASSUME Base, FrameInv, ReturnAlignment
    PROVE  FrameInv'
  <1>1. /\ epoch = "initial_lowering" /\ call.kind = "slot"
        /\ call \in [kind : {"slot"}, of : LocalRecord, rest : Seq(LocalRecord),
                     at : {"entry", "aligned"}]
        /\ UNCHANGED <<left, frame, facts, disk>>
        /\ session' = OnAlignment(session, call.of.alignment)
        /\ call' = [call EXCEPT !.at = "aligned"]
    BY OperationKinds DEF ReturnAlignment, Base, Shaped, EpochsOf
  <1>2. call'.kind = "slot" /\ call'.of = call.of /\ call'.rest = call.rest
    BY <1>1
  <1>3. "homed" \in facts.done /\ frame.cursor \in Nat /\ ~session.raised
    BY <1>1 DEF FrameInv
  <1>4. Kept(session, session', {"pendingSlot"})
    BY <1>1, FrameHandlers DEF Base, Shaped
  <1>5. /\ session'.slots = session.slots /\ session'.checkpoints = session.checkpoints
        /\ session'.raised = session.raised
    BY <1>4 DEF Kept, Fields, NewSession
  <1>6. ASSUME session.capture PROVE FrameRecorded'
    <2>1. WaitingObjects' = WaitingObjects
      BY <1>1, <1>2 DEF WaitingObjects
    <2>2. FrameRecorded
      BY <1>1, <1>6 DEF FrameInv
    <2> QED
      BY <1>1, <1>2, <1>5, <2>1, <2>2 DEF FrameRecorded
  <1> QED
    BY <1>1, <1>3, <1>5, <1>6, HomingStep DEF FrameActions

LEMMA FrameLeavesLoop ==
    ASSUME Base, FrameInv, LeaveHomingLoop
    PROVE  FrameInv'
  <1>1. /\ epoch = "initial_lowering" /\ call.kind = "homing" /\ call.rest = <<>>
        /\ UNCHANGED <<left, frame, facts, disk, session>> /\ call'.kind = "none"
    BY DEF LeaveHomingLoop, Base, Shaped, EpochsOf, Idle
  <1>2. "homed" \in facts.done /\ frame.cursor \in Nat /\ ~session.raised
    BY <1>1 DEF FrameInv
  <1>3. ASSUME session.capture PROVE FrameRecorded'
    <2>1. WaitingObjects' = {} /\ WaitingObjects = {}
      BY <1>1 DEF WaitingObjects, ObjectsIn
    <2>2. FrameRecorded
      BY <1>1, <1>3 DEF FrameInv
    <2> QED
      BY <1>1, <2>1, <2>2 DEF FrameRecorded
  <1> QED
    BY <1>1, <1>2, <1>3, HomingStep DEF FrameActions

(* The event logged when the slot of a local is known.                     *)
Placing(l, b, a, s, n, k) ==
  [[Homing(l, b, a) EXCEPT !.slot = s, !.after = n] EXCEPT !.sequence = k]

LEMMA SlotRecord ==
    ASSUME NEW l, NEW b, NEW a, NEW s, NEW n, NEW k
    PROVE  Placing(l, b, a, s, n, k)
             = [sequence |-> k, object |-> l.object, type |-> l.type, size |-> l.size,
                before |-> b, alignment |-> a, slot |-> s, after |-> n]
  <1> DEFINE R(i, j, m) == [sequence |-> i, object |-> l.object, type |-> l.type, size |-> l.size,
                            before |-> b, alignment |-> a, slot |-> j, after |-> m]
  <1>1. [R(0, 0, 0) EXCEPT !.slot = s] = R(0, s, 0)
    OBVIOUS
  <1>2. [R(0, s, 0) EXCEPT !.after = n] = R(0, s, n)
    OBVIOUS
  <1>3. [R(0, s, n) EXCEPT !.sequence = k] = R(k, s, n)
    OBVIOUS
  <1>4. Homing(l, b, a) = R(0, 0, 0)
    BY DEF Homing
  <1> HIDE DEF R
  <1>5. [[Homing(l, b, a) EXCEPT !.slot = s, !.after = n] EXCEPT !.sequence = k] = R(k, s, n)
    BY <1>1, <1>2, <1>3, <1>4
  <1> QED
    BY <1>5 DEF R, Placing

LEMMA SlotLogged ==
    ASSUME Base, PendingInv, session.capture, call.kind = "slot", call.at = "aligned",
           call.of.alignment # 0, NEW slot, NEW next,
           session' = OnSlotReturn(session, slot, next)
    PROVE  /\ session'.slots = Append(session.slots,
                [sequence |-> Len(session.slots), object |-> call.of.object, type |-> call.of.type,
                 size |-> call.of.size, before |-> frame.cursor, alignment |-> call.of.alignment,
                 slot |-> slot, after |-> next])
           /\ ~session.raised => ~session'.raised
  <1> DEFINE p == Homing(call.of, frame.cursor, call.of.alignment)
             q == [p EXCEPT !.slot = slot, !.after = next]
             e == [sequence |-> Len(session.slots), object |-> call.of.object, type |-> call.of.type,
                   size |-> call.of.size, before |-> frame.cursor, alignment |-> call.of.alignment,
                   slot |-> slot, after |-> next]
  <1>1. session.pendingSlot = <<p>>
    BY DEF PendingInv, PendingFits
  <1>2. session.pendingSlot # <<>> /\ session.pendingSlot[1] = p
    BY <1>1, OneEntry
  <1>3. DOMAIN session = DOMAIN NewSession
    BY DEF Base, Shaped, IsSession, Fields
  <1>4. [q EXCEPT !.sequence = Len(session.slots)] = e
    <2>1. Placing(call.of, frame.cursor, call.of.alignment, slot, next, Len(session.slots)) = e
      BY SlotRecord
    <2> HIDE DEF e
    <2> QED
      BY <2>1 DEF Placing
  <1>5. p.alignment # 0
    BY DEF Homing
  <1> HIDE DEF p, e
  <1>6. session' = [session EXCEPT !.slots = Log(@, [session.pendingSlot[1] EXCEPT !.slot = slot, !.after = next]),
                                   !.raised = @ \/ session.pendingSlot[1].alignment = 0,
                                   !.pendingSlot = <<>>]
    BY <1>2 DEF OnSlotReturn
  <1>7. session'.slots = Log(session.slots, q)
    BY <1>2, <1>3, <1>6 DEF NewSession
  <1>8. session'.raised = (session.raised \/ p.alignment = 0)
    BY <1>2, <1>3, <1>6 DEF NewSession
  <1>9. session'.slots = Append(session.slots, e)
    BY <1>4, <1>7 DEF Log
  <1>10. ~session.raised => ~session'.raised
    BY <1>5, <1>8
  <1> QED
    BY <1>9, <1>10 DEF e

LEMMA FrameSlotReturns ==
    ASSUME Base, PendingInv, FrameInv, ReturnSlot
    PROVE  FrameInv'
  <1> DEFINE local == call.of
             slot == SlotFor(frame.cursor, local.alignment)
             next == slot + local.size
             e == [sequence |-> Len(session.slots), object |-> local.object, type |-> local.type,
                   size |-> local.size, before |-> frame.cursor, alignment |-> local.alignment,
                   slot |-> slot, after |-> next]
  <1>1. /\ epoch = "initial_lowering" /\ call.kind = "slot" /\ call.at = "aligned"
        /\ local \in LocalRecord
        /\ UNCHANGED <<left, facts, disk>> /\ session' = OnSlotReturn(session, slot, next)
        /\ call' = [kind |-> "homing", rest |-> call.rest]
        /\ frame' = [cursor |-> next, slots |-> frame.slots \cup {<<local.object, slot>>}]
    BY OperationKinds DEF ReturnSlot, Base, Shaped, EpochsOf
  <1>2. /\ local.object \in Nat \ {0} /\ local.type \in Nat /\ local.size \in Nat \ {0}
        /\ local.alignment \in Nat /\ IsPowerOfTwo(local.alignment)
    BY <1>1 DEF LocalRecord
  <1>3. "homed" \in facts.done /\ frame.cursor \in Nat /\ ~session.raised
    BY <1>1 DEF FrameInv
  <1>4. slot \in Nat /\ slot >= frame.cursor /\ slot % local.alignment = 0
    BY <1>2, <1>3, SlotForFits
  <1> HIDE DEF slot
  <1>5. next \in Nat /\ next > slot
    BY <1>2, <1>4
  <1>6. local.alignment # 0
    BY <1>2 DEF IsPowerOfTwo
  <1>7. Kept(session, session', {"raised", "pendingSlot", "slots"})
    BY <1>1, FrameHandlers DEF Base, Shaped
  <1>8. session'.checkpoints = session.checkpoints
    BY <1>7 DEF Kept, Fields, NewSession
  <1>9. session.capture => session'.slots = Append(session.slots, e) /\ ~session'.raised
    BY <1>1, <1>3, <1>6, SlotLogged
  <1>10. ~session'.raised
    BY <1>1, <1>3, <1>9 DEF OnSlotReturn
  <1>11. ASSUME session.capture PROVE FrameRecorded'
    <2>1. FrameRecorded
      BY <1>1, <1>11 DEF FrameInv
    <2>2. session.slots \in Seq(SlotEvent) /\ Len(session.slots) \in Nat
      BY <2>1 DEF FrameRecorded, Homes
    <2>3. e \in SlotEvent
      BY <1>2, <1>3, <1>4, <1>5, <2>2 DEF SlotEvent
    <2>4. e.sequence = Len(session.slots) /\ Geometry(e) /\ e.before = frame.cursor /\ e.after = next
      BY <1>2, <1>4 DEF Geometry
    <2>5. e.object = local.object /\ e.slot = slot
      OBVIOUS
    <2> DEFINE more == session'.slots
               N == Len(session.slots)
    <2>6. more = Append(session.slots, e)
      BY <1>9, <1>11
    <2> HIDE DEF e, next, more, local
    <2>7. Homes(more)
      <3>1. \A n \in 1..Len(session.slots) : session.slots[n].after <= e.before
        BY <2>1, <2>4 DEF FrameRecorded
      <3>2. Homes(session.slots)
        BY <2>1 DEF FrameRecorded
      <3> QED
        BY <2>3, <2>4, <2>6, <3>1, <3>2, HomeAdded
    <2>8. /\ Len(more) = N + 1 /\ more[N + 1] = e /\ DOMAIN more = 1..(N + 1)
          /\ DOMAIN session.slots = 1..N
          /\ \A n \in 1..N : more[n] = session.slots[n] /\ session.slots[n] \in SlotEvent
      BY <2>2, <2>3, <2>6
    <2>9. \A n \in 1..(N + 1) : n \in 1..N \/ n = N + 1
      BY <2>2
    <2>10. 1..N \subseteq 1..(N + 1) /\ N + 1 \in 1..(N + 1)
      BY <2>2
    <2> HIDE DEF N
    <2>11. \A n \in 1..Len(more) : more[n].after <= frame'.cursor
      <3>1. frame'.cursor = next
        BY <1>1
      <3>2. ASSUME NEW n \in 1..N PROVE more[n].after <= next
        <4>1. session.slots[n].after <= frame.cursor
          BY <2>1, <3>2 DEF FrameRecorded, N
        <4>2. session.slots[n].after \in Nat
          BY <2>8, <3>2 DEF SlotEvent
        <4> QED
          BY <1>3, <1>4, <1>5, <2>8, <3>2, <4>1, <4>2
      <3>3. more[N + 1].after <= next
        BY <1>5, <2>4, <2>8
      <3> QED
        BY <2>8, <2>9, <3>1, <3>2, <3>3
    <2>12. \A x : x \in Range(more) <=> x \in Range(session.slots) \/ x = e
      BY <2>8, <2>9, <2>10 DEF Range
    <2>13. {<<x.object, x.slot>> : x \in Range(more)} = frame'.slots
      <3>1. {<<x.object, x.slot>> : x \in Range(session.slots)} = frame.slots
        BY <2>1 DEF FrameRecorded
      <3>2. frame'.slots = frame.slots \cup {<<e.object, e.slot>>}
        BY <1>1, <2>5
      <3> QED
        BY <2>12, <3>1, <3>2
    <2>14. ObjectsIn(more) = ObjectsIn(session.slots) \cup {local.object}
      BY <2>5, <2>8, <2>9, <2>10 DEF ObjectsIn
    <2>15. ObjectsIn(more) \cup WaitingObjects' = ObjectsIn(session.slots) \cup WaitingObjects
      <3>1. WaitingObjects = {local.object} \cup ObjectsIn(call.rest)
        BY <1>1 DEF WaitingObjects, local
      <3>2. WaitingObjects' = ObjectsIn(call.rest)
        BY <1>1 DEF WaitingObjects
      <3> QED
        BY <2>14, <3>1, <3>2
    <2> QED
      BY <1>1, <1>3, <1>8, <2>1, <2>7, <2>11, <2>13, <2>15 DEF FrameRecorded, more
  <1>12. frame'.cursor \in Nat
    BY <1>1, <1>5
  <1> QED
    BY <1>1, <1>3, <1>10, <1>11, <1>12, HomingStep DEF FrameActions

LEMMA FrameChecks ==
    ASSUME Base, PendingInv, FrameInv, NEW at \in {"entry", "middle", "return"}, FrameCheckpoint(at)
    PROVE  FrameInv'
  <1> DEFINE state == [linkage |-> IF at = "entry" THEN 0 ELSE 8, outgoing |-> 0]
  <1>1. /\ epoch = "epilogue_prologue" /\ session' = OnCheckpoint(session, at, state)
        /\ UNCHANGED <<left, frame>> /\ call.kind \in {"none", "frame"}
        /\ at # "entry" => call.kind = "frame"
    BY DEF FrameCheckpoint, Idle
  <1>2. call'.kind \in {"none", "frame"}
    <2>1. call.kind = "frame" => call \in [kind : {"frame"}, next : {"middle", "return"}]
      BY OperationKinds DEF Base, Shaped
    <2> QED
      BY <2>1 DEF FrameCheckpoint, Idle
  <1>3. /\ DOMAIN session = DOMAIN NewSession
        /\ DOMAIN facts = {"origin", "moves", "selections", "done"}
        /\ DOMAIN disk = {"stage", "motion", "homes", "frames", "coloring"}
    BY DEF Base, Shaped, IsSession, Fields
  <1>4. "homed" \in facts'.done <=> "homed" \in facts.done
    BY <1>3 DEF FrameCheckpoint
  <1>5. disk'.homes = disk.homes
    BY <1>3 DEF FrameCheckpoint
  <1>6. /\ function' = function /\ epoch' = epoch /\ session'.capture = session.capture
        /\ left'.locals = left.locals /\ (session.capture => CountersAhead')
    BY FrameCommon DEF FrameActions
  <1>7. session'.slots = session.slots
    <2>1. Kept(session, session', {"raised", "checkpoints"})
      BY <1>1, FrameHandlers DEF Base, Shaped
    <2> QED
      BY <2>1 DEF Kept, Fields, NewSession
  <1>8. state \in FrameState
    BY DEF FrameState
  <1> HIDE DEF state
  <1>9. session.capture => FrameRecorded /\ session.pendingSlot = <<>>
    BY <1>1 DEF FrameInv, PendingInv, PendingFits
  <1>10. session.capture => session'.checkpoints \in Seq(FrameState) /\ session'.checkpoints # <<>>
    <2> SUFFICES ASSUME session.capture
                 PROVE  session'.checkpoints \in Seq(FrameState) /\ session'.checkpoints # <<>>
      OBVIOUS
    <2>1. session'.checkpoints = IF at = "entry" THEN <<state>> ELSE Append(session.checkpoints, state)
      BY <1>1, <1>3 DEF OnCheckpoint, NewSession
    <2>2. session.checkpoints \in Seq(FrameState)
      BY <1>9 DEF FrameRecorded
    <2>3. <<state>> \in Seq(FrameState) /\ <<state>> # <<>>
      BY <1>8
    <2>4. /\ Append(session.checkpoints, state) \in Seq(FrameState)
          /\ Append(session.checkpoints, state) # <<>>
      <3>1. /\ Append(session.checkpoints, state) \in Seq(FrameState)
            /\ Len(Append(session.checkpoints, state)) = Len(session.checkpoints) + 1
            /\ Len(session.checkpoints) \in Nat
        BY <1>8, <2>2
      <3>2. Len(<<>>) = 0
        OBVIOUS
      <3>3. Len(Append(session.checkpoints, state)) # 0
        BY <3>1
      <3> QED
        BY <3>1, <3>2, <3>3
    <2> QED
      BY <2>1, <2>3, <2>4
  <1>11. ~session'.raised
    <2>1. ~session.raised
      BY DEF FrameInv
    <2>2. CASE ~session.capture
      BY <1>1, <2>1, <2>2 DEF OnCheckpoint
    <2>3. CASE session.capture
      <3>1. at # "entry" => session.checkpoints # <<>>
        BY <1>1, <1>9, <2>3 DEF FrameRecorded
      <3>2. session'.raised = (\/ session.raised \/ (at # "entry" /\ session.checkpoints = <<>>)
                               \/ (at = "return" /\ session.pendingSlot # <<>>))
        BY <1>1, <1>3, <2>3 DEF OnCheckpoint, NewSession
      <3> QED
        BY <1>9, <2>1, <2>3, <3>1, <3>2
    <2> QED
      BY <2>2, <2>3
  <1>12. session.capture => FrameRecorded'
    <2> SUFFICES ASSUME session.capture PROVE FrameRecorded'
      OBVIOUS
    <2>1. WaitingObjects' = {} /\ WaitingObjects = {}
      BY <1>1, <1>2 DEF WaitingObjects
    <2> QED
      BY <1>1, <1>4, <1>5, <1>6, <1>7, <1>9, <1>10, <2>1 DEF FrameRecorded
  <1>13. FramesFiled'
    <2>1. FramesFiled
      BY DEF FrameInv
    <2>2. CASE disk'.frames = disk.frames
      BY <1>6, <1>7, <2>1, <2>2 DEF FramesFiled
    <2>3. CASE session.capture /\ at = "return"
      <3> DEFINE f == [capture |-> session.index, allocations |-> session.slots,
                       checkpoints |-> session'.checkpoints]
                 N == Len(disk.frames)
                 more == disk'.frames
      <3>1. more = Append(disk.frames, f)
        BY <1>3, <2>3 DEF FrameCheckpoint
      <3>2. session.index = function /\ function \in Nat
        BY <1>1, FunctionsAssumption DEF Base, Timeline, Shaped
      <3>3. Homes(session.slots) /\ session.slots \in Seq(SlotEvent)
        BY <1>9, <2>3 DEF FrameRecorded, Homes
      <3>4. f \in FrameTrace
        BY <1>10, <2>3, <3>2, <3>3 DEF FrameTrace
      <3>5. /\ Homes(f.allocations) /\ f.checkpoints # <<>> /\ f.capture = function
            /\ f.allocations = session.slots
        BY <1>10, <2>3, <3>2, <3>3
      <3> HIDE DEF f, more
      <3>6. /\ more \in Seq(FrameTrace) /\ Len(more) = N + 1 /\ more[N + 1] = f /\ N \in Nat
            /\ \A n \in 1..N : more[n] = disk.frames[n]
        BY <2>1, <3>1, <3>4 DEF FramesFiled
      <3>7. \A n \in 1..(N + 1) : n \in 1..N \/ n = N + 1
        BY <3>6
      <3> HIDE DEF N
      <3>8. ASSUME NEW n \in 1..(N + 1)
            PROVE  /\ Homes(more[n].allocations) /\ more[n].checkpoints # <<>>
                   /\ more[n].capture <= function
                   /\ more[n].capture = function =>
                        /\ session.capture /\ epoch \notin {"frontend", "initial_lowering"}
                        /\ more[n].allocations = session.slots
        <4>1. CASE n \in 1..N
          BY <2>1, <3>6, <4>1 DEF FramesFiled, N
        <4>2. CASE n = N + 1
          BY <1>1, <2>3, <3>2, <3>5, <3>6, <4>2
        <4> QED
          BY <3>7, <4>1, <4>2
      <3> QED
        BY <1>6, <1>7, <3>6, <3>8 DEF FramesFiled, more
    <2> QED
      BY <2>2, <2>3 DEF FrameCheckpoint
  <1> QED
    BY <1>1, <1>2, <1>6, <1>11, <1>12, <1>13 DEF FrameInv

LEMMA FrameStep ==
    ASSUME Base, PendingInv, RegisterInv, FrameInv, [CaptureNext]_captureVars
    PROVE  FrameInv'
  <1>1. CASE UNCHANGED captureVars
    <2>1. UNCHANGED <<function, epoch, counts, call, left, frame, facts, session, disk>>
      BY <1>1 DEF captureVars, compiler
    <2>2. WaitingObjects' = WaitingObjects
      BY <2>1 DEF WaitingObjects
    <2> QED
      BY <2>1, <2>2 DEF FrameInv, FramesFiled, FrameRecorded, CountersAhead
  <1>2. CASE CaptureNext
    <2>1. CASE FrameActions
      BY <2>1, FrameHomes, FrameSlotEnters, FrameAligns, FrameSlotReturns, FrameLeavesLoop,
         FrameChecks DEF FrameActions
    <2> QED
      BY <1>2, <2>1, ActionGroups, FrameReset, FrameEnters, FrameEnds, FrameCode, FrameMotion,
         FrameSelect DEF Base, RegisterInv
  <1> QED
    BY <1>1, <1>2

(* What the frame traces hold is sound, by the names of the parts.         *)
LEMMA FrameSuffices == ASSUME Base, FrameInv PROVE FramesAreSound
  <1> DEFINE Trace(f) == f \in FrameTrace /\ Homes(f.allocations) /\ f.checkpoints # <<>>
  <1>1. \A f \in Range(disk.frames) : Trace(f)
    BY DEF FrameInv, FramesFiled, Range
  <1>2. ASSUME NEW f \in Range(disk.frames), f.capture = function
        PROVE  /\ {<<e.object, e.slot>> : e \in Range(f.allocations)} = frame.slots
               /\ \A h \in Range(disk.homes) : left.locals = h =>
                    {e.object : e \in Range(f.allocations)} =
                      {l.object : l \in {m \in Range(h) : Homed(m)}}
    <2>1. /\ session.capture /\ epoch \notin {"frontend", "initial_lowering"}
          /\ f.allocations = session.slots
      BY <1>2 DEF FrameInv, FramesFiled, Range
    <2>2. FrameRecorded
      BY <2>1 DEF FrameInv
    <2>3. WaitingObjects = {}
      BY <2>1 DEF WaitingObjects, Base, Shaped, EpochsOf
    <2>4. ASSUME NEW h \in Range(disk.homes), left.locals = h
          PROVE  {e.object : e \in Range(f.allocations)} = {l.object : l \in {m \in Range(h) : Homed(m)}}
      <3>1. "homed" \in facts.done
        BY <2>2, <2>4 DEF FrameRecorded, Range
      <3>2. ObjectsIn(session.slots) = HomedObjects(left.locals)
        BY <2>2, <2>3, <3>1 DEF FrameRecorded
      <3>3. ObjectsIn(session.slots) = {e.object : e \in Range(session.slots)}
        BY DEF ObjectsIn, Range
      <3> QED
        BY <2>1, <2>4, <3>2, <3>3 DEF HomedObjects
    <2> QED
      BY <2>1, <2>2, <2>4 DEF FrameRecorded
  <1>3. ASSUME NEW f \in Range(disk.frames)
        PROVE  /\ ValidTrace(f)
               /\ \A d, e \in Range(f.allocations) :
                    d # e => d.after <= e.slot \/ e.after <= d.slot
    <2>1. Trace(f)
      BY <1>1
    <2> QED
      BY <2>1, HomesAreValid, HomesAreApart
  <1> DEFINE uses == [o \in {l.object : l \in UNION {Range(b.locals) : b \in Budgets}} |-> 0]
  <1> HIDE DEF uses
  <1>4. ASSUME NEW f \in Range(disk.frames), NEW g \in Range(disk.frames),
               NEW p \in CompareTraces(f, g, uses, uses).matched,
               NEW q \in CompareTraces(f, g, uses, uses).matched
        PROVE  (p.before = q.before) = (p.after = q.after)
    <2>1. f.allocations \in Seq(SlotEvent) /\ g.allocations \in Seq(SlotEvent)
      BY <1>1 DEF Homes
    <2>2. p.before = q.before <=> p.after = q.after
      <3> HIDE DEF Trace
      <3> QED
        BY <2>1, MatchedOnce
    <2> QED
      BY <2>2
  <1>5. ~session.raised
    BY DEF FrameInv
  <1>6. \A f, g \in Range(disk.frames) :
          LET pairs == CompareTraces(f, g, uses, uses).matched
          IN  \A p, q \in pairs : (p.before = q.before) = (p.after = q.after)
    BY <1>4
  <1> HIDE DEF Trace
  <1> QED
    BY <1>2, <1>3, <1>5, <1>6, Zenon DEF FramesAreSound, uses

(* Frame traces are valid, hold the homes of their own function apart from *)
(* each other, and are compared object by object; no handler raises.       *)
THEOREM FramesHold == CaptureSpec => []FramesAreSound
  <1> DEFINE I == Base /\ PendingInv /\ RegisterInv /\ FrameInv
  <1>1. CaptureInit => I
    BY BaseInit, PendingInit, RegisterInit, FrameInit
  <1>2. I /\ [CaptureNext]_captureVars => I'
    BY BaseStep, WaitingStep, RegisterStep, FrameStep
  <1>3. I => FramesAreSound
    BY FrameSuffices
  <1> QED
    BY <1>1, <1>2, <1>3, PTL DEF CaptureSpec

(* The files of a stage and of the frame say what was done in their own    *)
(* function, whatever was captured before it.                              *)
THEOREM FilesSound == CaptureSpec => []FilesAreSound
  <1>1. LinksAreExact /\ FramesAreSound => FilesAreSound
    BY DEF FilesAreSound
  <1> QED
    BY <1>1, LinksHold, FramesHold, PTL
==============================================================================
