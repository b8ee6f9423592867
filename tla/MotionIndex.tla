----------------------------- MODULE MotionIndex -----------------------------
(***************************************************************************)
(* COpt_SetLoopCodeMotionMode of src/backend/CodeMotion.c: the index of    *)
(* definitions and uses that loop code motion works with.  One walk        *)
(* collects the objects in a binary tree, the census (COpt_005246d0)       *)
(* numbers the entries of every instruction, and the builder               *)
(* (COpt_005240b0) writes them and links them to what they name.           *)
(***************************************************************************)
EXTENDS ObjectAccess, Naturals, Sequences, FiniteSets

SeqExt == INSTANCE SequencesExt

CONSTANTS
    NPhys,       \* 32: registers below are physical and have no entries
    Objects,     \* the addresses of objects
    Info,        \* what MayAccess reads of the object at an address
    Functions,   \* the code considered: instructions in list order
    Stale        \* trees and lists an earlier round may have left


VARIABLES
    code,                  \* the function's instructions
    mode,                  \* include_implicit
    indexPc, at,           \* the walk under way and its instruction
    tree,                  \* gCodeMotionObjectTree: path from the root -> object
    list,                  \* gCodeMotionAllocationList, newest first
    first,                 \* first_use_index, first_definition_index
    count,                 \* gCodeMotionUseCount, ...DefinitionCount
    entry,                 \* gCodeMotionUseEntries, ...DefinitionEntries
    links                  \* the reverse lists, by what the entries name

ivars == <<code, mode, indexPc, at, tree, list, first, count, entry, links>>

Role == {"use", "def"}
Class == {"GPR", "FPR", "VR", "other"}   \* operand kinds 0, 1, 9 and the rest
Flag == {"ImplicitUse", "ImplicitDefinition", "NullObjectMemory", "GPRFixedRange",
         "CoalesceDisabled", "ObjectFlag2", "Call"}
\* The opcodes that the summary of a loop or the motion scan tells apart.
Opcode == {"counter", "indexedLoad", "indexedStore", "barrier", "op89", "other"}

Operand == [class : Class, reg : Nat, use : BOOLEAN, def : BOOLEAN]
Instruction == [skip : BOOLEAN,        \* flag SkipCodeMotion, or no operands
                operands : Seq(Operand), flags : SUBSET Flag,
                object : Objects,      \* operands[2].object
                opcode : Opcode, access : Access, block : Nat]

ASSUME PhysAssumption == NPhys \in Nat
ASSUME ObjectsAssumption == Objects \subseteq Nat /\ Info \in [Objects -> ObjectInfo]
ASSUME CodeAssumption == Functions \subseteq Seq(Instruction) \ {<<>>}

Positions == 1 .. Len(code)
Null == <<"null">>
-----------------------------------------------------------------------------
\* What stands in s at the places T, in order.
Chosen(s, T) ==
    LET upTo[k \in Nat] ==
            IF k = 0 THEN <<>> ELSE IF k \in T THEN Append(upTo[k - 1], s[k]) ELSE upTo[k - 1]
    IN  upTo[Len(s)]

Nothing == [x \in {} |-> 0]   \* a function without arguments

\* The link at which the comparisons of addresses end: that of o, or a null one.
Link(t, o) ==
    LET walk[d \in Nat] ==
            IF d = 0 THEN <<>>
            ELSE LET p == walk[d - 1]
                 IN  IF p \notin DOMAIN t \/ t[p] = o THEN p
                     ELSE Append(p, IF o < t[p] THEN "left" ELSE "right")
    IN  walk[Cardinality(DOMAIN t)]

\* COpt_00524b20
Insert(o) ==
    LET link == Link(tree, o)
    IN  IF link \in DOMAIN tree THEN UNCHANGED <<tree, list>>
        ELSE /\ tree' = [p \in DOMAIN tree \cup {link} |-> IF p = link THEN o ELSE tree[p]]
             /\ list' = <<o>> \o list

\* COpt_00524b90
Lookup(o) ==
    LET link == Link(tree, o) IN IF link \in DOMAIN tree THEN <<"object", tree[link]>> ELSE Null
-----------------------------------------------------------------------------
\* Operands that have entries.
IsEntry(operand) == operand.class # "other" /\ operand.reg >= NPhys

AccessesMemory(instr) == instr.flags \cap {"ImplicitUse", "ImplicitDefinition"} # {}

\* The object in operands[2] is the one accessed.
Direct(instr) == AccessesMemory(instr) /\ "NullObjectMemory" \notin instr.flags

\* What an instruction does to memory: the flags are tested in this order.
MemoryRoles(instr) ==
    IF "ImplicitUse" \in instr.flags THEN {"use"}
    ELSE IF "ImplicitDefinition" \in instr.flags THEN {"def"}
    ELSE IF "GPRFixedRange" \in instr.flags THEN Role ELSE {}

\* The indexed objects that an instruction without an object may touch.
MayTouch(instr, o) ==
    IF AccessesMemory(instr) THEN MayAccess(instr.access, Info[o]) ELSE Reachable(Info[o])

\* COpt_005246d0: the operands that get an entry of a role, the objects that do,
\* and how many entries an instruction is given.
Accessed(instr, role) ==
    { k \in DOMAIN instr.operands : IsEntry(instr.operands[k]) /\ instr.operands[k][role] }

Touched(instr) == { k \in DOMAIN list : MayTouch(instr, list[k]) }

CensusUsesOnly(instr, role) ==   \* mutant: a call's definitions are not counted
    Cardinality(Accessed(instr, role)) +
        IF mode = 0 \/ role \notin MemoryRoles(instr) \/ (role = "def" /\ ~AccessesMemory(instr)) THEN 0
        ELSE IF Direct(instr) THEN 1 ELSE Cardinality(Touched(instr))

CensusCount(instr, role) ==
    Cardinality(Accessed(instr, role)) +
        IF mode = 0 \/ role \notin MemoryRoles(instr) THEN 0
        ELSE IF Direct(instr) THEN 1 ELSE Cardinality(Touched(instr))

\* COpt_005240b0: the entries an instruction is given, in their order.
ExplicitEntries(i, role) ==
    LET accessed == Chosen(code[i].operands, Accessed(code[i], role))
    IN  [k \in DOMAIN accessed |->
            [instr |-> i, implicit |-> FALSE, names |-> <<accessed[k].class, accessed[k].reg>>]]

ImplicitEntries(i, role) ==
    LET objects ==
            IF mode = 0 \/ role \notin MemoryRoles(code[i]) THEN <<>>
            ELSE IF Direct(code[i]) THEN <<code[i].object>>
            ELSE Chosen(list, Touched(code[i]))
    IN  [k \in DOMAIN objects |-> [instr |-> i, implicit |-> ~Direct(code[i]),
                                    names |-> <<"object", objects[k]>>]]

Entries(i, role) == ExplicitEntries(i, role) \o ImplicitEntries(i, role)

ListHeadShared(e) ==   \* mutant: vector and floating-point entries in one list
    IF e.names[1] # "object" THEN <<IF e.names[1] = "GPR" THEN "GPR" ELSE "FPR", e.names[2]>>
    ELSE IF e.implicit THEN e.names ELSE Lookup(e.names[2])

\* The reverse list an entry is put into (CodeMotion_RegisterEntryHead).
ListHead(e) == IF e.names[1] # "object" \/ e.implicit THEN e.names ELSE Lookup(e.names[2])

\* The entries written from an index on, and linked in front of their lists.
Written(old, from, es) ==
    LET new == from .. from + Len(es) - 1
    IN  [k \in DOMAIN old \cup new |-> IF k \in new THEN es[k - from + 1] ELSE old[k]]

HeadedBy(es, head) == { k \in DOMAIN es : ListHead(es[k]) = head }

LinkedNext(old, from, es) ==   \* mutant: the index is incremented before the link
    [head \in DOMAIN old \cup { ListHead(es[k]) : k \in DOMAIN es } |->
        SeqExt!Reverse(Chosen([k \in DOMAIN es |-> from + k], HeadedBy(es, head)))
        \o (IF head \in DOMAIN old THEN old[head] ELSE <<>>)]

Linked(old, from, es) ==
    [head \in DOMAIN old \cup { ListHead(es[k]) : k \in DOMAIN es } |->
        SeqExt!Reverse(Chosen([k \in DOMAIN es |-> from + k - 1], HeadedBy(es, head)))
        \o (IF head \in DOMAIN old THEN old[head] ELSE <<>>)]
-----------------------------------------------------------------------------
IndexInit ==
    /\ code \in Functions /\ mode \in 0 .. 1
    /\ \E s \in Stale : tree = s.tree /\ list = s.list
    /\ indexPc = "begin" /\ at = 1
    /\ first = [i \in Positions |-> [use |-> Len(code), def |-> Len(code)]]   \* stale
    /\ count = [use |-> 0, def |-> 0]
    /\ entry = [use |-> Nothing, def |-> Nothing]
    /\ links = [use |-> Nothing, def |-> Nothing]

\* The next instruction of the walk, or the first of the next one.
Advance(next) ==
    IF at = Len(code) THEN at' = 1 /\ indexPc' = next
    ELSE at' = at + 1 /\ UNCHANGED indexPc

Begin ==
    /\ indexPc = "begin"
    /\ IF mode = 0 THEN indexPc' = "census" /\ UNCHANGED <<tree, list>>
       ELSE indexPc' = "collect" /\ tree' = Nothing /\ list' = <<>>
    /\ UNCHANGED <<code, mode, at, first, count, entry, links>>

CollectLoads ==   \* mutant: only loads put their object into the tree
    /\ indexPc = "collect"
    /\ IF "ImplicitUse" \in code[at].flags /\ Direct(code[at])
       THEN Insert(code[at].object) ELSE UNCHANGED <<tree, list>>
    /\ Advance("census")
    /\ UNCHANGED <<code, mode, first, count, entry, links>>

Collect ==
    /\ indexPc = "collect"
    /\ IF Direct(code[at])
       THEN Insert(code[at].object) ELSE UNCHANGED <<tree, list>>
    /\ Advance("census")
    /\ UNCHANGED <<code, mode, first, count, entry, links>>

Census ==
    /\ indexPc = "census"
    /\ IF code[at].skip THEN UNCHANGED <<first, count>>
       ELSE /\ first' = [first EXCEPT ![at] = count]
            /\ count' = [role \in Role |-> count[role] + CensusCount(code[at], role)]
    /\ Advance("build")
    /\ UNCHANGED <<code, mode, tree, list, entry, links>>

Build ==
    /\ indexPc = "build"
    /\ IF code[at].skip THEN UNCHANGED <<entry, links>>
       ELSE /\ entry' = [role \in Role |->
                            Written(entry[role], first[at][role], Entries(at, role))]
            /\ links' = [role \in Role |->
                            Linked(links[role], first[at][role], Entries(at, role))]
    /\ Advance("indexed")
    /\ UNCHANGED <<code, mode, tree, list, first, count>>

IndexNext == Begin \/ Collect \/ Census \/ Build
-----------------------------------------------------------------------------
\* The reverse list of definitions that the users of the index walk.
ListOf(e) ==
    LET head == IF e.names[1] = "object" THEN Lookup(e.names[2]) ELSE e.names
    IN  IF head \in DOMAIN links.def THEN links.def[head] ELSE <<>>

HasDefinitionBeside(blocks, d) ==   \* mutant: looks in the instruction's block only
    \E k \in SeqExt!ToSet(ListOf(entry.def[d])) :
        code[entry.def[k].instr].block = code[entry.def[d].instr].block /\ k # d

\* CodeMotion_HasDefinitionInNode
HasDefinitionIn(blocks, d) ==
    \E k \in SeqExt!ToSet(ListOf(entry.def[d])) :
        code[entry.def[k].instr].block \in blocks /\ k # d

SingleDefinitionUnowned(i, blocks) ==   \* mutant: the first entry may be another's
    LET d == first[i].def IN
    /\ d < count.def
    /\ ~(d + 1 < count.def /\ entry.def[d + 1].instr = i)
    /\ ~HasDefinitionIn(blocks, d)

\* COpt_00526b50
SingleDefinition(i, blocks) ==
    LET d == first[i].def IN
    /\ d < count.def /\ entry.def[d].instr = i
    /\ ~(d + 1 < count.def /\ entry.def[d + 1].instr = i)
    /\ ~HasDefinitionIn(blocks, d)
-----------------------------------------------------------------------------
IndexSpec == IndexInit /\ [][IndexNext]_ivars

Indexed == indexPc = "indexed"
Own(role, i) == { k \in DOMAIN entry[role] : entry[role][k].instr = i }
Kept == { i \in Positions : ~code[i].skip }

(***************************************************************************)
(* Types: what is listed or stands in the tree are objects, and a reverse  *)
(* list links only entries that have been written.                         *)
(***************************************************************************)
IndexTypeOK ==
    /\ mode \in 0 .. 1 /\ at \in Positions
    /\ indexPc \in {"begin", "collect", "census", "build", "indexed"}
    /\ SeqExt!ToSet(list) \subseteq Objects /\ \A p \in DOMAIN tree : tree[p] \in Objects
    /\ \A role \in Role :
         /\ count[role] \in Nat /\ \A i \in Positions : first[i][role] \in Nat
         /\ \A k \in DOMAIN entry[role] : k \in Nat /\ entry[role][k].instr \in Positions
         /\ \A h \in DOMAIN links[role] : links[role][h] \in Seq(DOMAIN entry[role])

(***************************************************************************)
(* The census and the builder, two copies of one walk, agree: every number *)
(* below the counts is written, none above, and an instruction's entries   *)
(* are the numbers from its first index on, with no other's among them.    *)
(***************************************************************************)
IndexIsExact ==
    Indexed => \A role \in Role :
        /\ DOMAIN entry[role] = 0 .. count[role] - 1
        /\ \A i \in Kept :
              Own(role, i) = first[i][role] .. first[i][role] + Cardinality(Own(role, i)) - 1

(***************************************************************************)
(* The reverse list that a user of the index walks holds exactly the       *)
(* entries that name the same register or object, each once, and no lookup *)
(* of COpt_005240b0 misses its object (it dereferences the result).        *)
(***************************************************************************)
LinksAreExact ==
    /\ \A role \in Role : Null \notin DOMAIN links[role]
    /\ Indexed => \A d \in DOMAIN entry.def :
         LET same == { k \in DOMAIN entry.def : entry.def[k].names = entry.def[d].names }
             walked == ListOf(entry.def[d])
         IN  SeqExt!ToSet(walked) = same /\ Len(walked) = Cardinality(same)

(***************************************************************************)
(* An access through a pointer, or a call, that may touch an object meets  *)
(* the accesses by name of that object: both have an entry naming it,      *)
(* wherever they stand in the code.                                        *)
(***************************************************************************)
AliasesMeet ==
    Indexed /\ mode = 1 =>
        \A i, j \in Kept : \A ri \in MemoryRoles(code[i]), rj \in MemoryRoles(code[j]) :
            Direct(code[i]) /\ ~Direct(code[j]) /\ MayTouch(code[j], code[i].object) =>
                \A pair \in {<<i, ri>>, <<j, rj>>} :
                    \E k \in Own(pair[2], pair[1]) :
                        entry[pair[2]][k].names = <<"object", code[i].object>>

(***************************************************************************)
(* COpt_00526b50 accepts an instruction exactly when it has one definition *)
(* and no other instruction of the node's definition region defines the    *)
(* same register or object, although it looks only at neighbouring entries.*)
(***************************************************************************)
SingleDefinitionIsExact ==
    Indexed => \A i \in Kept : \A blocks \in SUBSET { code[j].block : j \in Positions } :
        SingleDefinition(i, blocks) <=>
            \E d \in Own("def", i) :
                /\ Own("def", i) = {d}
                /\ \A j \in Kept \ {i} : code[j].block \in blocks =>
                      \A k \in Own("def", j) : entry.def[k].names # entry.def[d].names

(***************************************************************************)
(* The index that the loops are moved by is right: its numbers, its links, *)
(* the entries of aliases, and what is read from neighbouring entries.     *)
(***************************************************************************)
IndexIsRight == IndexIsExact /\ LinksAreExact /\ AliasesMeet /\ SingleDefinitionIsExact
==============================================================================
