---------------------------- MODULE ObjectAccess ----------------------------
(***************************************************************************)
(* Which compiler objects a memory access through a pointer may reach:     *)
(* COpt_005248c0 of src/backend/CodeMotion.c.  A type is the sequence of   *)
(* its layers: the wrappers (kind 0x0c), outermost first, and what they    *)
(* wrap.  The opcodes are grouped as the predicate groups them.            *)
(***************************************************************************)
LOCAL INSTANCE Integers
LOCAL INSTANCE Sequences

\* 0x8e-0x91 and 0x96-0x99; 0x92-0x95 and 0x9a-0x9d; 0xf7 and 0xfc;
\* 0x22-0x25 and 0x31-0x34; 0x19-0x20 and 0x2c-0x2f; every other opcode.
Access == {"single", "double", "vector", "word", "half", "other"}

\* kinds 2, 4, 5, 0x0a, 0x0c and the rest
TypeKind == {"float", "struct", "class", "kind0a", "wrapper", "scalar"}

Layer == [kind : TypeKind, size : Nat, subtype : Int, value10 : Int, value2e : Int]

\* What the predicate reads of an object.
ObjectInfo == [kind : 0 .. 2,          \* static, local, other
               addressed : BOOLEAN,    \* COpt_0048ad10
               flags22 : BOOLEAN,      \* register_info_26->flags_22
               type : Seq(Layer)]

Composite(t) == t.kind \in {"wrapper", "struct", "class"} \/ (t.kind = "kind0a" /\ t.size = 12)
Record(t)    == t.kind \in {"struct", "class"}

\* Objects that a pointer or a called function may reach at all.
Reachable(o) ==
    \/ o.kind = 0 \/ o.addressed
    \/ o.kind = 1 /\ (o.flags22 \/ Composite(o.type[1]))

\* The first layer that is not a wrapper.
Peeled(type) ==
    type[CHOOSE k \in DOMAIN type : /\ type[k].kind # "wrapper"
                                    /\ \A j \in 1 .. k - 1 : type[j].kind = "wrapper"]

\* COpt_005248c0
MayAccess(access, o) ==
    LET t == Peeled(o.type)
        outer == o.type[1]
    IN  /\ Reachable(o)
        /\ CASE access = "single" -> (t.kind = "float" /\ t.size = 4) \/ (Record(t) /\ t.size >= 4)
             [] access = "double" -> (t.kind = "float" /\ t.size # 4) \/ (Record(t) /\ t.size >= 8)
             [] access = "vector" ->
                    \/ t.kind = "struct" /\ (t.subtype \in 4 .. 14 \/ t.value10 = 16)
                    \/ t.kind = "class" /\ t.value2e = 16
             [] access = "word" ->
                    Composite(outer) \/ (outer.kind # "float" /\ outer.size = 4)
             [] access = "half" ->
                    \/ Composite(outer) /\ (outer.size \div 2) % 2 = 1   \* size & 2
                    \/ outer.size = 2
             [] access = "other" -> TRUE
==============================================================================
