---------------------------- MODULE StructTypes -----------------------------
(* The analysis of the struct types (_analyze_struct): the first request for *)
(* a struct computes its layout, after that of the structs nested in it, and *)
(* keeps it in struct_info.  calls is the stack of analyses in progress.     *)
EXTENDS StructLayout, FiniteSets, SequencesExt, FiniteSetsExt

VARIABLES elements,     \* the program: struct name -> sequence of types
          struct_info,  \* struct name -> [sz, off], of those analysed
          max_struct, max_struct_sz,
          calls

structVars == <<elements, struct_info, max_struct, max_struct_sz, calls>>

min_struct == Scalar
Structs    == DOMAIN elements
Analysed   == DOMAIN struct_info

(* A program with the structs e.                                            *)
InitStructs(e) ==
  /\ elements = e
  /\ struct_info = <<>>
  /\ max_struct = min_struct /\ max_struct_sz = 0
  /\ calls = <<>>

(* From the loop over the module's named structs, or by get_struct_sz.      *)
get_struct_info(s) ==
  /\ calls = <<>> /\ s \notin Analysed
  /\ calls' = <<s>>
  /\ UNCHANGED <<elements, struct_info, max_struct, max_struct_sz>>

Top == calls[Len(calls)]
Nested(s) == {n \in DOMAIN elements[s] : IsStruct(ElementType(elements[s][n]))}

Pending(s) == {n \in Nested(s) : ElementType(elements[s][n]).name \notin Analysed}

(* A nested struct is analysed when the loop over the elements reaches it.  *)
Descend ==
  /\ calls # <<>>
  /\ Pending(Top) # {}
  /\ calls' = Append(calls, ElementType(elements[Top][Min(Pending(Top))]).name)
  /\ UNCHANGED <<elements, struct_info, max_struct, max_struct_sz>>

(* Mutation: the first field keeps the size of the struct it begins.        *)
WholeFirstKept(sz) == sz

(* "S[0] is always the size of the expanded struct T."                      *)
(* (An empty struct has no element 0 to write; the write goes astray.)      *)
WholeFirst(sz) == IF sz = <<>> THEN sz ELSE [sz EXCEPT ![1] = Len(sz)]

(* The offset of an element is the number of fields placed before it.       *)
Layout(s) ==
  LET sizes == [n \in DOMAIN elements[s] |->
                  NodeSizes(struct_info, ElementType(elements[s][n]))]
  IN  [sz  |-> WholeFirst(FlattenSeq(sizes)),
       off |-> [n \in DOMAIN sizes |-> Len(FlattenSeq(SubSeq(sizes, 1, n - 1)))]]

(* Mutation: the struct analysed last is taken for the largest.             *)
IsLargerAlways(n) == TRUE

IsLarger(n) == n > max_struct_sz

_analyze_struct ==
  LET l == Layout(Top)
      n == Len(l.sz)
  IN
  /\ calls # <<>>
  /\ Pending(Top) = {}
  /\ struct_info' = [s \in Analysed \cup {Top} |->
                       IF s = Top THEN l ELSE struct_info[s]]
  /\ IF IsLarger(n) THEN max_struct' = Struct(Top) /\ max_struct_sz' = n
     ELSE UNCHANGED <<max_struct, max_struct_sz>>
  /\ calls' = Front(calls)
  /\ UNCHANGED elements

AnalyzeStructs == (\E s \in Structs : get_struct_info(s)) \/ Descend \/ _analyze_struct

-----------------------------------------------------------------------------
(* The reference: the structs embedded in a T, as <<first field, fields>>.   *)
RECURSIVE Fields(_)
Fields(T) ==
  LET U == ElementType(T) IN
  IF ~IsStruct(U) THEN 1
  ELSE FoldSeq(LAMBDA E, n : n + Fields(E), 0, elements[U.name])

Before(s, n) == FoldSeq(LAMBDA E, k : k + Fields(E), 0, SubSeq(elements[s], 1, n - 1))

RECURSIVE Embedded(_, _)
Embedded(T, at) ==
  LET U == ElementType(T) IN
  IF ~IsStruct(U) THEN {}
  ELSE {<<at, Fields(U)>>}
         \cup UNION {Embedded(elements[U.name][n], at + Before(U.name, n))
                       : n \in DOMAIN elements[U.name]}

(* "If field [i] in the expanded struct T begins an embedded struct, S[i]   *)
(* is the # of fields in the largest such struct, else S[i] = 1. (...) if a *)
(* field has index (j) in the original struct, it has index O[j] in the     *)
(* expanded struct" (anders.h:299), however deep structs and arrays nest.   *)
LayoutAsDocumented ==
  \A s \in Analysed :
    LET i == struct_info[s] IN
    /\ Len(i.sz) = Fields(Struct(s))
    /\ \A k \in DOMAIN i.sz :
         i.sz[k] = Max({1} \cup {e[2] : e \in {x \in Embedded(Struct(s), 1) : x[1] = k}})
    /\ \A n \in DOMAIN elements[s] : i.off[n] = Before(s, n)

(* The index sequences into a T.                                            *)
RECURSIVE Paths(_)
Paths(T) ==
  IF IsStruct(T)
  THEN UNION {{<<n>> \o p : p \in Paths(elements[T.name][n])} \cup {<<n>>}
                : n \in DOMAIN elements[T.name]}
  ELSE IF T.kind = "array" THEN {<<1>> \o p : p \in Paths(T.el)} \cup {<<1>>} ELSE {}

(* A field can be reached in one GEP or in two, the second on the pointer   *)
(* the first returned: both give the same node, and the object size of the  *)
(* node the first GEP leads to admits the offset of the second, so that the *)
(* solver (which drops an offset that is not below the object size) never   *)
(* loses the field.                                                         *)
GepStaysInside ==
  \A s \in Analysed :
    LET off(T, idx) == compute_gep_off(struct_info, elements, T, idx)
        T1 == Struct(s)
        typeAt[p \in Paths(T1)] ==
          IF Len(p) = 1 THEN elements[s][p[1]]
          ELSE LET q == typeAt[Front(p)] IN
               IF IsStruct(q) THEN elements[q.name][Last(p)] ELSE q.el
    IN
    \A p \in Paths(T1) :
      /\ off(T1, p) < Len(struct_info[s].sz)
      /\ \A q \in Paths(typeAt[p]) :
           /\ off(T1, p \o q) = off(T1, p) + off(typeAt[p], q)
           /\ off(typeAt[p], q) < struct_info[s].sz[off(T1, p) + 1]

(* The largest struct is that of the layouts known, also when a struct was  *)
(* analysed in the middle of another; so an allocation that may become any  *)
(* struct has room for each of them, and one that is cast has room for what *)
(* it is cast to.                                                           *)
AllocationsFit ==
  calls = <<>> =>
    \A s, t \in Analysed :
      LET room(T, casts) ==
            Len(NodeSizes(struct_info,
                  trace_alloc_type(struct_info, T, casts, max_struct)))
          both == Max({Fields(Struct(s)), Fields(Struct(t))})
      IN
      /\ room(Scalar, <<>>) >= both
      /\ room(Scalar, <<Struct(s), Array(Struct(t))>>) >= both
      /\ room(Array(Struct(s)), <<Struct(t), Scalar>>) >= both

(* The node for a field, reached in whatever steps, is inside its object,   *)
(* and so is each field of what is copied into an allocation.               *)
SizesFit == GepStaysInside /\ AllocationsFit
=============================================================================
