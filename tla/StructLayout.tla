---------------------------- MODULE StructLayout ----------------------------
(* Types of the analysed program as far as their layout matters, and what    *)
(* object identification computes from struct_info: the node offset of a     *)
(* GEP, the type of an allocation and the extent of a copy.  A type is a     *)
(* record: a scalar, an array of el, or the struct name.  struct_info maps a *)
(* struct's name to the vectors sz and off.                                  *)
EXTENDS Integers, Sequences

Scalar     == [kind |-> "scalar"]
Array(T)   == [kind |-> "array", el |-> T]
Struct(s)  == [kind |-> "struct", name |-> s]

IsStruct(T) == T.kind = "struct"

(* "An array is considered a single variable of its type."                  *)
RECURSIVE ElementType(_)
ElementType(T) == IF T.kind = "array" THEN ElementType(T.el) ELSE T

(* The sizes of the nodes an object of the type T gets, one per field.      *)
NodeSizes(info, T) == IF IsStruct(T) THEN info[T.name].sz ELSE <<1>>

(* The number of fields as trace_alloc_type and get_max_offset count them.  *)
StructSize(info, T, otherwise) ==
  IF IsStruct(ElementType(T)) THEN Len(info[ElementType(T).name].sz) ELSE otherwise

(* The offset of the GEP with the indices idx into a T; an index into an    *)
(* array is skipped, also when a struct precedes or follows it.             *)
RECURSIVE compute_gep_off(_, _, _, _)
compute_gep_off(info, elements, T, idx) ==
  IF idx = <<>> THEN 0
  ELSE IF IsStruct(T)
       THEN info[T.name].off[Head(idx)]
              + compute_gep_off(info, elements, elements[T.name][Head(idx)], Tail(idx))
       ELSE compute_gep_off(info, elements, T.el, Tail(idx))

(* The largest type an allocation of a T is cast to, T itself included, the *)
(* first of several; without any cast, a non-struct may become the largest  *)
(* struct of the program.                                                   *)
trace_alloc_type(info, T, casts, max_struct) ==
  LET size(U) == StructSize(info, U, 0)
      larger[n \in 0 .. Len(casts)] ==
        IF n = 0 THEN ElementType(T)
        ELSE IF size(casts[n]) > size(larger[n - 1])
             THEN ElementType(casts[n]) ELSE larger[n - 1]
  IN  IF casts = <<>> /\ size(T) = 0 THEN max_struct ELSE larger[Len(casts)]

(* The number of fields a copy to or from V may touch: a cast says what it  *)
(* points to; of another value with operands, the largest operand counts.   *)
(* V lists the types its operands point to (Scalar for a non-pointer).      *)
get_max_offset(info, V) ==
  LET sizes == {StructSize(info, V.operands[n], 1) : n \in DOMAIN V.operands} IN
  IF V.cast THEN StructSize(info, V.operands[1], 1)
  ELSE CHOOSE n \in sizes \cup {1} : \A k \in sizes \cup {1} : k <= n
=============================================================================
