------------------------------ MODULE ObjConsId ------------------------------
(* The parts of obj_cons_id that go over the module before its functions,   *)
(* in their order: the struct types, the globals, whose objects are laid    *)
(* out by the struct types, and the globals' initializers; then the trace   *)
(* of an inttoptr, met in a function.  ConsGen models the functions.        *)
EXTENDS GlobalInit, TraceInt

CONSTANT Programs       \* [elements, globals, graph]

vars == <<structVars, globalVars, traceVars>>

Init ==
  \E p \in Programs :
    InitStructs(p.elements) /\ InitGlobals(p.globals) /\ InitTrace(p.graph)

Next ==
  \/ phase = "structs" /\ AnalyzeStructs /\ UNCHANGED <<globalVars, traceVars>>
  \/ ProcessGlobals /\ UNCHANGED <<structVars, traceVars>>
  \/ phase = "done" /\ trace_int /\ UNCHANGED <<structVars, globalVars>>

Spec == Init /\ [][Next]_vars
=============================================================================
