------------------------------ MODULE TraceInt ------------------------------
(* trace_int: the pointers an integer may have been made from, followed      *)
(* through the instructions that compute it, for the constraints of an       *)
(* inttoptr.  A value has an operation and operands:                         *)
(*   unknown  arguments, numbers, calls, comparisons, loads of what was not   *)
(*            stored before in the block                                      *)
(*   pointer  a pointer, the operand of a ptrtoint or of a phi                *)
(*   cast     ptrtoint, casts, shifts, loads of what was stored before or of  *)
(*            a constant global: the first operand counts                     *)
(*   arith    two-operand arithmetic;  phi;  select                           *)
(* Each visited value's result is kept in seen, from the moment its visit    *)
(* begins, so that a cycle ends.                                              *)
EXTENDS Integers, Sequences, FiniteSets, TLC

VARIABLES graph,        \* the values of the program, as [id -> [op, args]]
          result

traceVars == <<graph, result>>

Root    == 1
Running == [src |-> {}, seen |-> <<>>, ret |-> FALSE, done |-> FALSE]

InitTrace(g) == graph = g /\ result = Running

-----------------------------------------------------------------------------
(* Mutation: arithmetic is untraceable as soon as one operand is.           *)
JoinAny(all, a, b) == a \/ b

(* Arithmetic is untraceable only if both operands are: a number added to   *)
(* an address is an offset.                                                 *)
Join(all, a, b) == IF all THEN a /\ b ELSE a \/ b

(* Mutation: only the first operand of a phi.                               *)
OperandsFirst(x) == <<x.args[1]>>

(* The operands followed: of a select the first two.                        *)
Operands(x) == IF x.op = "select" THEN SubSeq(x.args, 1, 2) ELSE x.args

(* C++ evaluates the operands of & and | in any order, those of a phi are   *)
(* visited by a loop.                                                       *)
Orders(x) ==
  LET o == Operands(x) IN
  IF x.op \in {"arith", "select"} /\ Len(o) = 2 THEN {o, <<o[2], o[1]>>} ELSE {o}

RECURSIVE Trace(_, _), TraceEach(_, _, _)

(* The states in which the trace of v may end, from the state s.            *)
Trace(s, v) ==
  LET x == graph[v]
      begun == [s EXCEPT !.seen = (v :> FALSE) @@ @]
  IN
  CASE v \in DOMAIN s.seen -> {[s EXCEPT !.ret = s.seen[v]]}
    [] x.op = "pointer" -> {[s EXCEPT !.src = @ \cup {v}, !.ret = FALSE]}
    [] x.op = "unknown" -> {[begun EXCEPT !.ret = TRUE, !.seen[v] = TRUE]}
    [] OTHER -> {[t EXCEPT !.seen[v] = t.ret] :
                   t \in UNION {TraceEach(begun, o, x.op = "arith") : o \in Orders(x)}}

TraceEach(s, vs, all) ==
  IF Len(vs) = 1 THEN Trace(s, vs[1])
  ELSE UNION {{[u EXCEPT !.ret = Join(all, t.ret, u.ret)] :
                 u \in TraceEach(t, Tail(vs), all)} : t \in Trace(s, Head(vs))}

trace_int ==
  /\ ~result.done
  /\ result' \in {[t EXCEPT !.done = TRUE] : t \in Trace(result, Root)}
  /\ UNCHANGED graph

-----------------------------------------------------------------------------
(* The reference.  The values an integer may be computed from: a select     *)
(* yields its second or third operand ("(select a0 a1 a2) = (a0 ? a1 : a2)",*)
(* obj_cons_id.cpp:854).                                                    *)
Yields(x) == IF x.op = "select" THEN {x.args[2], x.args[3]}
             ELSE {x.args[n] : n \in DOMAIN x.args}

RECURSIVE Closure(_)
Closure(S) == LET T == S \cup UNION {Yields(graph[v]) : v \in S}
              IN  IF T = S THEN S ELSE Closure(T)

(* The least set of values that are untraceable.                            *)
RECURSIVE Untraceable(_)
Untraceable(S) ==
  LET T == {v \in DOMAIN graph :
              LET Y == Yields(graph[v]) IN
              CASE graph[v].op = "unknown" -> TRUE
                [] graph[v].op = "arith"   -> Y \subseteq S
                [] OTHER                   -> Y \cap S # {}}
  IN  IF T = S THEN S ELSE Untraceable(T)

(* Every pointer the integer may stem from is found, whichever way round    *)
(* the cycles are entered.                                                  *)
FindsPointers ==
  result.done => result.src = {v \in Closure({Root}) : graph[v].op = "pointer"}

(* Arithmetic only adds offsets that are unknown themselves, as the         *)
(* comments assume, or there is no cycle.                                   *)
OffsetsOnly ==
  \A v \in DOMAIN graph :
    graph[v].op = "arith" => \E n \in Yields(graph[v]) : graph[n].op = "unknown"

Acyclic == \A v \in DOMAIN graph : v \notin Closure(Yields(graph[v]))

(* "Returns true if some path can't be traced to a ptr (and so the i2p cons. *)
(* should be added)." (obj_cons_id.cpp:1791)  Then that is so exactly,      *)
(* although the trace may read the result of a value whose own trace is     *)
(* still in progress; and otherwise it never reports an untraceable path    *)
(* that does not exist.                                                     *)
FindsUntraceableOffsets ==
  result.done =>
    /\ result.ret => Root \in Untraceable({})
    /\ OffsetsOnly \/ Acyclic => (Root \in Untraceable({}) => result.ret)
=============================================================================
