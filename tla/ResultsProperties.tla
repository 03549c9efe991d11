-------------------------- MODULE ResultsProperties --------------------------
(***************************************************************************)
(* What a client may rely on once runOnModule has returned.                *)
(***************************************************************************)
EXTENDS Results, SolverProperties

CONSTANT Offsets   \* the offsets a client asks for

(* Variables of the program: what clients ask about.                       *)
TopLevel == {x \in Node \ {0} : ObjSz[x] = 0 \/ x \in ArgObj}

(* The variable is represented by an object.                               *)
ByObject(x) == g.rep[x] \notin TopLevel

Answered == stage = "ready" /\ ~gave_up

(* The points-to set of a variable, with and without an offset, is the     *)
(* least solution of the constraints (the client interface of main.cpp),   *)
(* whatever was merged while solving and in pts_cleanup; it is empty when  *)
(* an object was chosen to represent the class of the variable.            *)
RightAnswers ==
  Answered =>
    LET least == LeastOf[sys] IN
    \A x \in TopLevel : \A k \in Offsets :
      pointsToSet(x, k) =
        IF ByObject(x) THEN {}
        ELSE IF k = 0 THEN least[x] ELSE Shift(least[x], k)

(* After pts_cleanup two variables have the same class for PE exactly when *)
(* they have the same nonempty points-to set, although the first node that *)
(* was seen with a set may have been merged away since; merge_nodes is     *)
(* always given two different representatives.                             *)
ClassesAreSets ==
  /\ stage # "abort"
  /\ stage = "ready" =>
       \A x, y \in TopLevel :
         ~is_null(x, 0) /\ ~is_null(y, 0) =>
           (PE(x) = PE(y) <=> pointsToSet(x, 0) = pointsToSet(y, 0))

(* "Return the points-to set of V's node" (pointsToSet, main.cpp): a       *)
(* variable has the pointees the solver found for it.                      *)
NoAnswerLost ==
  Answered =>
    \A x \in TopLevel : pointsToSet(x, 0) = LeastOf[sys][x]

(* pts_cleanup deletes "the points-to sets not needed by the clients" and  *)
(* nothing more: it never changes the pointees of a variable that is not   *)
(* represented by an object, and never parts variables.                    *)
CleanupKeeps ==
  [][stage = "pts" =>
       \A x \in TopLevel :
         /\ ~ByObject(x) =>
              g'.points_to[g'.rep[x]] = g.points_to[g.rep[x]]
         /\ \A y \in TopLevel : g.rep[x] = g.rep[y] => g'.rep[x] = g'.rep[y]]_allVars
=============================================================================
