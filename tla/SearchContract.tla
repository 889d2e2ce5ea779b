--------------------------- MODULE SearchContract ---------------------------
(***************************************************************************)
(* What a caller of solve (shaqr.go, js/shaqr.js) may rely on, whatever    *)
(* the order in which the subsets are tried.  An answer is K distinct      *)
(* shares that fit the id.  The plain ErrID never comes when the wrong     *)
(* shares sit next to each other and number no more than the spares, and   *)
(* otherwise comes only when no K shares fit or the cap was reached.  The  *)
(* search stops at its bound on work only after it tried a subset.         *)
(***************************************************************************)
EXTENDS Subsets

VARIABLES
    wrong,    \* positions whose share is not on the set's polynomials
    outcome,  \* "searching", "found", "none" or "stopped"
    answer,   \* the last pick tried
    tried     \* how many were tried

cvars == <<wrong, outcome, answer, tried>>

Init == /\ wrong \in SUBSET Pos
        /\ outcome = "searching"
        /\ answer \in Picks
        /\ tried = 0

(* A subset that does not fit. *)
Try == /\ outcome = "searching"
       /\ answer' \in Picks
       /\ ~Clean(answer', wrong)
       /\ tried' = tried + 1
       /\ UNCHANGED <<wrong, outcome>>

Answer == /\ outcome = "searching"
          /\ outcome' = "found"
          /\ answer' \in Picks
          /\ Distinct(answer')
          /\ Clean(answer', wrong)
          /\ tried' = tried + 1
          /\ UNCHANGED wrong

(* The plain ErrID, "no k shares match the set id". *)
GiveUp == /\ outcome = "searching"
          /\ ~Adjacent(wrong)
          /\ \/ \A f \in Sorted : ~Clean(f, wrong)
             \/ tried >= MaxSubsets
          /\ outcome' = "none"
          /\ UNCHANGED <<wrong, answer, tried>>

(* The ErrID that says that the search stopped at its bound on work. *)
Stop == /\ outcome = "searching"
        /\ tried > 0
        /\ outcome' = "stopped"
        /\ UNCHANGED <<wrong, answer, tried>>

Next == Try \/ Answer \/ GiveUp \/ Stop

Spec == Init /\ [][Next]_cvars
=============================================================================
