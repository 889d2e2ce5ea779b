----------------------------- MODULE LatestOnly -----------------------------
(***************************************************************************)
(* What a page promises that works out its answers in asynchronous calls:  *)
(* calls are numbered in the order they were asked for, what is shown only *)
(* ever changes to the answer of the latest call, and in the end the       *)
(* latest answer is shown.  Tab 1 (runSplit, splitGen) and tab 2           *)
(* (updateRec, recGen) of site/app.js both implement it.                   *)
(***************************************************************************)
EXTENDS Naturals

VARIABLES
    asked,   \* the number of the latest call
    shown    \* the number of the call whose answer is shown, 0 for none

lvars == <<asked, shown>>

Init == asked = 0 /\ shown = 0

\* A call that may answer at once.
Ask == /\ asked' = asked + 1
       /\ shown' \in {shown, asked'}

Present == /\ shown # asked
           /\ shown' = asked
           /\ UNCHANGED asked

Next == Ask \/ Present

Safe == Init /\ [][Next]_lvars

(* WF_lvars(Present): Present can be taken whenever shown # asked, and     *)
(* makes them equal.                                                       *)
Spec == Safe /\ []<>(shown = asked)
=============================================================================
