---------------------------- MODULE MCRunEvents -----------------------------
(* Small instances of RunEvents.                                           *)
EXTENDS RunEvents

ThreeTypes == {"Analyzed", "Executed", "Odd"}
OneOdd == {"Odd"}
=============================================================================
