------------------------------ MODULE CodeLog ------------------------------
(***************************************************************************)
(* What an activation promises about the codes it shows: each SMS cycle    *)
(* shows at most one code, a code is shown in one cycle only, the next     *)
(* cycle opens only after the current one has its code, and a closed       *)
(* activation shows nothing more.                                          *)
(***************************************************************************)
EXTENDS Naturals

CONSTANTS Codes, Cycles, Empty

VARIABLES
    shown,   \* the code of each cycle, or Empty
    cycle,   \* the cycle that takes the next code
    closed

logVars == <<shown, cycle, closed>>

Init == /\ shown \in [Cycles -> Codes \cup {Empty}]
        /\ cycle \in Cycles
        /\ closed = FALSE

Show(c) ==
    /\ ~closed
    /\ cycle \in Cycles /\ shown[cycle] = Empty
    /\ \A n \in Cycles : shown[n] # c
    /\ shown' = [shown EXCEPT ![cycle] = c]
    /\ UNCHANGED <<cycle, closed>>

Open ==
    /\ ~closed
    /\ cycle \in Cycles /\ shown[cycle] # Empty
    /\ cycle' = cycle + 1
    /\ UNCHANGED <<shown, closed>>

Close ==
    /\ closed' = TRUE
    /\ UNCHANGED <<shown, cycle>>

Next == Open \/ Close \/ \E c \in Codes : Show(c)

Spec == Init /\ [][Next]_logVars
=============================================================================
