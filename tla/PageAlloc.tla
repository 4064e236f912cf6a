----------------------------- MODULE PageAlloc -----------------------------
(***************************************************************************)
(* What a physical memory zone promises: blocks of pages that are free are *)
(* handed out to one holder at a time and come back whole.  A block is the *)
(* set of its pages.                                                       *)
(***************************************************************************)
CONSTANT Pages

VARIABLES free,   \* pages nobody holds
          held    \* blocks handed out

vars == <<free, held>>

Init == free \in SUBSET Pages /\ held = {}

Take(B) ==
    /\ B # {} /\ B \subseteq free
    /\ free' = free \ B
    /\ held' = held \cup {B}

Give(B) ==
    /\ B \in held
    /\ free' = free \cup B
    /\ held' = held \ {B}

Next == (\E B \in SUBSET free : Take(B)) \/ (\E B \in held : Give(B))

Spec == Init /\ [][Next]_vars
-----------------------------------------------------------------------------
(* Every page is free or in one block, never both and never in two.        *)
Exclusive ==
    /\ \A B \in held : B # {} /\ B \cap free = {}
    /\ \A B, C \in held : B # C => B \cap C = {}
=============================================================================
