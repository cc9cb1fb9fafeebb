----------------------------- MODULE PageStore ------------------------------
(***************************************************************************)
(* What the simulated storage promises to whoever writes to it: one cell   *)
(* per logical page that holds the content last written to it, whatever    *)
(* the log, the remaps and the flash below do.                             *)
(***************************************************************************)
CONSTANTS LPN, Values(_), Blank

VARIABLE store

Init == store = [l \in LPN |-> Blank]

Write(l, c) == store' = [store EXCEPT ![l] = c]

Next == \E l \in LPN : \E c \in Values(l) : Write(l, c)

Spec == Init /\ [][Next]_store
=============================================================================
