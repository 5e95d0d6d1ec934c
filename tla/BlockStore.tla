------------------------------- MODULE BlockStore ------------------------------
(***************************************************************************)
(* What the logical-to-physical layer promises the rest of hodo: a block   *)
(* store addressed by logical number. A write gives one number new content *)
(* and leaves every other number alone; a number once written stays        *)
(* readable. Where blocks lie, and that the collector moves them, does not *)
(* show.                                                                   *)
(***************************************************************************)
CONSTANTS Number,   \* logical numbers
          Data,     \* block contents
          Nil       \* a number that has no content

VARIABLE content

Init == \E n \in Number, d \in Data :
            content = [m \in Number |-> IF m = n THEN d ELSE Nil]

Write(n, d) == content' = [content EXCEPT ![n] = d]

Next == \E n \in Number, d \in Data : Write(n, d)

Spec == Init /\ [][Next]_content

================================================================================
