------------------------------- MODULE Selection -------------------------------
(***************************************************************************)
(* The elements of a sequence at given positions, in their order.  It is   *)
(* what SelectSeq gives for the positions where its test holds, by a       *)
(* definition that a proof can expand.                                     *)
(***************************************************************************)
LOCAL INSTANCE Integers
LOCAL INSTANCE Sequences

Selected(s, positions) ==
    LET kept[n \in 0..Len(s)] ==
            IF n = 0 THEN <<>>
            ELSE IF n \in positions THEN Append(kept[n - 1], s[n]) ELSE kept[n - 1]
    IN  kept[Len(s)]
===============================================================================
