------------------------------- MODULE Deques -------------------------------
(* Python deques as sequences.                                             *)
EXTENDS Integers, Sequences

(* The items of a deque that are not in the set drop, in their order.  A   *)
(* recursive function, so that a proof can unfold it.                      *)
Without(deque, drop) ==
  LET kept[i \in 0 .. Len(deque)] ==
        IF i = 0 THEN <<>>
        ELSE IF deque[i] \in drop THEN kept[i - 1]
             ELSE Append(kept[i - 1], deque[i])
  IN  kept[Len(deque)]
=============================================================================
