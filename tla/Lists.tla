-------------------------------- MODULE Lists --------------------------------
(* What list::remove leaves of a list, for the lists the threads of the      *)
(* program keep.  It is a recursive function, so that it can be reasoned     *)
(* about.                                                                    *)
EXTENDS Naturals, Sequences

\* The elements of seq that are not in S, in their order.
Without(seq, S) ==
    LET kept[i \in 0..Len(seq)] ==
            IF i = 0 THEN <<>>
            ELSE IF seq[i] \in S THEN kept[i - 1] ELSE Append(kept[i - 1], seq[i])
    IN  kept[Len(seq)]
=============================================================================
