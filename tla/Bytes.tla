--------------------------------- MODULE Bytes ---------------------------------
(***************************************************************************)
(* Dropping a byte from a text, as a recursive function: the proofs unfold *)
(* it, which they cannot do with SelectSeq.                                *)
(***************************************************************************)
EXTENDS Naturals, Sequences

\* The bytes of s but for those that are b.
Without(s, b) ==
    LET kept[i \in 0..Len(s)] ==
            IF i = 0 THEN <<>>
            ELSE IF s[i] = b THEN kept[i - 1] ELSE Append(kept[i - 1], s[i])
    IN  kept[Len(s)]
=============================================================================
