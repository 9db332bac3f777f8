------------------------------ MODULE Buffers ------------------------------
(* Removing messages from a buffer that is kept in the order of arrival. *)
EXTENDS Naturals, Sequences

(* The buffer b without the messages of S. *)
Without(b, S) ==
  LET kept[k \in 0..Len(b)] ==
        IF k = 0 THEN <<>>
        ELSE IF b[k] \in S THEN kept[k - 1] ELSE Append(kept[k - 1], b[k])
  IN  kept[Len(b)]
=============================================================================
