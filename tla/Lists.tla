------------------------------- MODULE Lists -------------------------------
(* Lists in the findings (detect.py): what matters of a list, in its       *)
(* order, and as much of it as a text names.                               *)
EXTENDS Integers, Sequences

Among(list, set) ==
    LET upto[n \in 0 .. Len(list)] ==
            IF n = 0 THEN <<>>
            ELSE IF list[n] \in set THEN Append(upto[n - 1], list[n]) ELSE upto[n - 1]
    IN  upto[Len(list)]

Listed(list, most) == SubSeq(list, 1, IF Len(list) > most THEN most ELSE Len(list))

=============================================================================
