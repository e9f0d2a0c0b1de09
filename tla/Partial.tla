------------------------------ MODULE Partial ------------------------------
(* Results that may be missing, as the codecs return them: <<v>> is         *)
(* Ok(v), and <<>> an error or None.                                        *)
EXTENDS Integers, Sequences

\* The ? operator: go on with what was read.
Then(read, Next(_)) == IF read = <<>> THEN <<>> ELSE Next(read[1])

When(condition, value) == IF condition THEN <<value>> ELSE <<>>

\* All of them, in order, or none.
Gather(results) == IF \E i \in DOMAIN results : results[i] = <<>> THEN <<>>
                   ELSE << [i \in DOMAIN results |-> results[i][1]] >>
=============================================================================
