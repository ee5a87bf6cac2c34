----------------------------- MODULE MCPrintJob ------------------------------
(***************************************************************************)
(* An instance of PrintJob: a job of two designs on two blanks, with a line *)
(* nobody knows the blank of, and a job that wants one of the same blanks.  *)
(***************************************************************************)
EXTENDS PrintJob, TLC

CONSTANTS s1, s2, white, black, fox, owl, elk, odd

Blanks == fox :> white @@ owl :> black @@ elk :> white @@ odd :> NoBlank
TwoJobs == "p1" :> <<[sku |-> fox, quantity |-> 2], [sku |-> odd, quantity |-> 1],
                     [sku |-> owl, quantity |-> 1]>>
           @@ "p2" :> <<[sku |-> elk, quantity |-> 1]>>
Start == [row \in Rows |-> IF row[1] = white THEN 3 ELSE IF row[1] = black THEN 1 ELSE 0]
OneShelf == "A" :> "A"
NoLots == [l \in {} |-> white]

RequestSymmetry == Permutations({s1, s2})

=============================================================================
