----------------------------- MODULE MCSsTable -----------------------------
(* A small instance of SsTable.                                            *)
EXTENDS SsTable

CONSTANTS f1, f2, q1, q2

MCRuns  == (f1 :> {<<2, 3, 5, 6, 8>>, <<3>>}) @@ (f2 :> {<<4>>})
MCHash1 == [k \in 1 .. 9 |-> (7 * k) % Word]
MCHash2 == [k \in 1 .. 9 |-> 5 * k + 1]
MCAsks  == (q1 :> {<<f1, 3, 6>>, <<f1, 5, 9>>, <<f1, 7, 7>>, <<f1, 4, 4>>, <<f2, 4, 4>>})
           @@ (q2 :> {<<f1, 1, 4>>, <<f1, 6, 7>>})
=============================================================================
