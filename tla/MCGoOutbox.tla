----------------------------- MODULE MCGoOutbox -----------------------------
(* Requests for GoOutbox.                                                  *)
EXTENDS GoOutbox, TLC

CONSTANTS p1, p2, p3, p4, p5, k1, k2, k3, r1, r2, b1, b2

(* One key with two bodies, and twice with one body for one record; another*)
(* key for that record; another record.                                    *)
Reused == (p1 :> k1) @@ (p2 :> k1) @@ (p3 :> k2) @@ (p4 :> k3) @@ (p5 :> k1)
TwoRecords == (p1 :> r1) @@ (p2 :> r1) @@ (p3 :> r2) @@ (p4 :> r1) @@ (p5 :> r1)
TwoBodies == (p1 :> b1) @@ (p2 :> b2) @@ (p3 :> b1) @@ (p4 :> b1) @@ (p5 :> b1)

(* Two updates of one record, each with a key of its own.                  *)
OwnKeys == (p1 :> k1) @@ (p2 :> k2)
OneRecord == (p1 :> r1) @@ (p2 :> r1)
OneBody == (p1 :> b1) @@ (p2 :> b1)

(* One key and one body for two records.                                   *)
OneKey == (p1 :> k1) @@ (p2 :> k1)
RecordEach == (p1 :> r1) @@ (p2 :> r2)

=============================================================================
