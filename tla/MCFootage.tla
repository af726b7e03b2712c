------------------------------ MODULE MCFootage ------------------------------
(***************************************************************************)
(* A small instance of Footage: one run, the two processes of the worker   *)
(* and one browser; two inspections of one mission, another mission        *)
(* without inspections, three files.  The texts of the QR code land on     *)
(* version 2 at the level the panel uses, and on version 5 at the highest  *)
(* one, whose blocks have two sizes.                                       *)
(***************************************************************************)
EXTENDS Footage

CONSTANTS m1, i1, i2

MCBytes == [n \in {25, 40} |-> [i \in 1..n |-> (37 * i) % 256]]
MCQrCases == {<<25, 2>>, <<40, 4>>}
MCMissionOf == (i1 :> m1) @@ (i2 :> m1)
=============================================================================
