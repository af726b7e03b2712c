--------------------------- MODULE MCCoordinatorPages ---------------------------
(***************************************************************************)
(* A small office: an airport with a runway and two lights or with two     *)
(* runways, three photos, two drone profiles, two templates over two light *)
(* systems, and lists of three rows at two airports.                       *)
(***************************************************************************)
EXTENDS CoordinatorPages

CONSTANTS r1, r2, u1, u2, u3, p1, p2, p3, g1, g2

MCParentOf == (u1 :> r1) @@ (u2 :> r1)
MCInventories == {{r1, r2}, {r1, u1, u2}}
MCHistoryLimit == ({r1, r2} :> 1) @@ ({r1, u1, u2} :> 2)
MCPhotoSets == {<<p1, p2, p3>>}
MCKindOf == (g1 :> "papi") @@ (g2 :> "edge")
MCUnitsOf == (g1 :> {u1, u2}) @@ (g2 :> {u3})
MCScopeOf == <<"a", "a", "b">>
MCClassOf == <<"x", "y", "x">>
=============================================================================
