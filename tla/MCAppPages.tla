------------------------------- MODULE MCAppPages -------------------------------
(***************************************************************************)
(* Two flight plans over two inspections, two states of an airport, two    *)
(* accounts of which one is a super administrator, two airports, three     *)
(* drones with two missions, four templates.                               *)
(***************************************************************************)
EXTENDS AppPages

CONSTANTS i1, i2, ann, bob

Waypoint(id, kind, pt, inspection, recording) ==
  [id |-> id, kind |-> kind, place |-> pt, inspection |-> inspection, recording |-> recording]

MCMapPlans ==
  << << Waypoint("w1", "TAKEOFF", "pa", NoInspection, FALSE),
        Waypoint("w2", "MEASUREMENT", "pb", i1, TRUE), Waypoint("w3", "HOVER", "pb", i1, FALSE),
        Waypoint("w4", "MEASUREMENT", "pc", i2, FALSE), Waypoint("w5", "HOVER", "pc", i2, TRUE) >>,
     << Waypoint("w1", "TRANSIT", "pc", NoInspection, FALSE),
        Waypoint("w2", "HOVER", "pc", i1, FALSE), Waypoint("w3", "MEASUREMENT", "pc", i1, FALSE),
        Waypoint("w4", "MEASUREMENT", "pd", i2, FALSE) >> >>
MCInventory == <<{"lights", "edge", "boundary"}, {"touchpoint", "edge", "lights"}>>

Feature(kind, id, layer, sight, whole) ==
  [kind |-> kind, id |-> id, layer |-> layer, at |-> sight, whole |-> whole]

MCSceneAirports ==
  << { Feature("surface", "rw", "runways", "sa", TRUE),
       Feature("obstacle", "ob", "obstacles", "sa", TRUE),
       Feature("agl", "ag", "aglSystems", "sa", TRUE),
       Feature("lha", "lh", "aglSystems", "sb", TRUE) },
     { Feature("surface", "rw", "runways", "sa", TRUE),
       Feature("safety_zone", "z1", "safetyZones", "sb", TRUE),
       Feature("obstacle", "ob", "obstacles", "sa", FALSE),
       Feature("agl", "ag", "aglSystems", "sa", TRUE) } >>

Stop(id, kind, sight, alt, inspection, hover, heading, target) ==
  [id |-> id, kind |-> kind, at |-> sight, alt |-> alt, inspection |-> inspection,
   hover |-> hover, heading |-> heading, target |-> target]

MCScenePlans ==
  << [way |-> << Stop("w1", "MEASUREMENT", "sb", 1, "i1", 2, "target", "sa"),
                 Stop("w2", "HOVER", "sb", 2, "i1", 0, "target", "sa"),
                 Stop("w3", "TRANSIT", "sa", 6, "i0", 0, "none", NoSight) >>,
      legs |-> <<3, 2>>],
     [way |-> << Stop("w1", "MEASUREMENT", "sa", 1, "i1", 3, "row", "sb"),
                 Stop("w2", "MEASUREMENT", "sa", 2, "i2", 0, "row", "sb") >>,
      legs |-> <<2>>] >>

Infrastructure == {"runways", "taxiways", "safetyZones", "airportBoundary", "obstacles",
                   "bufferZones", "aglSystems"}
MCSceneLayers ==
  << Infrastructure \cup {"trajectory", "transitWaypoints", "measurementWaypoints", "path",
                          "cameraHeading", "pathHeading"},
     (Infrastructure \ {"obstacles"}) \cup {"simplifiedTrajectory"} >>
MCSceneIds == <<{"i1", "i2"}, {"i2"}>>
MCCrowdAt ==
  [sight \in {"sa", "sb"} |->
     IF sight = "sa" THEN {{"rw", "ob"}, {"ob", "w2"}, {"ag", "lh"}}
     ELSE {{"rw", "ag"}, {"lh", "w2"}, {"z1", "ag"}}]
Template(methods, types) == [methods |-> methods, types |-> types]
MCCatalogs ==
  << [agls |-> TRUE,
      of |-> [t1 |-> Template(<<"VERTICAL_PROFILE", "HOVER_POINT_LOCK", "MEHT_CHECK">>, {"PAPI"}),
              t2 |-> Template(<<"FLY_OVER", "HORIZONTAL_RANGE">>, {"PAPI", "RUNWAY_EDGE_LIGHTS"}),
              t3 |-> Template(<<"HOVER_POINT_LOCK", "SURFACE_SCAN">>, {"PAPI"}),
              t4 |-> Template(<<"FLY_OVER", "PARALLEL_SIDE_SWEEP">>, {"RUNWAY_EDGE_LIGHTS"})]],
     [agls |-> FALSE,
      of |-> [t1 |-> Template(<<"MEHT_CHECK", "FLY_OVER">>, {"PAPI"}),
              t2 |-> Template(<<>>, {})]] >>
=================================================================================
