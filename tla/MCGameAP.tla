------------------------------ MODULE MCGameAP ------------------------------
(***************************************************************************)
(* Two runs of the provision command, small enough for TLC: one of them    *)
(* with every interruption, or two playbooks side by side.                 *)
(***************************************************************************)
EXTENDS GameAP, TLC

CONSTANTS r1, r2

Scenario(first, second, database, faults) ==
    [plays |-> (r1 :> first @@ r2 :> second), db |-> database, faults |-> faults]

MCScenarios ==
    {Scenario("panel", "panel", "none", FALSE),
     Scenario("enrol", "enrol", "initialized", FALSE),
     Scenario("enrol", "daemon", "initialized", FALSE),
     Scenario("panel", "nothing", "none", TRUE),
     Scenario("enrol", "nothing", "initialized", TRUE)}

=============================================================================
