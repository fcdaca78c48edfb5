------------------------------ MODULE MCIntake ------------------------------
(* Instances of Intake for TLC: one issue that reaches TheStudio by a       *)
(* webhook, by the poller and by an import.                                 *)
EXTENDS Intake, TLC

OneOfEach == { "webhook", "poll", "import" }

\* Each delivery is named after its source.
SourceOf == [ d \in Deliveries |-> d ]

\* Requests are interchangeable.
RequestSymmetry == Permutations(Requests)
=============================================================================
