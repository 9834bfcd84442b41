--------------------------- MODULE MCCyclePhases ---------------------------
(* Instances of CyclePhases for TLC. *)
EXTENDS CyclePhases

CONSTANTS a, b, g1, g2

\* The second snapshot has grown by an incident.  It can be classified with
\* and without Stage 2, to different scopes.
Grown == <<{a}, {a, b}>>

\* Two pulls of the same incident, with different texts.
Repulled == <<{a}, {a}>>

\* Manifests that differ in the snapshot they pin, in whether they declare the
\* spec and in whether they bind a gold set.
SomeManifests == {[schema |-> 3, snapshot |-> 2, specs |-> {1}, gold |-> g1],
                  [schema |-> 1, snapshot |-> 1, specs |-> {}, gold |-> Absent]}

SomeScopes == {{a}, {b}}
=============================================================================
