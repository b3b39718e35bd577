---------------------------- MODULE MCKillSwitch ----------------------------
(* Instances of KillSwitch: sessions and strategies are model values.      *)
EXTENDS KillSwitch

CONSTANTS c1, c2, s1, s2, s3

TwoClients == {c1, c2}
ThreeStrategies == {s1, s2, s3}
=============================================================================
