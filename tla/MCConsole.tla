------------------------------ MODULE MCConsole ------------------------------
(* The console on a small instance.                                          *)
EXTENDS Console

Host(mode, connected, targeted, alerts, version, policyVersion) ==
  [mode |-> mode, connected |-> connected, targeted |-> targeted, alerts |-> alerts,
   version |-> version, policyVersion |-> policyVersion]

\* agents that pass everything, fail one check or two, or were never heard of
SomeProfiles ==
  { Host("enforcing", TRUE, TRUE, FALSE, "v1", "31"), Host("enforcing", FALSE, TRUE, TRUE, "v2", "33"),
    Host("permissive", TRUE, TRUE, FALSE, "v1", "33"), Host("disabled", FALSE, FALSE, FALSE, "v2", "33"),
    Host("unknown", TRUE, TRUE, FALSE, "", "") }

SomeSubjects == {<<1, 1, 1>>, <<1, 2, 1>>, <<2, 1, 2>>}
\* a plain observation, a sample of value 0, and one that is no sample
SomeObserved == {<<1, 1>>, <<0, 1>>, <<0, 0>>}
SmallMatrix == <<1, 1>>
SmallHeat == <<2, 2>>
SmallTree == <<2, 1, 1>>
=============================================================================
