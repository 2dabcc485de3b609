---------------------------- MODULE MCHsmRuntime ----------------------------
(***************************************************************************)
(* Instances of HsmRuntime, and what the example files and the generated   *)
(* code say of particular machines.                                        *)
(***************************************************************************)
EXTENDS HsmRuntime, HsmExamples

-----------------------------------------------------------------------------
Light(name) == T!FindState(TrafficLight, <<"Operating", name>>)

\* specs/behavior/trafficlight.hsm says of Red: on Timer -> Green.  When the
\* call of dispatch that handled Timer in Red returns, the light is green.
TimerTurnsGreen ==
  [][Finish /\ F.event = "Timer" /\ F.check = Light("Red")
       => current = Light("Green")]_vars

=============================================================================
