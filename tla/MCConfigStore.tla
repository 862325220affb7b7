---------------------------- MODULE MCConfigStore ----------------------------
(***************************************************************************)
(* Small instances of ConfigStore for model checking: one framework        *)
(* setting, and an application setting for each of two tasks.              *)
(***************************************************************************)
EXTENDS ConfigStore

CONSTANTS output, ble, logLevel, speakerVolume, password, low, high

SetsOfTasks == [t \in Tasks |-> CASE t = output -> {logLevel, speakerVolume}
                                  [] t = ble    -> {password}]
FactoryValues == [f \in Fields |-> high]
=============================================================================
