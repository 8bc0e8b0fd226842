---------------------------- MODULE MCSendSetup ----------------------------
(* SendSetup on two or three of its parts with two values each, for TLC. *)
EXTENDS SendSetup

LiveFields    == {"dashboard", "brightness", "sound"}
RestartFields == {"deviceConfig", "car", "rotation"}
MixedFields   == {"brightness", "deviceConfig", "rotation"}
ReadFields    == {"dashboard", "deviceConfig"}
=============================================================================
