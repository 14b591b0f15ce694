--------------------------- MODULE MCSensorHistory ---------------------------
(* SensorHistory with a numeric and a boolean sensor.                        *)
EXTENDS SensorHistory

CONSTANTS temperature, flame
=============================================================================
