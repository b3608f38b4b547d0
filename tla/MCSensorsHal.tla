---------------------------- MODULE MCSensorsHal ----------------------------
(* Model-checking instance of SensorsHal: bytes at both ends of the signed *)
(* range, and one of another file.                                         *)
EXTENDS SensorsHal

MCSamples == {<<1, 128, 255>>}
MCForeign == <<127, 64, 2>>
=============================================================================
