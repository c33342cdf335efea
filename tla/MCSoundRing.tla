---------------------------- MODULE MCSoundRing ----------------------------
(* Three buffers of two samples, offsets that wrap after two rings.         *)
EXTENDS SoundRing
===========================================================================
