------------------------- MODULE MCWriterScheduling -------------------------
(* Instances of WriterScheduling for TLC. *)
EXTENDS WriterScheduling
=============================================================================
