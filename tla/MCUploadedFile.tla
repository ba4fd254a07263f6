--------------------------- MODULE MCUploadedFile ---------------------------
(***************************************************************************)
(* Instances of UploadedFile for TLC: one or two files, two workers, two   *)
(* service instances.  Uploaders and the first worker share an instance.   *)
(***************************************************************************)
EXTENDS UploadedFile

CONSTANTS f1, f2, w1, w2, i1, i2

MCInstanceOf == [p \in Procs |-> IF p = w2 THEN i2 ELSE i1]
=============================================================================
