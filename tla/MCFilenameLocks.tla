---------------------------- MODULE MCFilenameLocks ----------------------------
(* Four session threads and two filenames: two pairs of threads that contend,  *)
(* or three waiting behind one.  One entry object per thread is enough.       *)
EXTENDS FilenameLocks
===============================================================================
