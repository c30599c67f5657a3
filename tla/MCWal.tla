-------------------------------- MODULE MCWal --------------------------------
(* Model-checking instance of Wal.  Two records fill a segment and two log *)
(* records or three index entries fill a buffer, so rotation, a buffer     *)
(* write-out and a lost buffer all happen within six appends.              *)
EXTENDS Wal
==============================================================================
