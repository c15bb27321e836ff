-------------------------- MODULE MCModelDownload --------------------------
(* A model of two files.  A file has three units in the first version and  *)
(* two in the second, so that a partial file can be longer than the new    *)
(* one (416) as well as shorter (206 over a stale prefix).                 *)
EXTENDS ModelDownload
OneSize  == <<3>>
TwoSizes == <<3, 2>>
=============================================================================
