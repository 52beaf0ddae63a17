-------------------------- MODULE MCQemuConversion --------------------------
(***************************************************************************)
(* The sources TLC tries: files of one name and of another, compressed or  *)
(* not, rightly or wrongly declared, in formats the program accepts or not.*)
(***************************************************************************)
EXTENDS QemuConversion

MCNames == {"disk.vmdk", "data.vmdk"}

MCSources ==
  [compression : {"none", "gzip", "other"}, gzipped : BOOLEAN,
   format : {"vmdk", "other"}, name : MCNames]
=============================================================================
