---------------------------- MODULE MCShaMemory ----------------------------
(* The numbers of the repository: 16 files, 6 workers, 8 processors, 8 MB.  *)
EXTENDS ShaMemory

(* in_file1.asc to in_file16.asc                                           *)
FileSize(f) ==
  IF f = 0 THEN 354665 ELSE IF f = 1 THEN 368940
  ELSE IF f < 13 THEN 311824 ELSE 935472
=============================================================================
