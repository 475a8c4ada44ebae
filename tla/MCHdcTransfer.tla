------------------------------ MODULE MCHdcTransfer -----------------------------
(* Instances of HdcTransfer for TLC.                                        *)
EXTENDS HdcTransfer

CONSTANTS f1, f2

MCFiles == {f1, f2}
\* A file, a directory of it alone or of it and a directory of another, and one of an
\* empty directory.
MCJobs == {<<<<>>>>, <<f1>>, <<f1, <<f2>>>>}
================================================================================
