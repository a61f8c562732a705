------------------------------ MODULE MCExportJob -----------------------------
(* Values for the runs of ExportJob. *)
EXTENDS ExportJob

CONSTANTS r1, r2, j1, j2, d1

MCRequests == {r1, r2}
MCReaders == {d1}
MCJobs == {j1, j2}
===============================================================================
