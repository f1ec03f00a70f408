------------------------------- MODULE MCUploads -------------------------------
(* Model values and symmetry for the runs of Uploads.                                        *)
EXTENDS Uploads, TLC

CONSTANTS o1, o2, sweeper, f1, f2, key

TwoRequests == {o1, o2}
OneFile     == {f1}
TwoFiles    == {f1, f2}

\* Both files come from createUpload calls with the same request id.
RetriedRequest == [f \in Files |-> key]

RequestSymmetry == Permutations(Requests)
================================================================================
