------------------------- MODULE MCPartialRestore --------------------------
(* Model values for the commands of a partial restore session.            *)
EXTENDS PartialRestore, TLC

CONSTANTS ListJobs, One, Dot, Restore, Dir, CdA, CdB, MarkF, Est, FindT,
          DoneC, QuitC, F1, F2

(* The 'list jobs' timer keeps firing during the session.                  *)
MCBackground == { [pkg |-> [cmd |-> ListJobs, cb |-> "plain"], priority |-> FALSE] }

(* One file in each of the two directories.                                *)
MCFileDir == (F1 :> CdA) @@ (F2 :> CdB)
=============================================================================
