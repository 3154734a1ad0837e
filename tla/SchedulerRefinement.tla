------------------------ MODULE SchedulerRefinement ------------------------
(***************************************************************************)
(* DecisionScheduler implements BoundedDecisions.  The backlog is what the *)
(* scheduler holds followed by what the queue holds, so that taking a job  *)
(* from the queue, collecting a batch and running it are invisible.  The   *)
(* capacity is the queue's plus one batch: the scheduler keeps a batch in  *)
(* its hands while the queue fills up again behind it.                     *)
(***************************************************************************)
EXTENDS DecisionScheduler

Mode == IF closed THEN "stopped" ELSE IF runtime THEN "open" ELSE "starting"

Promise == INSTANCE BoundedDecisions
             WITH Capacity  <- MaxRequests + BatchRequests,
                  BatchSize <- BatchRequests,
                  backlog   <- Backlog,
                  verdict   <- fut,
                  mode      <- Mode

(* Every step of the service is a step of the promise or invisible to it.  *)
KeepsPromise == Promise!Spec
=============================================================================
