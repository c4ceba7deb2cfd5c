----------------------------- MODULE MCDockerJob -----------------------------
(* Instances of DockerJob for TLC. *)
EXTENDS DockerJob

JobSpec(backoff, deadline, ttl) ==
    [backoffLimit |-> backoff, deadline |-> deadline, ttl |-> ttl, restartPolicy |-> "Never"]

\* No retry and one retry; with and without a deadline and a TTL; OnFailure.
AllSpecs ==
    {JobSpec(0, Unset, Unset), JobSpec(0, 0, 0), JobSpec(1, Unset, 0), JobSpec(1, 1, Unset),
     [JobSpec(1, Unset, 1) EXCEPT !.restartPolicy = "OnFailure"]}

\* No time limits: the retries alone.
RetrySpecs == {JobSpec(0, Unset, Unset), JobSpec(1, Unset, Unset)}

\* Retries, a deadline with and without a TTL, a TTL alone.
TimedSpecs ==
    RetrySpecs \cup {JobSpec(0, 1, Unset), JobSpec(1, 1, 1), JobSpec(0, 0, 0), JobSpec(1, Unset, 1)}
=============================================================================
