----------------------------- MODULE JobContract -----------------------------
(***************************************************************************)
(* What a DockerJob promises whoever applies it, without its container,    *)
(* caches and calls (docs/jobs.md): the container is run, and run again at *)
(* most backoffLimit times; one result is reported, once, and with a       *)
(* reason; a job that succeeded, has reported or is gone runs no more.     *)
(* DockerJob implements this.                                              *)
(*                                                                         *)
(* Mishaps of the control plane (a crash, a lost status update, a stale    *)
(* read, a container removed by somebody else) may each cost one more run. *)
(* Docker errors may make the job fail.                                    *)
(***************************************************************************)
EXTENDS Integers

CONSTANT Codes    \* exit codes

VARIABLES
    limit,     \* backoffLimit
    deadline,  \* whether there is an activeDeadlineSeconds
    runs,      \* how often the container has been started
    codes,     \* the exit codes of runs
    result,    \* the reported result
    life,      \* whether the job is still there
    mishaps,   \* mishaps so far
    errors     \* Docker errors so far

vars == <<limit, deadline, runs, codes, result, life, mishaps, errors>>

Init ==
    /\ limit \in Nat /\ deadline \in {"no", "yes"}
    /\ runs = 0 /\ codes = {} /\ result = "None" /\ life = "there"
    /\ mishaps = 0 /\ errors = 0

\* A run, also one that is thought to have failed to start.  Without a mishap there
\* is none after a success or a report.
Run ==
    /\ life = "there" /\ runs <= limit + mishaps
    /\ mishaps > 0 \/ (0 \notin codes /\ result = "None")
    /\ runs' = runs + 1 /\ errors' \in {errors, errors + 1}
    /\ UNCHANGED <<limit, deadline, codes, result, life, mishaps>>

\* The end of a run, before the report unless something went wrong.
End ==
    /\ runs > 0 /\ (result = "None" \/ mishaps + errors > 0)
    /\ \E c \in Codes : codes' = codes \cup {c}
    /\ UNCHANGED <<limit, deadline, runs, result, life, mishaps, errors>>

\* Success takes a run that ended with 0; failure that there was none and the retries
\* are used up, or a deadline, or something that went wrong.
Report ==
    /\ life = "there" /\ result = "None"
    /\ \/ result' = "Succeeded" /\ 0 \in codes
       \/ /\ result' = "Failed"
          /\ (runs > limit /\ 0 \notin codes) \/ deadline = "yes" \/ mishaps + errors > 0
    /\ UNCHANGED <<limit, deadline, runs, codes, life, mishaps, errors>>

Leave ==
    /\ life = "there" /\ life' = "gone"
    /\ UNCHANGED <<limit, deadline, runs, codes, result, mishaps, errors>>

GoWrong ==
    /\ \/ mishaps' = mishaps + 1 /\ UNCHANGED errors
       \/ errors' = errors + 1 /\ UNCHANGED mishaps
    /\ UNCHANGED <<limit, deadline, runs, codes, result, life>>

Next == Run \/ End \/ Report \/ Leave \/ GoWrong
Spec == Init /\ [][Next]_vars
=============================================================================
