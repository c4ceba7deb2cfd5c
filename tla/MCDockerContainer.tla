-------------------------- MODULE MCDockerContainer --------------------------
(* Instances of DockerContainer for TLC. *)
EXTENDS DockerContainer, TLC

CONSTANTS web, db   \* DockerContainer objects

Plain(n) ==
    [containerName |-> n, image |-> "v1", command |-> "Unset", env |-> {},
     envVars |-> {}, restartPolicy |-> "Unset", resources |-> "Unset",
     others |-> "ports 1", secretVolumes |-> {}]
Tuned(n)     == [Plain(n) EXCEPT !.command = "serve", !.env = {"A=1"},
                    !.envVars = {"TOKEN"}, !.restartPolicy = "always",
                    !.resources = "1 cpu"]
Replaced(n)  == [Plain(n) EXCEPT !.image = "v2", !.secretVolumes = {"cert", "key"}]
Broken(n)    == [Plain(n) EXCEPT !.command = "typo"]

One  == {web}
Two  == {web, db}
Editing    == [c \in One |-> {Plain("web"), Tuned("web"), Replaced("web"), Broken("web")}]
Apart      == (web :> {Plain("web"), Tuned("web"), Replaced("web")}) @@ (db :> {Plain("db")})
=============================================================================
