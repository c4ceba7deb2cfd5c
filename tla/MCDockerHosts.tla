---------------------------- MODULE MCDockerHosts ----------------------------
EXTENDS DockerHosts

CONSTANTS u1, u2, u3, c1, c2

ThreeUrls == {u1, u2, u3}
Malformed == {u3}
TwoCerts == {c1, c2}
Plain == [url |-> u1, tls |-> "no"]
Secured == [url |-> u2, tls |-> "yes"]
Mistyped == [url |-> u3, tls |-> "no"]
ThreeConfigs == {Plain, Secured, Mistyped}

\* A named host of the own namespace, and a global default.
Layered == [ns \in Namespaces |-> [n \in Names |->
               CASE ns = "app" /\ n = "named" -> Plain
                 [] ns = "system" /\ n = "default" -> Secured
                 [] OTHER -> Absent]]
OneStart == {Layered}
=============================================================================
