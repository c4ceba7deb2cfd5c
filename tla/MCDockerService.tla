--------------------------- MODULE MCDockerService ---------------------------
(* Instances of DockerService for TLC. *)
EXTENDS DockerService

CONSTANTS b1, b2, h1, h2   \* containers and hosts
TwoBoxes == {b1, b2}
TwoHosts == {h1, h2}

\* A container on each of two hosts, or just one container.
TwoLayouts ==
    LET at(h) == [host |-> h, up |-> "yes"]
        none == [host |-> "none", up |-> "no"]
        layout(x, y) == [b \in TwoBoxes |-> IF b = b1 THEN x ELSE y]
    IN {layout(at(h1), at(h2)), layout(at(h1), none)}
=============================================================================
