--------------------------- MODULE MCDockerPanel ---------------------------
(* DockerPanel with a small set of containers and images.                  *)
EXTENDS DockerPanel
=============================================================================
