----------------------------- MODULE MCDevicePnp -----------------------------
(* Instances of DevicePnp for TLC. *)
EXTENDS DevicePnp

\* A radio with all pipes, one that cannot be written to, one that cannot be
\* read, and one without pipes.
MCLayouts == {Kinds, {"InterruptPipe", "BulkReadPipe"},
              {"InterruptPipe", "BulkWritePipe"}, {"BulkReadPipe"}, {}}
==============================================================================
