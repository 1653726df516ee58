------------------------- MODULE MCCaptureLifecycle -------------------------
(* Instances of CaptureLifecycle for TLC: one or two captures, one or two   *)
(* characters, and the commands and faults each configuration explores.     *)
EXTENDS CaptureLifecycle

CONSTANTS c1, c2

OneItem  == {1}
TwoItems == {1, 2}
OneChar  == {c1}
TwoChars == {c1, c2}

AllOps == {"register", "label", "relabel", "requeue", "retry", "archive",
           "delete", "deleteProject", "reset", "missing", "restore",
           "replace", "putBack", "crash"}

\* Without the archive command, which the user interface never calls, and
\* without a source that disappears.
UiOps == AllOps \ {"archive", "missing", "restore"}

\* Without the fault and the command the liveness findings are about (replace,
\* retry), the unused archive command, and deletion.
CalmOps == AllOps \ {"archive", "retry", "replace", "putBack", "delete", "deleteProject"}
=============================================================================
