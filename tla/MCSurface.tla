----------------------------- MODULE MCSurface -----------------------------
(* Two sessions, two applications, a run and a delegation.                  *)
EXTENDS Surface

CONSTANTS mail, editor, run, kid

TwoApps == {mail, editor}
OneRun == {run}
OneKid == {kid}
=============================================================================
