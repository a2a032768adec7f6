---------------------------- MODULE MCInstaller ----------------------------
(* Values for TLC: two controllers and two releases after v0.1. *)
EXTENDS Installer

CONSTANTS v0, v1, v2, missing, foreign

AllReleases == {v0, v1, v2}
=============================================================================
