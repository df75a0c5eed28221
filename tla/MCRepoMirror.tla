---------------------------- MODULE MCRepoMirror ----------------------------
(* Values of RepoMirror's constants for TLC. *)
EXTENDS RepoMirror, MCRepoService
=============================================================================
