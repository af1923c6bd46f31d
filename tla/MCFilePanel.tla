---------------------------- MODULE MCFilePanel ----------------------------
(* FilePanel with a small set of directories and uploads.                  *)
EXTENDS FilePanel
=============================================================================
