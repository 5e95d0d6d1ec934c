-------------------------------- MODULE MCFileIO -------------------------------
(* Instances of FileIO for TLC. *)
EXTENDS FileIO

CONSTANTS writer1, writer2

================================================================================
