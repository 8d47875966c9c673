--------------------------- MODULE MCFileTransfer ---------------------------
(***************************************************************************)
(* Instances of FileTransfer for TLC: two files, so that their bytes can   *)
(* be told apart, of one payload and of one and a half.                    *)
(***************************************************************************)
EXTENDS FileTransfer, TLC

CONSTANTS fileA, fileB

SizeDef == (fileA :> 2) @@ (fileB :> 3)
=============================================================================
