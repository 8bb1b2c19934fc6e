---------------------------- MODULE MCUploadZone ----------------------------
(***************************************************************************)
(* Files to upload.                                                        *)
(***************************************************************************)
EXTENDS UploadZone

CONSTANTS f1, f2

=============================================================================
