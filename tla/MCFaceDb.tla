------------------------------ MODULE MCFaceDb ------------------------------
(***************************************************************************)
(* Small instances of FaceDb for model checking; the configurations        *)
(* facedb_*.cfg give the constants their values.                           *)
(***************************************************************************)
EXTENDS FaceDb
=============================================================================
