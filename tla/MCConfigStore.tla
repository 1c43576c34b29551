---------------------------- MODULE MCConfigStore ----------------------------
(***************************************************************************)
(* Model values of ConfigStore: the versions of two images, 1.0 and 1.1.   *)
(***************************************************************************)
EXTENDS ConfigStore

MCImages == {<<0, 1, 0, 0>>, <<0, 1, 0, 1>>}
=============================================================================
