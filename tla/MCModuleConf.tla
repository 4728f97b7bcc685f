---------------------------- MODULE MCModuleConf ----------------------------
(***************************************************************************)
(* Every file of a server with up to three locations and if blocks, nested *)
(* in every way, with and without the directives, and a right and a wrong  *)
(* simset.                                                                 *)
(***************************************************************************)
EXTENDS ModuleConf

MCSimsets == {112, 113}
=============================================================================
