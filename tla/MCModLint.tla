----------------------------- MODULE MCModLint ------------------------------
(***************************************************************************)
(* ModLint for TLC: one directive of another module, and one misspelled;   *)
(* one kind of config_rec, as nothing in ModLint depends on the kinds of   *)
(* others.                                                                 *)
(***************************************************************************)
EXTENDS ModLint

MCDirectives == {"Umask"}
MCMisspelled == {"Umaks"}
MCKinds == {Param("Umask")}
=============================================================================
