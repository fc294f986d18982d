----------------------------- MODULE MCBlueGreen -----------------------------
(* The module TLC's runs of BlueGreen start from. *)
EXTENDS BlueGreen
=============================================================================
