-------------------------- MODULE MCInHomeDevices --------------------------
(***************************************************************************)
(* A household of the gateway alone, one of two clients, and one whose     *)
(* digits select an error.                                                 *)
(***************************************************************************)
EXTENDS InHomeDevices

MCSsid == {<<0, 0, 0>>, <<0, 0, 2>>, <<4, 0, 9>>}

=============================================================================
