------------------------------ MODULE MCMainLoop ------------------------------
(* MainLoop with one network. *)
EXTENDS MainLoop
CONSTANT home
MCCredentials == {home}
===============================================================================
