------------------------------ MODULE MCWifiLink ------------------------------
(* WifiLink with two networks to choose from. *)
EXTENDS WifiLink
CONSTANTS home, shop
MCCredentials == {home, shop}
===============================================================================
