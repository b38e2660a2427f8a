----------------------------- MODULE MCHttpServer ------------------------------
(* HttpServer with one connection after another, and slots for two: the sessions *)
(* whose close failed keep theirs, and the descriptors they had.                 *)
EXTENDS HttpServer

CONSTANT c1

MCConns == {c1}
All == {"page", "blob", "api", "ws", "unknown", "post"}
===============================================================================
