------------------------------ MODULE MCStartup ------------------------------
(* Two controllers, one URL written by hand, and a service started with an unusable id. *)
EXTENDS Startup

MCControllers == {"a", "b"}
MCValid == {"a", "b"}
MCPriority == [c \in MCControllers |-> IF c = "b" THEN 2 ELSE 1]
MCHandUrls == {"hand"}
MCOverrides ==
    [service |-> {Default, [id |-> BadId, url |-> NoUrl]}, cli |-> {Default}]
=============================================================================
