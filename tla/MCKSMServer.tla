---------------------------- MODULE MCKSMServer ----------------------------
(* Instances of KSMServer for TLC: a window manager and applications. *)
EXTENDS KSMServer

CONSTANTS wmc, app1, app2, null

MCPair      == {wmc, app1}
MCClient2   == {wmc, app1}
MCClient3   == {wmc, app1, app2}
MCProgramOf2 == [c \in MCClient2 |-> IF c = wmc THEN "kwin" ELSE "other"]
MCProgramOf3 == [c \in MCClient3 |-> IF c = wmc THEN "kwin" ELSE "other"]
=============================================================================
