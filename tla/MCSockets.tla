----------------------------- MODULE MCSockets -----------------------------
(***************************************************************************)
(* Two runs of ktctl against one init, which may be the machine's init or  *)
(* not and may have a fatal error: the pairs that contend for both mutexes *)
(* and the pairs of power requests.                                        *)
(***************************************************************************)
EXTENDS Sockets, TLC
CONSTANTS c1, c2
MCClients == {c1, c2}
Pair(a, b) == (c1 :> a) @@ (c2 :> b)
MCOps == {Pair("log", "state"), Pair("log", "force"), Pair("shutdown", "shutdown")}
MCState == {Pair("log", "state")}
MCShutdown == {Pair("shutdown", "target")}
=============================================================================
