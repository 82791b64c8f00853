----------------------------- MODULE MCPipeline -----------------------------
(***************************************************************************)
(* The instance of Pipeline for TLC: severe alerts of two monitors, with   *)
(* one address that must stay reachable, and one of the global feed that is*)
(* not severe.                                                             *)
(***************************************************************************)
EXTENDS Pipeline

Raised(m, severe, ips, pid, path) ==
    [module |-> m, severe |-> severe, ips |-> ips, pid |-> pid, path |-> path]
MCAlert == {Raised("network_monitor", TRUE, <<"lan", "ip1", "ip2">>, FALSE, ""),
            Raised("file_monitor", TRUE, <<>>, TRUE, ""),
            Raised("file_monitor", TRUE, <<>>, FALSE, "f1"),
            Raised("global_feed", FALSE, <<>>, FALSE, "")}
=============================================================================
