----------------------------- MODULE MCRecorder -----------------------------
(***************************************************************************)
(* Instances of RecorderTasks for TLC: an initialize request, a response   *)
(* with a session id, and a message too long for a line.                   *)
(***************************************************************************)
EXTENDS RecorderTasks

CONSTANT s1     \* a session id

MCIds == {s1}

MCEvents ==
    {[dir |-> "client-to-server", body |-> "message", fits |-> TRUE, opens |-> TRUE, ids |-> {}],
     [dir |-> "server-to-client", body |-> "http", fits |-> TRUE, opens |-> FALSE, ids |-> {s1}],
     [dir |-> "server-to-client", body |-> "message", fits |-> FALSE, opens |-> FALSE, ids |-> {}]}

MCCloseEvent == LifecycleEvent("client-to-server", "transport-close")
=============================================================================
