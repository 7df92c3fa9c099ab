----------------------------- MODULE MCTransfer -----------------------------
(* Two transfers at a time, in the pairs that meet on some name.            *)
EXTENDS Transfer, TLC

CONSTANTS a, b

MCPairs(pairs) == {a :> p[1] @@ b :> p[2] : p \in pairs}
MCMixes ==
    MCPairs({<<"resume", "resume">>, <<"put", "none">>, <<"sftp", "sftpsha">>, <<"sha", "none">>,
             <<"cp", "none">>, <<"direct", "none">>, <<"get", "getsha">>, <<"getsftp", "none">>,
             <<"getdir", "getdir">>, <<"putdir", "none">>})
MCResume == MCPairs({<<"resume", "resume">>})
=============================================================================
