-------------------------- MODULE MCPendingLedger --------------------------
(***************************************************************************)
(* A small instance of PendingLedger: two aliases, two private keys, a     *)
(* device that starts with one key two hosts share.                        *)
(***************************************************************************)
EXTENDS PendingLedger

Web == <<"web", 1>>
Db  == <<"db", 1>>

Change(action, alias, auth, keyName, material, fields, prune) ==
    [action |-> action, alias |-> alias, auth |-> auth, keyName |-> keyName,
     material |-> material, fields |-> fields, prune |-> prune]

MCHostChanges ==
    UNION { { Change("add", a, "password", NoName, 0, 1, FALSE),
              Change("add", a, "keep", NoName, 0, 1, FALSE),
              Change("upsert", a, "saved", Web, 0, 1, FALSE),
              Change("update", a, "password", NoName, 0, 0, FALSE),
              Change("update", a, "keep", NoName, 0, 2, FALSE),
              Change("update", a, "file", NoName, 2, 0, FALSE),
              Change("upsert", a, "file", Web, 1, 1, FALSE),
              Change("remove", a, "keep", NoName, 0, 0, TRUE),
              Change("remove", a, "keep", NoName, 0, 0, FALSE) } : a \in {Web, Db} }

Server(name, material, complete) ==
    [name |-> name, material |-> material, fields |-> 1, complete |-> complete]

MCImports ==
    { <<Server("web", 2, TRUE), Server("web", 2, TRUE), Server("db", 0, FALSE)>>,
      <<Server("db", 0, TRUE)>> }

Key(k, material) == [EmptyInventory.keys EXCEPT ![k] = material]

MCInitial ==
    { EmptyInventory,
      [conns |-> [EmptyInventory.conns EXCEPT ![Web] = [auth |-> Web, fields |-> 1],
                                              ![Db]  = [auth |-> Web, fields |-> 1]],
       keys  |-> Key(Web, 1)] }
=============================================================================
