--------------------------- MODULE MCKnownHosts ---------------------------
(* A small instance of KnownHosts: two endpoints, two key types.           *)
EXTENDS KnownHosts

Line(host, type, id, marker) ==
    [host |-> host, key |-> [type |-> type, id |-> id], marker |-> marker]

MCFiles ==
    { {},
      {Line("a", "rsa", 1, "plain"), Line("a", "ed", 1, "plain"), Line("b", "ed", 1, "plain")},
      {Line("a", "ed", 1, "plain"), Line("b", "ed", 2, "revoked"), Line("b", "rsa", 2, "ca")} }
===========================================================================
