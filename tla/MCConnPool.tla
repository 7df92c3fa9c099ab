---------------------------- MODULE MCConnPool ----------------------------
(* A small instance of ConnPool for TLC.                                    *)
EXTENDS ConnPool

CONSTANT Closed  \* a destination that allows no session at all

\* Every other destination allows one session per connection.
OneSession == [k \in Keys |-> IF k = Closed THEN 0 ELSE 1]
=============================================================================
