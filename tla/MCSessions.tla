----------------------------- MODULE MCSessions -----------------------------
(* One caller over a direct connection or one jump host.                    *)
EXTENDS Sessions

Ways(capture, limit, reuse, stdin) == [capture |-> capture, limit |-> limit, reuse |-> reuse, stdin |-> stdin]
MCOptions == {Ways(FALSE, TRUE, FALSE, "file"), Ways(TRUE, TRUE, TRUE, "none"), Ways(FALSE, FALSE, TRUE, "none")}
=============================================================================
