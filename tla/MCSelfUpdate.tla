---------------------------- MODULE MCSelfUpdate ----------------------------
EXTENDS SelfUpdate
CONSTANTS p1, p2
MCInstalled == <<1, 0>>
MCRelease == {<<1, 1>>, <<2, 0>>}
MCMinor == {<<1, 1>>}
=============================================================================
