--------------------------- MODULE MCOfflineQueue ---------------------------
(***************************************************************************)
(* Small instances of OfflineQueue.                                        *)
(***************************************************************************)
EXTENDS OfflineQueue

CONSTANTS u1, u2, t1, t2, p1, p2

OneTenant  == [u \in Uploads |-> t1]
TwoTenants == [u \in Uploads |-> IF u = u1 THEN t1 ELSE t2]
OwnPaths   == [u \in Uploads |-> IF u = u1 THEN p1 ELSE p2]

ServeFirst == <<t1>>
ServeBoth  == <<t1, t2>>
=============================================================================
