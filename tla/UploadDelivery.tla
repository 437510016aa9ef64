--------------------------- MODULE UploadDelivery ---------------------------
(***************************************************************************)
(* What the offline queue promises of each upload, without queue, retries  *)
(* or workers: an upload that was taken in ends as one document or in the  *)
(* dead letters, and that is final.  When Lossy, it may also be lost.      *)
(***************************************************************************)
CONSTANTS Uploads,
          Lossy   \* the process or Redis may fail

VARIABLE fate   \* new | pending | stored | dead | lost

DeliveryInit == fate = [u \in Uploads |-> "new"]

Becomes(u, from, to) == fate[u] = from /\ fate' = [fate EXCEPT ![u] = to]

Take(u)   == Becomes(u, "new", "pending")
Store(u)  == Becomes(u, "pending", "stored")
GiveUp(u) == Becomes(u, "pending", "dead")

\* A crash may lose several at once.
Lose ==
    /\ Lossy
    /\ \E S \in SUBSET {u \in Uploads : fate[u] = "pending"} :
          fate' = [u \in Uploads |-> IF u \in S THEN "lost" ELSE fate[u]]

DeliveryNext ==
    \/ \E u \in Uploads : Take(u) \/ Store(u) \/ GiveUp(u)
    \/ Lose

DeliverySpec == DeliveryInit /\ [][DeliveryNext]_fate
=============================================================================
