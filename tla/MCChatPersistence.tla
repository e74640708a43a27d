------------------------- MODULE MCChatPersistence --------------------------
(* Instances of ChatPersistence for TLC.                                   *)
EXTENDS ChatPersistence, TLC

\* One status of each branch of _raise_for_status, and one it leaves to
\* httpx; one body defect stands for them all.
MCStatus == {200, 401, 403, 404, 408, 429, 500, 502, 503, 504}

Symmetry == Permutations(Request)
=============================================================================
