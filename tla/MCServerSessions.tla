--------------------------- MODULE MCServerSessions ---------------------------
(***************************************************************************)
(* Two requests that drive the graph, one that reads, and two connections:  *)
(* a request can be alone, two can use up the pool, a third can wait.      *)
(***************************************************************************)
EXTENDS ServerSessions

CONSTANTS q1, q2, q3
MCRequests == {q1, q2, q3}
MCMayAsk == [q \in MCRequests |-> IF q = q1 THEN {"create", "approve"}
                                  ELSE IF q = q2 THEN {"create", "approve"} ELSE {"read"}]
=============================================================================
