-------------------------- MODULE MCClientPrograms --------------------------
(***************************************************************************)
(* Instance of ClientPrograms: two clients that share a node_id.           *)
(***************************************************************************)
EXTENDS ClientPrograms

CONSTANTS a, b, n1, n2

\* Client b runs connect_basic, a any of the programs.
MCAssignments ==
  {f \in [{a, b} -> Programs] : f[b] = "connect_basic"}

\* cmd_query_node and cmd_list_nodes do the same with their answers.
MCMenuRequests == Requests \ [type : {"QUERY_NODE"}, id : NodeIds]

MCNodeOf == [c \in {a, b} |-> n1]
=============================================================================
