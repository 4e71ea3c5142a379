----------------------------- MODULE SessionStore -----------------------------
(***************************************************************************)
(* The append-only journal of one agent session: riskprobe.agents.sessions.*)
(* A node is identified by the hash of its content, which includes its     *)
(* sequence number; here its identity is that number.  The agent never     *)
(* forks a branch, so all nodes share the branch of the root.              *)
(***************************************************************************)
EXTENDS Naturals, Sequences, FiniteSets

VARIABLE nodes

\* _persist_node: a node takes the next number.
PersistNode(node) == nodes' = Append(nodes, node)

\* _require_valid_session: there are nodes, and parents come before children.
ValidSession == nodes # <<>> /\ \A n \in 1..Len(nodes) : nodes[n].parent < n

\* create_session: refused when the session exists.
CreateSession(root) ==
  /\ nodes = <<>>
  /\ PersistNode([kind |-> "root", parent |-> 0, retryOf |-> 0, call |-> root])

Child(parent, call) ==
  [kind |-> "child", parent |-> parent, retryOf |-> 0, call |-> call]

RetryNode(parent, call) ==
  [kind |-> "retry", parent |-> parent, retryOf |-> parent, call |-> call]

\* append_child: the parent must be there.
AppendChild(parent, call) ==
  /\ ValidSession
  /\ parent \in 1..Len(nodes)
  /\ PersistNode(Child(parent, call))

\* branch: from a node up to the root.  A parent has a smaller number.
Branch(leaf) ==
  LET above[n \in 0..Len(nodes)] ==
        IF n = 0 THEN <<>> ELSE Append(above[nodes[n].parent], n)
  IN  above[leaf]

\* replay: all nodes of the session, in order.
Replay == [n \in 1..Len(nodes) |-> n]

\* _session_attempts: what follows the root and each retry node, up to the next.
AttemptStarts ==
  LET starts == {n \in 1..Len(nodes) : nodes[n].kind \in {"root", "retry"}}
  IN  CHOOSE s \in [1..Cardinality(starts) -> starts] :
        \A i, j \in DOMAIN s : i < j => s[i] < s[j]
Attempts ==
  LET starts == AttemptStarts \o <<Len(nodes) + 1>>
  IN  [k \in 1..Len(AttemptStarts) |->
        [i \in 1..(starts[k + 1] - starts[k] - 1) |-> starts[k] + i]]

SessionInit == nodes = <<>>
=============================================================================
