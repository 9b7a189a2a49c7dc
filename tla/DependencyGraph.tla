--------------------------- MODULE DependencyGraph --------------------------
(***************************************************************************)
(* The dependency graph of the orchestrator (src/core/orchestrator.cpp):   *)
(* add_dependency keeps the adjacency lists and their mirror, and          *)
(* validate_acyclic colours the graph by a depth-first search.  The        *)
(* recursion of the dfs lambda is the stack of its activations.            *)
(***************************************************************************)
EXTENDS Integers, Sequences, FiniteSets

CONSTANTS Name,      \* the names an edge may mention, registered or not
          MaxEdges   \* bound on the calls of add_dependency

ASSUME MaxEdgesAssumption == MaxEdges \in Nat

VARIABLES
  adj,        \* name -> downstream names, in insertion order
  rev_adj,    \* name -> upstream names, in insertion order
  edges,      \* calls of add_dependency so far
  status,     \* "building", "dfs", "accepted" or "rejected"
  state,      \* colour of each name; a name the map lacks is unvisited
  stack,      \* activations of dfs: the node and the next index into adj[node]
  unstarted   \* keys of adj the outer loop has not come to

graphVars == <<adj, rev_adj, edges>>
dfsVars == <<state, stack, unstarted>>
vars == <<graphVars, status, dfsVars>>

Frame == [node : Name, next : Nat \ {0}]

Init ==
  /\ adj = [n \in {} |-> <<>>]
  /\ rev_adj = [n \in {} |-> <<>>]
  /\ edges = 0
  /\ status = "building"
  /\ state = [n \in Name |-> "unvisited"]
  /\ stack = <<>>
  /\ unstarted = {}

\* map[k], which is an empty list for a key the map lacks.
At(map, k) == IF k \in DOMAIN map THEN map[k] ELSE <<>>

\* map[k].push_back(v), and an empty list for other when it has none.
PushBack(map, k, v, other) ==
  [n \in DOMAIN map \cup {k, other} |->
     IF n = k THEN Append(At(map, k), v) ELSE At(map, n)]

\* Wrong: the mirror records the edge the way adj does.
add_dependency_unmirrored(from_node, to_node) ==
  /\ status # "dfs"
  /\ edges < MaxEdges
  /\ edges' = edges + 1
  /\ adj' = PushBack(adj, from_node, to_node, to_node)
  /\ rev_adj' = PushBack(rev_adj, from_node, to_node, to_node)
  /\ status' = "building"
  /\ UNCHANGED dfsVars

\* Wrong: a name with no downstream names gets no entry.
add_dependency_unlisted(from_node, to_node) ==
  /\ status # "dfs"
  /\ edges < MaxEdges
  /\ edges' = edges + 1
  /\ adj' = PushBack(adj, from_node, to_node, from_node)
  /\ rev_adj' = PushBack(rev_adj, to_node, from_node, from_node)
  /\ status' = "building"
  /\ UNCHANGED dfsVars

add_dependency(from_node, to_node) ==
  /\ status # "dfs"
  /\ edges < MaxEdges
  /\ edges' = edges + 1
  /\ adj' = PushBack(adj, from_node, to_node, to_node)
  /\ rev_adj' = PushBack(rev_adj, to_node, from_node, from_node)
  /\ status' = "building"
  /\ UNCHANGED dfsVars

-----------------------------------------------------------------------------
(* validate_acyclic                                                        *)

\* Enter: every colour is fresh, the outer loop is at its start.
BeginValidate ==
  /\ status = "building"
  /\ status' = "dfs"
  /\ state' = [n \in Name |-> "unvisited"]
  /\ stack' = <<>>
  /\ unstarted' = DOMAIN adj
  /\ UNCHANGED graphVars

\* One iteration of the loop over the keys of adj, in no particular order.
StartNode(n) ==
  /\ status = "dfs"
  /\ stack = <<>>
  /\ n \in unstarted
  /\ unstarted' = unstarted \ {n}
  /\ IF state[n] = "unvisited"
     THEN /\ state' = [state EXCEPT ![n] = "visiting"]
          /\ stack' = <<[node |-> n, next |-> 1]>>
     ELSE UNCHANGED <<state, stack>>
  /\ UNCHANGED <<graphVars, status>>

Top == stack[Len(stack)]
Below == SubSeq(stack, 1, Len(stack) - 1)
AtEdge == status = "dfs" /\ stack # <<>> /\ Top.next <= Len(At(adj, Top.node))
Target == At(adj, Top.node)[Top.next]
Advanced == [Top EXCEPT !.next = @ + 1]

\* Wrong: a node on the recursion stack is taken for a visited one.
BackEdge_missed ==
  /\ AtEdge
  /\ state[Target] = "visiting"
  /\ stack' = Append(Below, Advanced)
  /\ UNCHANGED <<graphVars, status, state, unstarted>>

\* throw: dependency cycle detected.
BackEdge ==
  /\ AtEdge
  /\ state[Target] = "visiting"
  /\ status' = "rejected"
  /\ UNCHANGED <<graphVars, dfsVars>>

\* self(self, v)
TreeEdge ==
  /\ AtEdge
  /\ state[Target] = "unvisited"
  /\ state' = [state EXCEPT ![Target] = "visiting"]
  /\ stack' = Append(Append(Below, Advanced), [node |-> Target, next |-> 1])
  /\ UNCHANGED <<graphVars, status, unstarted>>

\* Wrong: two edges further.
CrossEdge_skips ==
  /\ AtEdge
  /\ state[Target] = "visited"
  /\ stack' = Append(Below, [Top EXCEPT !.next = @ + 2])
  /\ UNCHANGED <<graphVars, status, state, unstarted>>

\* Wrong: the same edge again.
CrossEdge_stays ==
  /\ AtEdge
  /\ state[Target] = "visited"
  /\ UNCHANGED vars

CrossEdge ==
  /\ AtEdge
  /\ state[Target] = "visited"
  /\ stack' = Append(Below, Advanced)
  /\ UNCHANGED <<graphVars, status, state, unstarted>>

\* Wrong: the node that returns keeps its colour.
FinishNode_visiting ==
  /\ status = "dfs"
  /\ stack # <<>>
  /\ Top.next > Len(At(adj, Top.node))
  /\ stack' = Below
  /\ UNCHANGED <<graphVars, status, state, unstarted>>

\* All descendants are checked; the activation returns.
FinishNode ==
  /\ status = "dfs"
  /\ stack # <<>>
  /\ Top.next > Len(At(adj, Top.node))
  /\ state' = [state EXCEPT ![Top.node] = "visited"]
  /\ stack' = Below
  /\ UNCHANGED <<graphVars, status, unstarted>>

EndValidate ==
  /\ status = "dfs"
  /\ stack = <<>>
  /\ unstarted = {}
  /\ status' = "accepted"
  /\ UNCHANGED <<graphVars, dfsVars>>

ValidateStep ==
  \/ \E n \in Name : StartNode(n)
  \/ BackEdge \/ TreeEdge \/ CrossEdge \/ FinishNode \/ EndValidate

Next ==
  \/ \E from_node, to_node \in Name : add_dependency(from_node, to_node)
  \/ BeginValidate
  \/ ValidateStep

Spec == Init /\ [][Next]_vars

\* validate_acyclic runs on the calling thread and waits for nothing.
FairSpec == Spec /\ WF_vars(ValidateStep)

-----------------------------------------------------------------------------
(* Properties.                                                             *)

Successors(n) == {At(adj, n)[i] : i \in DOMAIN At(adj, n)}
Occurrences(list, n) == Cardinality({i \in DOMAIN list : list[i] = n})

\* Some names each have a successor among them.
Cyclic ==
  \E S \in (SUBSET Name) \ {{}} : \A n \in S : Successors(n) \cap S # {}

ListMapOK(map) ==
  /\ DOMAIN map \subseteq Name
  /\ \A n \in DOMAIN map : map[n] \in Seq(Name)

\* The types of every variable; an activation is at an edge or past the last.
GraphTypeOK ==
  /\ ListMapOK(adj)
  /\ ListMapOK(rev_adj)
  /\ edges \in 0 .. MaxEdges
  /\ status \in {"building", "dfs", "accepted", "rejected"}
  /\ state \in [Name -> {"unvisited", "visiting", "visited"}]
  /\ stack \in Seq(Frame)
  /\ \A i \in DOMAIN stack : stack[i].next <= Len(At(adj, stack[i].node)) + 1
  /\ unstarted \subseteq Name

\* The upstream lists the workers wait on hold every edge that
\* validate_acyclic saw, as often as it was added, and no other.
EdgesMirrored ==
  \A m, n \in Name :
    Occurrences(At(adj, m), n) = Occurrences(At(rev_adj, n), m)

\* Every name dfs can look up has an entry, so that adj[u] never inserts
\* into the map the outer loop is iterating over.
LookupsDoNotInsert ==
  \A n \in DOMAIN adj : Successors(n) \subseteq DOMAIN adj

\* A name is "visiting" exactly while dfs is inside it, once, and each
\* activation was called for the edge the one below it has just taken.
VisitingIsOnStack ==
  status = "dfs" =>
    /\ {n \in Name : state[n] = "visiting"} =
         {stack[i].node : i \in DOMAIN stack}
    /\ \A i, j \in DOMAIN stack : stack[i].node = stack[j].node => i = j
    /\ \A i \in 1 .. Len(stack) - 1 :
         /\ stack[i].next > 1
         /\ stack[i + 1].node = At(adj, stack[i].node)[stack[i].next - 1]

\* validate_acyclic returns for the graphs without a cycle and throws for
\* the others.
VerdictCorrect ==
  /\ status = "accepted" => ~Cyclic
  /\ status = "rejected" => Cyclic

\* Every call of validate_acyclic comes to a verdict.
ValidateTerminates == status = "dfs" ~> status \in {"accepted", "rejected"}

=============================================================================
