------------------------------- MODULE Tarjan -------------------------------
(***************************************************************************)
(* WaitForGraph::detect_deadlock of crates/crabstash-lock/src/deadlock.rs: *)
(* Tarjan's search with its recursion written as a stack of frames.  The   *)
(* graph does not change during a search (the detector holds its mutex).   *)
(* Keys and successors are visited in the arbitrary order of a HashMap.    *)
(***************************************************************************)
EXTENDS Integers, Sequences, SequencesExt, FiniteSets, WaitForGraph

CONSTANT V      \* transactions

ASSUME VAssumption == IsFiniteSet(V)

VARIABLES
    edges,      \* the graph searched
    indices,    \* from 1; 0 for a vertex not visited
    lowlinks,
    stack,
    frames,     \* the active calls of strongconnect: vertex, successors to go
    sccs,       \* the components found, in order
    over,       \* detect_deadlock has returned
    reported    \* {C} when it returned a victim of the component C, else {}

vars == <<edges, indices, lowlinks, stack, frames, sccs, over, reported>>

\* A graph add_wait_edge can build: no transaction waits for itself.
Init ==
    /\ edges \in {E \in [V -> SUBSET V] : \A v \in V : v \notin E[v]}
    /\ indices = [v \in V |-> 0]
    /\ lowlinks = [v \in V |-> 0]
    /\ stack = <<>>
    /\ frames = <<>>
    /\ sccs = <<>>
    /\ over = FALSE
    /\ reported = {}

Visited(v) == indices[v] # 0

\* The entry of strongconnect; base is the stack of the calls below it.
Enter(v, base) ==
    LET index_counter == 1 + Cardinality({u \in V : Visited(u)})
    IN  /\ indices' = [indices EXCEPT ![v] = index_counter]
        /\ lowlinks' = [lowlinks EXCEPT ![v] = index_counter]
        /\ stack' = Append(stack, v)
        /\ frames' = Append(base, [v |-> v, todo |-> edges[v]])
        /\ UNCHANGED <<edges, sccs, over, reported>>

\* The loop of detect_deadlock: a vertex with an entry in edges.
Start(v) ==
    /\ frames = <<>> /\ ~over
    /\ edges[v] # {} /\ ~Visited(v)
    /\ Enter(v, <<>>)

\* Faulty variant of Visit below: a vertex that left the stack counts too.
VisitOffStack(w) ==
    LET v    == Last(frames).v
        rest == Append(Front(frames), [v |-> v, todo |-> Last(frames).todo \ {w}])
    IN  /\ frames # <<>> /\ w \in Last(frames).todo
        /\ \/ ~Visited(w) /\ Enter(w, rest)
           \/ /\ Visited(w)
              /\ frames' = rest
              /\ lowlinks' = IF indices[w] < lowlinks[v]
                             THEN [lowlinks EXCEPT ![v] = indices[w]] ELSE lowlinks
              /\ UNCHANGED <<edges, indices, stack, sccs, over, reported>>

\* One successor of the vertex on top, w: recursion into it, or its index if
\* it is still on the stack, or nothing.
Visit(w) ==
    LET v    == Last(frames).v
        rest == Append(Front(frames), [v |-> v, todo |-> Last(frames).todo \ {w}])
    IN  /\ frames # <<>> /\ w \in Last(frames).todo
        /\ \/ ~Visited(w) /\ Enter(w, rest)
           \/ /\ Visited(w)
              /\ frames' = rest
              /\ lowlinks' = IF Contains(stack, w) /\ indices[w] < lowlinks[v]
                             THEN [lowlinks EXCEPT ![v] = indices[w]] ELSE lowlinks
              /\ UNCHANGED <<edges, indices, stack, sccs, over, reported>>

\* Faulty variant of Finish below: the caller does not take the lowlink over.
FinishKeepingLowlink ==
    LET v    == Last(frames).v
        from == CHOOSE i \in DOMAIN stack : stack[i] = v
    IN  /\ frames # <<>> /\ Last(frames).todo = {}
        /\ \/ /\ lowlinks[v] = indices[v]
              /\ sccs' = Append(sccs, {stack[i] : i \in from .. Len(stack)})
              /\ stack' = SubSeq(stack, 1, from - 1)
           \/ /\ lowlinks[v] # indices[v]
              /\ UNCHANGED <<sccs, stack>>
        /\ frames' = Front(frames)
        /\ UNCHANGED <<edges, indices, lowlinks, over, reported>>

\* The end of strongconnect: pop a component off the stack if v is its root,
\* return, and let the caller take the lowlink over.
Finish ==
    LET v    == Last(frames).v
        from == CHOOSE i \in DOMAIN stack : stack[i] = v
    IN  /\ frames # <<>> /\ Last(frames).todo = {}
        /\ \/ /\ lowlinks[v] = indices[v]
              /\ sccs' = Append(sccs, {stack[i] : i \in from .. Len(stack)})
              /\ stack' = SubSeq(stack, 1, from - 1)
           \/ /\ lowlinks[v] # indices[v]
              /\ UNCHANGED <<sccs, stack>>
        /\ frames' = Front(frames)
        /\ lowlinks' = IF frames' # <<>> /\ lowlinks[v] < lowlinks[Last(frames').v]
                       THEN [lowlinks EXCEPT ![Last(frames').v] = lowlinks[v]] ELSE lowlinks
        /\ UNCHANGED <<edges, indices, over, reported>>

\* The search is over: the first component of more than one member is reported.
Report ==
    /\ frames = <<>> /\ ~over
    /\ \A v \in V : edges[v] # {} => Visited(v)
    /\ over' = TRUE
    /\ LET found == {i \in DOMAIN sccs : Cardinality(sccs[i]) > 1}
       IN  reported' = {sccs[i] : i \in {j \in found : \A k \in found : j <= k}}
    /\ UNCHANGED <<edges, indices, lowlinks, stack, frames, sccs>>

Finished == over /\ UNCHANGED vars

Next == (\E v \in V : Start(v) \/ Visit(v)) \/ Finish \/ Report \/ Finished

Spec == Init /\ [][Next]_vars

-----------------------------------------------------------------------------
\* The search returns a victim exactly when there is a cycle, and the component
\* it takes the victim from is a strongly connected component of the graph.
ReportsADeadlock ==
    over => /\ reported \subseteq Deadlocks(edges)
            /\ reported = {} => Deadlocks(edges) = {}

\* Every component popped off the stack, also in the middle of the search, is
\* a whole strongly connected component, and none is popped twice.
ComponentsAreExact ==
    /\ \A i \in DOMAIN sccs : \A v \in sccs[i] : sccs[i] = Scc(edges, v)
    /\ \A i, j \in DOMAIN sccs : i # j => sccs[i] # sccs[j]
=============================================================================
