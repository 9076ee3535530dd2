---------------------------- MODULE ImportGraph -----------------------------
(***************************************************************************)
(* The dependency graph of imports (internal/imports/graph.go): Tarjan's   *)
(* algorithm for the cycles, the dependency order and the chain between    *)
(* two files, as the recursive functions of the source.  nodes maps a file *)
(* to the files it imports, which need not have a node of their own.       *)
(***************************************************************************)
EXTENDS Integers, Sequences, SequencesExt, FiniteSets, TLC

CONSTANTS Paths,      \* the files, in the order of their names
          MaxImports  \* bound on the imports of a file

VARIABLE nodes
vars == <<nodes>>

ImportsOf(p) == IF p \in DOMAIN nodes THEN nodes[p] ELSE <<>>

Init == nodes = <<>>

\* AddNode replaces the node of a file.
AddNode(p, imports) == nodes' = (p :> imports) @@ nodes

\* AddFromResolved: an edge from the root to every resolved file, and for each
\* of these a node with the imports of its package declaration, of which the
\* parser makes none.
AddFromResolved(root, resolved) ==
  nodes' = [p \in ToSet(resolved) |-> <<>>] @@ (root :> resolved) @@ nodes

Lists == BoundedSeq(ToSet(Paths), MaxImports)
Next ==
  \/ \E p \in ToSet(Paths), imports \in Lists : AddNode(p, imports)
  \/ \E p \in ToSet(Paths), resolved \in Lists : AddFromResolved(p, resolved)
Spec == Init /\ [][Next]_vars

----------------------------------------------------------------------------
\* strongconnect and its loop over the imports of v.  t holds the fields of
\* the tarjan struct; onStack is membership in t.stack.
Known(t, v) == v \in DOMAIN t.indices
Lower(t, v, n) == IF n < t.lowlink[v] THEN [t EXCEPT !.lowlink[v] = n] ELSE t

\* Variant: an import already seen counts although its component is closed.
VisitClosed(t, v, w) == Lower(t, v, t.indices[w])

\* An import that was seen before.
Visit(t, v, w) == IF w \in ToSet(t.stack) THEN Lower(t, v, t.indices[w]) ELSE t

\* The component whose root is v is popped off the stack.
Popped(t, v) ==
  LET i == CHOOSE j \in 1 .. Len(t.stack) : t.stack[j] = v
  IN  [t EXCEPT !.stack = SubSeq(@, 1, i - 1),
                !.sccs = Append(@, Reverse(SubSeq(t.stack, i, Len(t.stack))))]

RECURSIVE strongconnect(_, _), Successors(_, _, _)
Successors(t, v, imports) ==
  IF imports = <<>> THEN t
  ELSE LET w == Head(imports)
           u == strongconnect(t, w)
       IN  Successors(IF Known(t, w) THEN Visit(t, v, w) ELSE Lower(u, v, u.lowlink[w]),
                      v, Tail(imports))
strongconnect(t, v) ==
  LET entered == [index   |-> t.index + 1, stack |-> Append(t.stack, v), sccs |-> t.sccs,
                  indices |-> (v :> t.index) @@ t.indices, lowlink |-> (v :> t.index) @@ t.lowlink]
      u == Successors(entered, v, ImportsOf(v))
  IN  IF u.lowlink[v] = u.indices[v] THEN Popped(u, v) ELSE u

\* DetectCycles starts from every node not yet seen, in the order of the map,
\* and keeps the components of several files and the files importing themselves.
RECURSIVE Components(_, _)
Components(t, order) ==
  IF order = <<>> THEN t.sccs
  ELSE Components(IF Known(t, Head(order)) THEN t ELSE strongconnect(t, Head(order)), Tail(order))
DetectCycles(order) ==
  SelectSeq(Components([index |-> 0, stack |-> <<>>, sccs |-> <<>>,
                        indices |-> <<>>, lowlink |-> <<>>], order),
            LAMBDA scc : Len(scc) > 1 \/ scc[1] \in ToSet(ImportsOf(scc[1])))

\* Variant: a file is listed before what it imports.
RECURSIVE visitBefore(_, _, _)
visitBefore(sorted, visiting, p) ==
  IF p \in ToSet(sorted) \cup visiting THEN sorted
  ELSE FoldLeft(LAMBDA s, d : visitBefore(s, visiting \cup {p}, d), Append(sorted, p), ImportsOf(p))

\* visit: a file is listed after what it imports; visiting guards against
\* cycles, which DetectCycles has ruled out.
RECURSIVE visit(_, _, _)
visit(sorted, visiting, p) ==
  IF p \in ToSet(sorted) \cup visiting THEN sorted
  ELSE Append(FoldLeft(LAMBDA s, d : visit(s, visiting \cup {p}, d), sorted, ImportsOf(p)), p)
InOrder == SelectSeq(Paths, LAMBDA p : p \in DOMAIN nodes)
TopologicalSort ==
  IF DetectCycles(InOrder) # <<>> THEN [err |-> TRUE, sorted |-> <<>>]
  ELSE [err |-> FALSE, sorted |-> FoldLeft(LAMBDA s, p : visit(s, {}, p), <<>>, InOrder)]

\* Variant: only the first import of a file is followed.
RECURSIVE dfsFirst(_, _, _, _)
dfsFirst(r, chain, current, target) ==
  IF current \in r.visited THEN r
  ELSE LET here == Append(chain, current)
           seen == [r EXCEPT !.visited = @ \cup {current}]
       IN  IF current = target THEN [seen EXCEPT !.found = here]
           ELSE IF ImportsOf(current) = <<>> THEN seen
           ELSE dfsFirst(seen, here, Head(ImportsOf(current)), target)

\* dfs of DependencyChain: r.found is the chain to the target, r.visited the
\* files that do not lead there.
RECURSIVE dfs(_, _, _, _)
dfs(r, chain, current, target) ==
  IF r.found # <<>> \/ current \in r.visited THEN r
  ELSE LET here == Append(chain, current)
           seen == [r EXCEPT !.visited = @ \cup {current}]
       IN  IF current = target THEN [seen EXCEPT !.found = here]
           ELSE FoldLeft(LAMBDA u, d : dfs(u, here, d, target), seen, ImportsOf(current))
DependencyChain(root, target) ==
  dfs([found |-> <<>>, visited |-> {}], <<>>, root, target).found

----------------------------------------------------------------------------
Edge(p, q) == q \in ToSet(ImportsOf(p))
RECURSIVE Reached(_)
Reached(set) ==
  LET more == set \cup UNION {ToSet(ImportsOf(p)) : p \in set}
  IN  IF more = set THEN set ELSE Reached(more)
Leads(p, q) == q \in Reached(ToSet(ImportsOf(p)))

\* The cycles reported are exactly the sets of files that import one another,
\* whatever order the map of nodes is walked in (DetectCycles).
CyclesAreReal ==
  \A order \in SetToSeqs(DOMAIN nodes) :
    LET cycles == DetectCycles(order)
    IN  /\ {ToSet(cycles[i]) : i \in 1 .. Len(cycles)}
             = {{q \in ToSet(Paths) : Leads(p, q) /\ Leads(q, p)} : p \in {q \in ToSet(Paths) : Leads(q, q)}}
        /\ \A i, j \in 1 .. Len(cycles) : i # j => ToSet(cycles[i]) \cap ToSet(cycles[j]) = {}

\* The order is refused exactly when there is a cycle; otherwise it lists every
\* file once, and a file only after all the files it imports (TopologicalSort).
SortIsSound ==
  LET t == TopologicalSort
      s == t.sorted
  IN  /\ t.err <=> \E p \in DOMAIN nodes : Leads(p, p)
      /\ ~t.err =>
           /\ ToSet(s) = Reached(DOMAIN nodes) /\ Cardinality(ToSet(s)) = Len(s)
           /\ \A i \in 1 .. Len(s) : ToSet(ImportsOf(s[i])) \subseteq {s[j] : j \in 1 .. i - 1}

\* There is a chain exactly when the root leads to the target, and every link
\* of it is an import (DependencyChain).
ChainIsPath ==
  \A root, target \in ToSet(Paths) :
    LET chain == DependencyChain(root, target)
    IN  /\ chain # <<>> <=> root = target \/ Leads(root, target)
        /\ chain # <<>> => chain[1] = root /\ Last(chain) = target
        /\ \A i \in 1 .. Len(chain) - 1 : Edge(chain[i], chain[i + 1])
=============================================================================
