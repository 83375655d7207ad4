------------------------------ MODULE Closure ------------------------------
(***************************************************************************)
(* xtask audit-dll-closure: the walk over the libraries the image imports, *)
(* directly and through others, at load time or delayed.                   *)
(***************************************************************************)
EXTENDS Naturals, FiniteSets, Sequences, SequencesExt

CONSTANTS Dlls, Exempt,  \* Exempt: api-sets, loader core, KnownDLLs
          ImportGraphs     \* what each image imports at load time, and delayed

ImportGraph == LET Imports == [Dlls \cup {"exe"} -> SUBSET Dlls]
               IN  [regular : Imports, delay : Imports]
ASSUME GraphsAssumption == IsFiniteSet(Dlls) /\ ImportGraphs \subseteq ImportGraph

VARIABLES graph, queue, visited, flagged
closureVars == <<graph, queue, visited, flagged>>

Own == graph.regular["exe"] \cup graph.delay["exe"]
Entry(set, pre) == {[dll |-> d, pre |-> pre] : d \in set}

(* The image's own imports first, in any order; its delayed ones after.    *)
ClosureInit == /\ graph \in ImportGraphs /\ visited = {} /\ flagged = {}
               /\ \E a \in SetToSeqs(Entry(graph.regular["exe"], TRUE)),
                    b \in SetToSeqs(Entry(graph.delay["exe"], FALSE)) : queue = a \o b

(* Changed form: a delayed import inherits the flag of its importer.       *)
ChildrenInherit(d, pre) == {a \o b : a \in SetToSeqs(Entry(graph.regular[d], pre)),
                                     b \in SetToSeqs(Entry(graph.delay[d], pre))}
Children(d, pre) == {a \o b : a \in SetToSeqs(Entry(graph.regular[d], pre)),
                              b \in SetToSeqs(Entry(graph.delay[d], FALSE))}

ClosureIdle == graph = "none" /\ queue = <<>> /\ visited = {} /\ flagged = {}

(* One turn of the loop: a library seen before or exempt ends there, one   *)
(* that is not our own is flagged, and its imports are queued.             *)
Walk == /\ queue # <<>>
        /\ LET e == Head(queue) IN
           /\ visited' = visited \cup {e.dll}
           /\ IF e.dll \in visited \cup Exempt
              THEN queue' = Tail(queue) /\ UNCHANGED flagged
              ELSE /\ flagged' = IF e.dll \in Own THEN flagged ELSE flagged \cup {e}
                   /\ \E c \in Children(e.dll, e.pre) : queue' = Tail(queue) \o c
        /\ UNCHANGED graph

(* The libraries reached from start through imports of those not exempt.   *)
Reach(start, step) ==
  {d \in Dlls : \A S \in SUBSET Dlls :
     start \subseteq S /\ (\A c \in S \ Exempt : step[c] \subseteq S) => d \in S}

(* audit-dll-closure: the walk ends with every transitive library that is  *)
(* neither exempt nor our own, once; one it calls pre-main is reached by   *)
(* load-time imports alone.                                                *)
ClosureExact == queue = <<>> /\ visited # {} =>
  /\ {f.dll : f \in flagged}
       = Reach(Own, [d \in Dlls |-> graph.regular[d] \cup graph.delay[d]]) \ (Exempt \cup Own)
  /\ \A f, g \in flagged : f.dll = g.dll => f = g
  /\ \A f \in flagged : f.pre =>
       f.dll \in Reach(graph.regular["exe"], [d \in Dlls |-> graph.regular[d]])
=============================================================================
