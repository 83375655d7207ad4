------------------------------ MODULE MCXtask ------------------------------
(* Six releases on three lines, an advisory on two of them, two revisions *)
(* of a pin and three resolutions; nine images, eight of which break one  *)
(* check each; four import graphs; two trials.                            *)
EXTENDS Xtask

MCReleases == 1..6
MCLine == <<1, 1, 2, 2, 2, 3>>
MCPublished == <<0, 1, 0, 3, 0, 0>>
MCAffects == [a |-> {1, 2}]
MCToolVer == [n |-> 2, pre |-> TRUE]
MCUpstream == [old |-> {1}, new |-> {3}]
MCLocks == {{1, 2}}
Range1(op, n) == {[op |-> op, bound |-> [n |-> n, pre |-> FALSE]]}
MCFeeds == {{}, {Range1("<", 1), Range1(">", 2) \cup Range1("<=", 3)},
            {Range1("?", 1)}, {Range1(">=", 2), Range1("=", 1) \cup Range1(">=", 1)}}

Good == [hard |-> Required, dlls |-> {"kernel32", "api"}, functions |-> {"GetProcAddress"},
         view |-> "x", comctl |-> TRUE, coff |-> 77, rsrc |-> 0, signed |-> FALSE,
         debug |-> {[type |-> "codeview", ts |-> 77], [type |-> "repro", ts |-> 77]}]
MCImages == {Good, [Good EXCEPT !.view = "y"], [Good EXCEPT !.hard = Required \cup {"CET_COMPAT"}],
             [Good EXCEPT !.hard = {"DEP_NX"}], [Good EXCEPT !.dlls = {"kernel32", "other"}],
             [Good EXCEPT !.functions = {"WinExec"}], [Good EXCEPT !.comctl = FALSE],
             [Good EXCEPT !.rsrc = 77], [Good EXCEPT !.debug = {[type |-> "null", ts |-> 0]}]}
MCManifests == {Propose(Good), [Propose(Good) EXCEPT !.hardening = {}],
                [Propose(Good) EXCEPT !.deny = {}],
                Propose([Good EXCEPT !.hard = {"DEP_NX"}]),
                Propose([Good EXCEPT !.functions = {"WinExec"}])}

Nodes == {"exe", "k", "d1", "d2", "d3", "d4"}
Edges(S) == [n \in Nodes |-> {e[2] : e \in {x \in S : x[1] = n}}]
Graph(r, d) == [regular |-> Edges(r), delay |-> Edges(d)]
MCGraphs == {
  Graph({<<"exe", "d1">>, <<"d1", "d2">>, <<"d2", "d3">>}, {<<"exe", "d4">>, <<"d4", "d3">>}),
  Graph({<<"exe", "d1">>, <<"exe", "k">>, <<"d1", "d2">>, <<"k", "d4">>}, {<<"d2", "d3">>, <<"d1", "d3">>}),
  Graph({<<"exe", "d1">>, <<"d1", "d2">>, <<"d2", "d1">>, <<"d1", "k">>}, {<<"d1", "d4">>, <<"d4", "d2">>}),
  Graph({<<"d4", "d3">>, <<"d3", "d2">>, <<"exe", "d2">>}, {<<"exe", "d4">>, <<"exe", "d1">>, <<"d1", "d3">>})}
=============================================================================
