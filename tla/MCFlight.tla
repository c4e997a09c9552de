------------------------------ MODULE MCFlight ------------------------------
(* Instances of Flight for TLC.                                            *)
EXTENDS Flight, TLC
CONSTANTS a, b, subspace, h1, h2, o1

Graph(dep, zygotes, interface, autostart) ==
    [subsystem |-> Name, dep |-> dep, zygotes |-> zygotes, interface |-> interface,
     autostart |-> autostart]

None == [s \in Name |-> <<>>]
Dep == [Name -> {<<>>, <<a>>, <<b>>, <<subspace>>, <<b, subspace>>}]

\* Two interfaces, one of which needs the other, which is started at once.
FewGraphs == {Graph([None EXCEPT ![a] = <<b>>], None, <<a, b>>, <<b>>)}

\* All deps of up to two, without modules; some with modules; some refused.
SomeGraphs ==
    FewGraphs \cup {Graph(d, None, <<a>>, <<b>>) : d \in Dep}
    \cup {Graph(None, [None EXCEPT ![a] = <<b, b>>], <<a, b>>, <<a, b>>),
          Graph(None, [None EXCEPT ![subspace] = <<b>>], <<a, subspace>>, <<>>),
          Graph([None EXCEPT ![a] = <<b, b>>], None, <<a>>, <<>>),
          Graph(None, None, <<a, a>>, <<>>)}
=============================================================================
