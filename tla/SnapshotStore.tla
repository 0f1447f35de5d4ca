---------------------------- MODULE SnapshotStore ----------------------------
(***************************************************************************)
(* What the documentation of WritableDataset promises: one writer at a     *)
(* time works on a private view of the dataset, reading its own writes,    *)
(* and publishes it as a whole.  A version, once published, never changes. *)
(* A view is a set of items: quads, named graphs and namespace mappings.   *)
(***************************************************************************)
EXTENDS Naturals, Sequences

CONSTANTS
    Quads, Graphs, Mappings,
    graph_name,      \* the graph of a quad, a member of Graphs or the default
    prefix           \* the prefix of a namespace mapping

VARIABLES
    versions,   \* the published views
    active,     \* a writer is at work
    view        \* its view, {} without one

vars == <<versions, active, view>>

Init == versions = <<{}>> /\ active = FALSE /\ view = {}

QuadsIn(g) == {q \in Quads : graph_name[q] = g}

NamedQuads == {q \in Quads : graph_name[q] \in Graphs}

Begin ==
    /\ ~active
    /\ active' = TRUE
    /\ view' = versions[Len(versions)]
    /\ UNCHANGED versions

Commit ==
    /\ active
    /\ versions' = Append(versions, view)
    /\ active' = FALSE /\ view' = {}

Rollback ==
    /\ active
    /\ active' = FALSE /\ view' = {}
    /\ UNCHANGED versions

(* What one operation makes of the view that the writer has seen.          *)
Inserted(seen, q) == seen \cup {q} \cup ({graph_name[q]} \cap Graphs)

Written(seen) ==
    {Inserted(seen, q) : q \in Quads}
      \cup {seen \ {q} : q \in Quads}
      \cup {seen \cup {g} : g \in Graphs}
      \cup {seen \ QuadsIn(g) : g \in Graphs \cup {graph_name[q] : q \in Quads}}
      \cup {seen \ NamedQuads, seen \ Quads}
      \cup {seen \ (QuadsIn(g) \cup {g}) : g \in Graphs}
      \cup {seen \ (Graphs \cup NamedQuads), seen \ (Quads \cup Graphs)}
      \cup {(seen \ {n \in Mappings : prefix[n] = prefix[m]}) \cup {m} : m \in Mappings}
      \cup {seen \ {n \in Mappings : prefix[n] = prefix[m]} : m \in Mappings}
      \cup {seen \ Mappings}

Write ==
    /\ active
    /\ view' \in Written(view)
    /\ UNCHANGED <<versions, active>>

Next == Begin \/ Write \/ Commit \/ Rollback

Spec == Init /\ [][Next]_vars
=============================================================================
