---------------------------- MODULE MCNodeGraph -----------------------------
EXTENDS NodeGraph, TLC

\* What a freed node keeps is overwritten before it is read, but for the funcons
\* that a group made at the end of the list takes over.
OfLive(f) == [n \in live |-> f[n]]
MCView == <<program, OfLive(next), OfLive(prev), OfLive(parent), OfLive(last), OfLive(paused),
            live, IF "group-tail-end" \in program.calls THEN funcons ELSE OfLive(funcons),
            [n \in {x \in live : last[x] = Nil} |-> cdr[n]]>>

Symmetry == Permutations(Items)

Plays  == {"play-head", "play-tail", "play-before", "play-after"}
Groups == {"group-head", "group-tail", "group-before", "group-after"}
Moves  == {"move-head", "move-tail", "move-before", "move-after"}
FreeGroups == {"free-group", "stop-group", "replace"}
FreeNodes  == {"free", "stop"}

\* The calls between which the tree stays in order.
MCPrograms ==
    {\* groups in the root
     [calls |-> Plays \cup Groups \cup Moves \cup FreeGroups \cup FreeNodes, nodes |-> 5, depth |-> 1],
     \* groups in groups, that are not freed
     [calls |-> Plays \cup Groups \cup Moves \cup FreeNodes, nodes |-> 5, depth |-> 2],
     \* paused nodes, without groups
     [calls |-> Plays \cup Moves \cup FreeNodes \cup {"replace", "pause", "unpause"},
      nodes |-> 4, depth |-> 0],
     \* paused nodes and groups, that stay paused
     [calls |-> (Plays \ {"play-tail"}) \cup Groups \cup FreeGroups \cup FreeNodes \cup {"pause"},
      nodes |-> 3, depth |-> 1],
     \* a paused root
     [calls |-> Plays \cup {"pause-root", "unpause"}, nodes |-> 4, depth |-> 0]}
=============================================================================
