----------------------------- MODULE NodeGraph ------------------------------
(***************************************************************************)
(* The node graph of src/src/graph.lisp: a tree of groups and nodes, kept  *)
(* as a doubly linked list of all the nodes in order, with a parent link,  *)
(* the last node of each group, and the funcons.  The cell of a node holds *)
(* its function; its cdr is the cell of the node that is performed next.   *)
(* The funcons of a group is the cell of the first node that is performed  *)
(* after the beginning of the group.                                       *)
(*                                                                         *)
(* An item is a slot of *node-hash* with its identifier.  The operations   *)
(* run in the rt-thread, one after the other, and run to the end.          *)
(* A definition D_Fault is D with a fault that no action has.              *)
(***************************************************************************)
EXTENDS Naturals, FiniteSets, Sequences, SequencesExt

CONSTANTS Items,   \* the nodes, without the root
          Root,    \* *root-node*
          Programs, \* what a program may do: its calls, a bound of its live
                    \* nodes and one of the groups around a group
          Dummy,   \* :dummy-node
          Nil

All == Items \cup {Root}

\* The operations, some by what they meet: free-group, stop-group and pause-root
\* are free, stop and pause of a group or of the root; group-tail-end makes a
\* group at the end of the list, group-after-inner one that is followed by a
\* node; move-into-empty moves into an empty group, move-first-to-tail the first
\* node of a group to its tail, move-inside a group next to a node inside it.
Calls == {"play-head", "play-tail", "play-before", "play-after", "replace",
          "group-head", "group-tail", "group-before", "group-after",
          "move-head", "move-tail", "move-before", "move-after", "move-inside",
          "free", "free-group", "stop", "stop-group", "pause", "pause-root", "unpause",
          "group-tail-end", "group-after-inner", "move-into-empty", "move-first-to-tail"}

ASSUME ProgramsAssumption ==
    Programs \subseteq [calls : SUBSET Calls, nodes : Nat, depth : Nat]

VARIABLES program,
          next, prev, parent,  \* the links of each node
          last,     \* the last node of a group, Nil for a node
          paused,   \* node-pause-p
          live,     \* the nodes whose node-id is not NIL
          funcons,  \* the cell that node-funcons refers to; a cell is its node
          cdr,      \* the next cell of a cell
          did       \* history: the last call, its node and its target

links == <<next, prev, parent, last>>
vars == <<program, links, paused, live, funcons, cdr, did>>

\* The graph as one value: an operation is a chain of assignments to it.
Graph == [next |-> next, prev |-> prev, parent |-> parent, last |-> last,
          paused |-> paused, live |-> live, funcons |-> funcons, cdr |-> cdr]

\* How many groups are around n.
RECURSIVE Depth(_, _)
Depth(g, n) == IF n = Root \/ g.parent[n] = Nil THEN 0 ELSE 1 + Depth(g, g.parent[n])

Becomes(g) ==
    /\ \A n \in g.live : g.last[n] # Nil => Depth(g, n) <= program.depth
    /\ Cardinality(g.live) <= program.nodes + 1
    /\ UNCHANGED program
    /\ next' = g.next /\ prev' = g.prev /\ parent' = g.parent /\ last' = g.last
    /\ paused' = g.paused /\ live' = g.live /\ funcons' = g.funcons /\ cdr' = g.cdr

Init ==
    /\ program \in Programs
    /\ next = [n \in All |-> Nil] /\ parent = [n \in All |-> Nil]
    /\ prev = [n \in All |-> IF n = Root THEN Dummy ELSE Nil]
    /\ last = [n \in All |-> IF n = Root THEN Dummy ELSE Nil]
    /\ paused = [n \in All |-> FALSE] /\ live = {Root}
    /\ funcons = [n \in All |-> IF n = Root THEN Nil ELSE n]
    /\ cdr = [n \in All |-> Nil]
    /\ did = <<"start", Root, Root>>

-----------------------------------------------------------------------------
(* Helpers *)

NodeP(x) == x \in All
GroupP(g, n) == g.last[n] # Nil

SetNext(g, n, x)    == [g EXCEPT !.next[n] = x]
SetPrev(g, n, x)    == IF NodeP(n) THEN [g EXCEPT !.prev[n] = x] ELSE g
SetLast(g, n, x)    == [g EXCEPT !.last[n] = x]
SetParent(g, n, x)  == [g EXCEPT !.parent[n] = x]

\* x before n.
Link(g, x, n) == SetPrev(SetNext(g, x, n), n, x)
\* n between p and the node that follows p.
LinkBehind(g, n, p) == SetPrev(SetNext(Link(g, p, n), n, g.next[p]), g.next[p], n)

RECURSIVE FindLastNode(_, _)
FindLastNode(g, n) ==
    LET l == g.last[n]
    IN  IF ~NodeP(l) THEN n ELSE IF GroupP(g, l) THEN FindLastNode(g, l) ELSE l

\* The nearest group above n that is paused.
RECURSIVE PausedParent(_, _)
PausedParent(g, n) ==
    LET p == g.parent[n]
    IN  IF ~NodeP(p) THEN Nil ELSE IF g.paused[p] THEN p ELSE PausedParent(g, p)

PausedNodeP(g, n) == g.paused[n] \/ PausedParent(g, n) # Nil

RECURSIVE UnpausedNodePrev(_, _)
UnpausedNodePrev(g, n) ==
    LET p == g.prev[n]
    IN  CASE ~NodeP(p) -> Nil
          [] NodeP(p) /\ g.paused[p] -> UnpausedNodePrev(g, p)
          [] OTHER -> LET pp == PausedParent(g, p)
                      IN  IF pp = Nil THEN p ELSE UnpausedNodePrev(g, pp)

\* The first node after n, or after the nodes of the paused group n, that is
\* performed.  root-p starts at the node itself.
RECURSIVE UnpausedFrom(_, _)
UnpausedFrom(g, n) ==
    LET x == g.next[n]
        Skip(y) == UnpausedFrom(g, FindLastNode(g, y))
    IN  CASE ~NodeP(x) -> Nil
          [] NodeP(x) /\ g.paused[x] -> Skip(x)
          [] OTHER -> LET pp == PausedParent(g, x) IN IF pp = Nil THEN x ELSE Skip(pp)

UnpausedNodeNext(g, n, rootP) ==
    UnpausedFrom(g, IF g.paused[n] /\ ~rootP THEN FindLastNode(g, n) ELSE n)

FunconsOf(g, x) == IF x = Nil THEN Nil ELSE g.funcons[x]
NodeNextFuncons(g, n) == FunconsOf(g, UnpausedNodeNext(g, n, FALSE))

SetCdr(g, n, f) == [g EXCEPT !.cdr[g.funcons[n]] = f]
UpdateFuncons(g, n, f) ==
    IF GroupP(g, n) THEN [g EXCEPT !.funcons[n] = f] ELSE SetCdr(g, n, f)

\* The node whose funcons leads to n: inside a paused group the node before it,
\* if that is paused too, otherwise the node that is performed before it.
LeadsTo(g, n, pauseP) ==
    IF ~pauseP THEN UnpausedNodePrev(g, n)
    ELSE IF g.prev[n] # Root /\ PausedNodeP(g, g.prev[n]) THEN g.prev[n] ELSE Nil

\* update-previous-funcons: the nodes before n, back to the root or to the end
\* group.
RECURSIVE UpdateBack(_, _, _, _), UpdatedUpTo(_, _, _)
UpdateBack(g, n, p, end) ==
    IF p = Nil THEN g ELSE UpdatedUpTo(UpdateFuncons(g, p, g.funcons[n]), p, end)
UpdatedUpTo(g, p, end) ==
    IF GroupP(g, p) /\ p = end THEN g
    ELSE UpdateBack(g, p, LeadsTo(g, p, PausedNodeP(g, p)), end)

UpdatePreviousFuncons(g, n, pauseP, end) == UpdateBack(g, n, LeadsTo(g, n, pauseP), end)

UpdatePrevious(g, n, pp) == UpdatePreviousFuncons(g, n, pp # Nil, Nil)

\* update-next-funcons
LeadTo(g, n, x) == IF x = Nil THEN g ELSE UpdateFuncons(g, n, g.funcons[x])
UpdateNextFuncons(g, n, pp) ==
    LeadTo(g, n, IF pp # Nil THEN g.next[n] ELSE UnpausedNodeNext(g, n, FALSE))

-----------------------------------------------------------------------------
(* play: node-add with the add-actions                                     *)

\* initialize-node
NewNode(g, n) ==
    [g EXCEPT !.live = @ \cup {n}, !.paused[n] = FALSE, !.last[n] = Nil,
              !.funcons[n] = n, !.cdr[n] = Nil]

\* The new first node n of t is performed, unless t is paused.
PerformFirst(g, n, t) ==
    IF g.paused[t] THEN g
    ELSE UpdatePrevious([g EXCEPT !.funcons[t] = n], t, PausedParent(g, t))

HeadFuncons(g, n, t) ==
    LET x == g.next[n]
        rest == CASE g.funcons[t] # Nil -> g.funcons[t]
                  [] g.funcons[t] = Nil /\ PausedParent(g, n) # Nil /\ ~g.paused[x] -> g.funcons[x]
                  [] OTHER -> NodeNextFuncons(g, n)
    IN  PerformFirst(IF NodeP(x) THEN SetCdr(g, n, rest) ELSE g, n, t)

AddNodeToHead(g, n, t) ==
    HeadFuncons(LinkBehind(SetParent(IF NodeP(g.last[t]) THEN g ELSE SetLast(g, t, n), n, t), n, t),
                n, t)

EmptyGroupFuncons(g, n, t) ==
    LET x == g.next[n]
        rest == IF g.funcons[t] # Nil THEN g.funcons[t] ELSE g.funcons[x]
    IN  PerformFirst(IF NodeP(x) THEN SetCdr(g, n, rest) ELSE g, n, t)

AddNodeToEmptyGroup(g, n, t) == EmptyGroupFuncons(SetLast(LinkBehind(g, n, t), t, n), n, t)

\* The funcons around the new node n.
FunconsAround(g, n, pp) ==
    UpdatePrevious(IF NodeP(g.next[n]) THEN UpdateNextFuncons(g, n, pp) ELSE g, n, pp)

InsertNode(g, n, p) == FunconsAround(LinkBehind(g, n, p), n, PausedParent(g, n))

AddNodeToTail(g, n, t) ==
    IF NodeP(g.last[t]) THEN InsertNode(SetLast(SetParent(g, n, t), t, n), n, FindLastNode(g, t))
                        ELSE AddNodeToEmptyGroup(SetParent(g, n, t), n, t)

BeforeFuncons(g, n, t, pp) ==
    UpdatePrevious(LeadTo(g, n, IF pp # Nil /\ ~g.paused[t] THEN t
                                ELSE UnpausedNodeNext(g, n, FALSE)), n, pp)

LinkBefore(g, n, t) == SetParent(Link(Link(g, g.prev[t], n), n, t), n, g.parent[t])

AddNodeBefore(g, n, t) ==
    BeforeFuncons(LinkBefore(g, n, t), n, t, PausedParent(SetParent(g, n, g.parent[t]), n))

\* n is the last node of the group of t if t was.
LastAfter(g, n, t) ==
    LET p == g.parent[t] IN IF g.last[p] = t THEN SetLast(g, p, n) ELSE g

AddNodeAfter(g, n, t) ==
    InsertNode(LastAfter(SetParent(g, n, g.parent[t]), n, t), n, FindLastNode(g, t))

-----------------------------------------------------------------------------
(* make-group *)

\* common-set
NewGroup(g, n) ==
    [g EXCEPT !.live = @ \cup {n}, !.paused[n] = FALSE, !.last[n] = Dummy]

WithNextFuncons(g, n) == [g EXCEPT !.funcons[n] = NodeNextFuncons(g, n)]

MakeGroupBefore(g, n, t) == WithNextFuncons(LinkBefore(g, n, t), n)

\* The link from the following node back to the group is not set.
LinkForward(g, n, p) == SetNext(Link(g, p, n), n, g.next[p])

MakeGroupAfter(g, n, t) ==
    LastAfter(WithNextFuncons(LinkForward(SetParent(g, n, g.parent[t]), n, FindLastNode(g, t)), n),
              n, t)

MakeGroupHead(g, n, t) ==
    [LinkBehind(SetParent(IF NodeP(g.last[t]) THEN g ELSE SetLast(g, t, n), n, t), n, t)
       EXCEPT !.funcons[n] = g.funcons[t]]

\* At the end of the list the funcons stays what it was.
TailFuncons(g, n, t) ==
    IF NodeP(g.next[n]) THEN UpdateNextFuncons(g, n, PausedParent(g, t)) ELSE g

MakeGroupTail(g, n, t) ==
    TailFuncons(SetParent(SetLast(LinkBehind(g, n, FindLastNode(g, t)), t, n), n, t), n, t)

\* %make-group
MakeGroup(call, n, t) ==
    call \in program.calls /\ n \in Items \ live /\ t \in live /\ did' = <<call, n, t>>

GroupHead(n, t) ==
    MakeGroup("group-head", n, t) /\ last[t] # Nil /\ Becomes(MakeGroupHead(NewGroup(Graph, n), n, t))
GroupTail(n, t) ==
    /\ MakeGroup("group-tail", n, t) /\ last[t] # Nil
    /\ next[FindLastNode(Graph, t)] = Nil => "group-tail-end" \in program.calls
    /\ Becomes(MakeGroupTail(NewGroup(Graph, n), n, t))
GroupBefore(n, t) ==
    MakeGroup("group-before", n, t) /\ t # Root /\ Becomes(MakeGroupBefore(NewGroup(Graph, n), n, t))
GroupAfter(n, t) ==
    /\ MakeGroup("group-after", n, t) /\ t # Root
    /\ next[FindLastNode(Graph, t)] # Nil => "group-after-inner" \in program.calls
    /\ Becomes(MakeGroupAfter(NewGroup(Graph, n), n, t))

-----------------------------------------------------------------------------
(* Taking a node out of the list *)

\* The funcons of p skips what leaves the list.
CutFuncons(g, p, f, pauseP) ==
    IF GroupP(g, p) THEN UpdatePreviousFuncons(UpdateFuncons(g, p, f), p, pauseP, Nil)
                    ELSE UpdateFuncons(g, p, f)
CutUnpaused(g, p, n2) ==
    IF p = Nil THEN g
    ELSE CutFuncons(g, p, IF NodeP(g.next[n2]) THEN NodeNextFuncons(g, n2) ELSE Nil, FALSE)
CutPaused(g, p, n1) ==
    IF p = g.prev[n1] THEN g ELSE CutFuncons(g, g.prev[n1], Nil, TRUE)
CutAround(g, n1, n2, p) == CutPaused(CutUnpaused(g, p, n2), p, n1)

\* From n1 to n2, the last node inside of n1, the nodes leave the list.
UnlinkPrev(g, n1, n2) ==
    IF g.paused[n1] THEN SetNext(g, g.prev[n1], g.next[n2])
    ELSE CutAround(SetNext(g, g.prev[n1], g.next[n2]), n1, n2, UnpausedNodePrev(g, n1))

UnlinkNext(g, n1, n2) == SetPrev(g, g.next[n1], g.prev[n2])

UnlinkUpTo(g, n, l) == UnlinkNext(UnlinkPrev(g, n, l), l, n)
UnlinkNeighbors(g, n) == UnlinkUpTo(g, n, FindLastNode(g, n))

RECURSIVE PrevSister(_, _, _)
PrevSister(g, n, p) == IF g.parent[n] = p THEN n ELSE PrevSister(g, g.parent[n], p)

UnlinkParent_KeepsLast(g, n) ==
    LET p == g.parent[n] IN IF g.next[p] = n THEN SetNext(g, p, g.next[n]) ELSE g
UnlinkParent(g, n) ==
    LET p == g.parent[n]
    IN  CASE g.last[p] = n /\ g.next[p] = n -> SetLast(g, p, Dummy)
          [] g.last[p] = n /\ g.next[p] # n -> SetLast(g, p, PrevSister(g, g.prev[n], p))
          [] g.last[p] # n /\ g.next[p] = n -> SetNext(g, p, g.next[n])
          [] OTHER -> g

\* dogroup ends at the first node that has the parent of the group.
RECURSIVE GroupEnd(_, _, _, _)
GroupEnd(g, x, old, p) ==
    IF x = Nil THEN old ELSE IF g.parent[x] = p THEN old ELSE GroupEnd(g, g.next[x], x, p)

RECURSIVE DoGroup(_, _, _)
DoGroup(g, x, p) ==
    IF x = Nil THEN {} ELSE IF g.parent[x] = p THEN {}
    ELSE LET l == IF GroupP(g, x) THEN GroupEnd(g, g.next[x], Nil, g.parent[x]) ELSE Nil
         IN  {x} \cup DoGroup(g, g.next[IF l = Nil THEN x ELSE l], p)

\* The nodes that unlink-group removes from the hash table.
RECURSIVE UnlinkedWith(_, _)
UnlinkedWith(g, n) ==
    {n} \cup IF GroupP(g, n)
            THEN UNION {UnlinkedWith(g, x) : x \in DoGroup(g, g.next[n], g.parent[n])}
            ELSE {}

RemoveFromHash_Groups(g, gone) ==
    [g EXCEPT !.live = {n \in @ : n = Root \/ n \notin gone \/ ~GroupP(g, n)}]
RemoveFromHash(g, gone) ==
    [g EXCEPT !.live = @ \ (gone \ {Root}),
              !.funcons = [n \in All |-> IF n \in gone /\ GroupP(g, n) THEN Nil ELSE @[n]]]

Unlink(g, n) == UnlinkNeighbors(UnlinkParent(g, n), n)

RemoveGroup(g, n) == RemoveFromHash(g, UnlinkedWith(g, n))

NodeFree(g, n) ==
    CASE n = Root /\ g.next[Root] # Nil ->
           [RemoveGroup(g, Root) EXCEPT !.next[Root] = Nil, !.last[Root] = Dummy,
                                        !.paused[Root] = FALSE]
      [] n # Root /\ n \in g.live -> RemoveGroup(Unlink(g, n), n)
      [] OTHER -> g

\* node-add
Play(call, n, t) ==
    call \in program.calls /\ n \in Items \ live /\ t \in live /\ did' = <<call, n, t>>

PlayHead(n, t) ==
    Play("play-head", n, t) /\ last[t] # Nil /\ Becomes(AddNodeToHead(NewNode(Graph, n), n, t))
PlayTail(n, t) ==
    Play("play-tail", n, t) /\ last[t] # Nil /\ Becomes(AddNodeToTail(NewNode(Graph, n), n, t))
PlayBefore(n, t) ==
    Play("play-before", n, t) /\ t # Root /\ Becomes(AddNodeBefore(NewNode(Graph, n), n, t))
PlayAfter(n, t) ==
    Play("play-after", n, t) /\ t # Root /\ Becomes(AddNodeAfter(NewNode(Graph, n), n, t))

\* The fade out of the node that is replaced ends at once, as it does when
\* *node-enable-gain-p* is not set.  The new node gets its identifier.
Replace(n, t) ==
    /\ Play("replace", n, t) /\ t # Root
    /\ Becomes(NodeFree(AddNodeBefore(NewNode(Graph, n), n, t), t))

Free(n) ==
    /\ n \in live /\ (IF last[n] = Nil THEN "free" ELSE "free-group") \in program.calls
    /\ Becomes(NodeFree(Graph, n)) /\ did' = <<"free", n, n>>

\* %node-stop frees the nodes of a group, not its groups.
RECURSIVE StopNode(_, _), StopFrom(_, _, _)
StopFrom(g, x, p) ==
    IF x = Nil THEN g ELSE IF g.parent[x] = p THEN g
    ELSE LET g1 == StopNode(g, x) IN StopFrom(g1, g1.next[x], p)
StopNode(g, n) ==
    CASE n \notin g.live -> g
      [] n \in g.live /\ GroupP(g, n) -> StopFrom(g, g.next[n], g.parent[n])
      [] OTHER -> NodeFree(g, n)

Stop(n) ==
    /\ n \in live /\ (IF last[n] = Nil THEN "stop" ELSE "stop-group") \in program.calls
    /\ Becomes(StopNode(Graph, n)) /\ did' = <<"stop", n, n>>

-----------------------------------------------------------------------------
(* move *)

\* The way from x along a link, cut off after k steps.
RECURSIVE WalkAtMost(_, _, _)
WalkAtMost(link, x, k) ==
    <<x>> \o IF k = 0 \/ link[x] \notin All THEN <<>> ELSE WalkAtMost(link, link[x], k - 1)
Walk(link, x) == WalkAtMost(link, x, Cardinality(All))

Above(n) == ToSet(Walk(parent, n))

RECURSIVE Inside(_, _, _)
Inside(g, x, p) ==
    IF x = Nil THEN {} ELSE IF g.parent[x] = p THEN {} ELSE {x} \cup Inside(g, g.next[x], p)

\* Only a group is looked for in the group that moves, up to the end of dogroup.
MoveGroupLoopP(g, src, dest) ==
    GroupP(g, src) /\ GroupP(g, dest) /\ dest \in Inside(g, g.next[src], g.parent[src])

NeighborAfterP(g, n0, n1) ==
    g.next[IF GroupP(g, n1) /\ NodeP(g.last[n1]) THEN g.last[n1] ELSE n1] = n0

\* The funcons of the nodes of src, from the last one, curr, to the end node.
UpdateMoved(g, curr, end) ==
    IF GroupP(g, curr)
    THEN UpdatePreviousFuncons(UpdateFuncons(g, curr, NodeNextFuncons(g, curr)), curr, FALSE, end)
    ELSE UpdateFuncons(g, curr, NodeNextFuncons(g, curr))

MovedBeforeFuncons(g, src, dest, curr, pp) ==
    IF g.paused[src] THEN g
    ELSE UpdatePrevious(IF pp # Nil /\ ~g.paused[dest] THEN UpdatePreviousFuncons(g, dest, TRUE, src)
                                                       ELSE UpdateMoved(g, curr, src), src, pp)

PutBefore(g, src, dest, curr) ==
    MovedBeforeFuncons(Link(SetParent(Link(g, g.prev[dest], src), src, g.parent[dest]), curr, dest),
                       src, dest, curr, PausedParent(g, dest))

MoveNodeBefore(g, src, dest) ==
    IF NeighborAfterP(g, dest, src) /\ g.parent[dest] = g.parent[src] THEN g
    ELSE PutBefore(Unlink(g, src), src, dest, FindLastNode(g, src))

\* src with its nodes is behind p; the funcons are updated back to upto.
MovedBehindFuncons(g, src, curr, upto, pp) ==
    IF g.paused[src] THEN g
    ELSE UpdatePrevious(CASE pp = Nil -> UpdateMoved(g, curr, upto)
                          [] pp # Nil /\ NodeP(g.next[curr]) ->
                               UpdatePreviousFuncons(g, g.next[curr], TRUE, upto)
                          [] OTHER -> g, upto, pp)

PutBehind(g, src, p, par, curr, upto, pp) ==
    MovedBehindFuncons(
        SetParent(SetPrev(SetNext(Link(g, p, src), curr, g.next[p]), g.next[p], curr), src, par),
        src, curr, upto, pp)

PutAfter_SameParent(g, src, dest, curr) ==
    PutBehind(LastAfter(g, src, dest), src, FindLastNode(g, dest), g.parent[src], curr, src,
              PausedParent(g, dest))
PutAfter(g, src, dest, curr) ==
    PutBehind(LastAfter(g, src, dest), src, FindLastNode(g, dest), g.parent[dest], curr, src,
              PausedParent(g, dest))

MoveNodeAfter(g, src, dest) ==
    IF NeighborAfterP(g, src, dest) /\ g.parent[dest] = g.parent[src] THEN g
    ELSE PutAfter(Unlink(g, src), src, dest, FindLastNode(g, src))

PutInside(g, src, dest, curr) ==
    PutBehind(SetLast(g, dest, src), src, dest, dest, curr, dest, PausedParent(g, dest))

MoveNodeHead(g, src, dest) ==
    CASE g.parent[src] = dest /\ g.next[dest] = src -> g
      [] g.parent[src] # dest /\ g.prev[src] = dest -> SetLast(SetParent(g, src, dest), dest, src)
      [] g.prev[src] # dest /\ NodeP(g.last[dest]) -> MoveNodeBefore(g, src, g.next[dest])
      [] OTHER -> PutInside(Unlink(g, src), src, dest, FindLastNode(g, src))

MoveNodeTail(g, src, dest) ==
    CASE g.last[dest] = src -> g
      [] g.last[dest] # src /\ g.prev[src] = dest -> SetLast(SetParent(g, src, dest), dest, src)
      [] g.prev[src] # dest /\ NodeP(g.last[dest]) /\ g.last[dest] # src ->
           MoveNodeAfter(g, src, g.last[dest])
      [] OTHER -> MoveNodeHead(g, src, dest)

Move(call, src, dest) ==
    /\ call \in program.calls /\ src \in live \ {Root} /\ dest \in live \ {src}
    /\ ~MoveGroupLoopP(Graph, src, dest)
    /\ src \in Above(dest) => "move-inside" \in program.calls
    /\ did' = <<call, src, dest>>

MoveHead(src, dest) ==
    /\ Move("move-head", src, dest) /\ last[dest] # Nil
    /\ IF last[dest] = Dummy THEN "move-into-empty" \in program.calls
                             ELSE ~MoveGroupLoopP(Graph, src, next[dest])
    /\ Becomes(MoveNodeHead(Graph, src, dest))
MoveTail(src, dest) ==
    /\ Move("move-tail", src, dest) /\ last[dest] # Nil
    /\ CASE last[dest] = Dummy -> "move-into-empty" \in program.calls
         [] last[dest] # Dummy /\ prev[src] = dest ->
              last[dest] # src => "move-first-to-tail" \in program.calls
         [] OTHER -> ~MoveGroupLoopP(Graph, src, last[dest])
    /\ Becomes(MoveNodeTail(Graph, src, dest))
MoveBefore(src, dest) ==
    Move("move-before", src, dest) /\ dest # Root /\ Becomes(MoveNodeBefore(Graph, src, dest))
MoveAfter(src, dest) ==
    Move("move-after", src, dest) /\ dest # Root /\ Becomes(MoveNodeAfter(Graph, src, dest))

-----------------------------------------------------------------------------
(* pause and unpause *)

SkipPaused(g, n, p) ==
    IF p = Nil THEN g
    ELSE CutFuncons(g, p, IF GroupP(g, n) THEN NodeNextFuncons(g, n) ELSE g.cdr[n], FALSE)

MarkPaused(g, n) == [g EXCEPT !.paused[n] = TRUE]

PauseNode_Marks(g, n) == MarkPaused(g, n)
PauseNode(g, n) ==
    CASE PausedParent(g, n) # Nil -> MarkPaused(g, n)
      [] PausedParent(g, n) = Nil /\ n = Root -> [MarkPaused(g, n) EXCEPT !.funcons[Root] = Nil]
      [] OTHER -> SkipPaused(MarkPaused(g, n), n, UnpausedNodePrev(g, n))

Pause(n) ==
    /\ (IF n = Root THEN "pause-root" ELSE "pause") \in program.calls
    /\ n \in live /\ ~paused[n]
    /\ Becomes(PauseNode(Graph, n)) /\ did' = <<"pause", n, n>>

\* The last node of the group n that is performed leads to nothing.
EndOfGroup(g, n, l, pp) ==
    CASE l \in {Nil, n} -> g
      [] l \notin {Nil, n} /\ GroupP(g, l) ->
           UpdatePreviousFuncons(UpdateFuncons(g, l, Nil), l, pp # Nil, g.next[n])
      [] OTHER -> UpdateFuncons(g, l, Nil)

LastPerformed(g, l, pp) == IF pp = Nil /\ g.paused[l] THEN UnpausedNodePrev(g, l) ELSE l

\* x is the node that is performed after the group.
InsideUnpaused(g, n, x, pp) ==
    CASE x # Nil -> UpdatePreviousFuncons(g, x, FALSE, g.next[n])
      [] x = Nil /\ FindLastNode(g, n) # n ->
           EndOfGroup(g, n, LastPerformed(g, FindLastNode(g, n), pp), pp)
      [] OTHER -> g

GroupUnpaused(g, n, pp) ==
    [g EXCEPT !.funcons[n] = IF pp = Nil THEN NodeNextFuncons(g, n) ELSE Nil]

Unpaused(g, n, x, pp) ==
    UpdatePrevious(IF GroupP(g, n) THEN GroupUnpaused(InsideUnpaused(g, n, x, pp), n, pp)
                                   ELSE SetCdr(g, n, FunconsOf(g, x)), n, pp)

PausedAround(g, n) == IF n = Root THEN Nil ELSE PausedParent(g, n)

UnpauseNode(g, n) ==
    Unpaused([g EXCEPT !.paused[n] = FALSE], n,
             IF PausedAround(g, n) # Nil THEN Nil ELSE UnpausedNodeNext(g, n, n = Root),
             PausedAround(g, n))

Unpause(n) ==
    /\ "unpause" \in program.calls /\ n \in live /\ paused[n]
    /\ Becomes(UnpauseNode(Graph, n)) /\ did' = <<"unpause", n, n>>

-----------------------------------------------------------------------------
Next ==
    \/ \E n \in Items, t \in live :
         \/ PlayHead(n, t) \/ PlayTail(n, t) \/ PlayBefore(n, t) \/ PlayAfter(n, t) \/ Replace(n, t)
         \/ GroupHead(n, t) \/ GroupTail(n, t) \/ GroupBefore(n, t) \/ GroupAfter(n, t)
         \/ MoveHead(n, t) \/ MoveTail(n, t) \/ MoveBefore(n, t) \/ MoveAfter(n, t)
    \/ \E n \in live : Free(n) \/ Stop(n) \/ Pause(n) \/ Unpause(n)

Spec == Init /\ [][Next]_vars

-----------------------------------------------------------------------------
(* Properties *)

\* Links lead to nodes, and funcons to nodes that are not groups.
TypeOK ==
    /\ next \in [All -> All \cup {Nil}] /\ prev \in [All -> All \cup {Nil, Dummy}]
    /\ parent \in [All -> All \cup {Nil}] /\ last \in [All -> All \cup {Nil, Dummy}]
    /\ paused \in [All -> BOOLEAN] /\ live \in SUBSET All
    /\ funcons \in [All -> Items \cup {Nil}] /\ cdr \in [All -> Items \cup {Nil}]

Order == Walk(next, Root)

\* dograph visits the live nodes, each once, and no other: no node is lost, left
\* in the list after it was freed, or freed with a group that it is not in.
OrderIsLive == Len(Order) = Cardinality(live) /\ ToSet(Order) = live

\* prev leads back along next, whatever was added, moved and freed around it.
LinkedBack == \A k \in 2 .. Len(Order) : prev[Order[k]] = Order[k - 1]

Children(g) == SelectSeq(Order, LAMBDA n : parent[n] = g)

\* node-last is the last child of its group, and a group without a child has
\* none: add-node-to-tail and find-last-node rely on it.
LastChild ==
    \A g \in live : last[g] # Nil =>
        last[g] = IF Children(g) = <<>> THEN Dummy ELSE Last(Children(g))

\* List, back links and last children, which play, make-group, move, free and
\* stop repair one by one, describe the same tree.
GraphInv == TypeOK /\ OrderIsLive /\ LinkedBack /\ LastChild

Performed == SelectSeq(Order, LAMBDA n : last[n] = Nil /\ \A p \in Above(n) : ~paused[p])
Funcons == IF funcons[Root] = Nil THEN <<>> ELSE Walk(cdr, funcons[Root])

\* compute-tick calls the functions of the nodes that are not paused, nor inside
\* a paused group, in the order of the tree, and no other.
FunconsInOrder == Funcons = Performed

Tree == [g \in {n \in live : last[n] # Nil} |-> Children(g)]

\* s with n before, or after, t.
Before(s, n, t) == InsertAt(s, CHOOSE k \in DOMAIN s : s[k] = t, n)
After(s, n, t) == InsertAt(s, 1 + CHOOSE k \in DOMAIN s : s[k] = t, n)
Without(n) == [g \in DOMAIN Tree |-> SelectSeq(Tree[g], LAMBDA x : x # n)]

\* play, make-group and move put the node where the call says: at the head or at
\* the tail of the target, immediately before or immediately after it; nothing
\* else of the tree changes.
PlacedAsAsked ==
    [][LET call == did'[1]
           n == did'[2]
           t == did'[3]
           p == parent[t]
           Placed(g, s) == Tree' = [x \in DOMAIN Tree' |->
                                      CASE x = g -> s
                                        [] x # g /\ x \in DOMAIN Tree -> Without(n)[x]
                                        [] OTHER -> <<>>]
       IN  /\ call \in {"play-head", "group-head", "move-head"}
                => Placed(t, <<n>> \o Without(n)[t])
           /\ call \in {"play-tail", "group-tail", "move-tail"}
                => Placed(t, Append(Without(n)[t], n))
           /\ call \in {"play-before", "group-before", "move-before"}
                => Placed(p, Before(Without(n)[p], n, t))
           /\ call \in {"play-after", "group-after", "move-after"}
                => Placed(p, After(Without(n)[p], n, t))]_vars

Within(n) == {x \in live : n \in Above(x)}

\* free takes the node and, of a group, all the nodes in it out of the tree;
\* stop takes the nodes and leaves the groups.  No other node goes.
FreedExactly ==
    [][LET n == did'[2]
       IN  /\ did'[1] = "free" => live' = live \ (Within(n) \ {Root})
           /\ did'[1] = "stop" => live' = live \ {x \in Within(n) : last[x] = Nil}]_vars
=============================================================================
