----------------------------- MODULE TaskOrdering -----------------------------
(* The user's order of his tasks: a list of tasks and groups, groups within   *)
(* groups, that is dragged about in the panel (TaskPanel.js), saved under the *)
(* names of the tasks, and turned into the order they are shown and run in    *)
(* (model.py, projection.py).  A task is a leaf [group |-> 0, at |-> key]; a  *)
(* key is <<0, t>>, the name of t, in the stored list, and <<d, t>>, its path *)
(* in the directory d, in what a page has.  A group is [group |-> id, items]. *)
(* Names of groups, which of them are folded, paths without a directory and   *)
(* lists that no panel wrote are left out; a save and its answer are one step *)
(* (TaskPages takes them apart).                                              *)
EXTENDS Naturals, FiniteSets, SequencesExt

CONSTANTS
    Tasks,      \* names of tasks, numbers in the order of the names
    Dirs,       \* directories, numbers from 1 in the order of their paths
    Registries, \* bound: what is registered at first
    Changes     \* bound: changes of the files

VARIABLES
    registry,   \* task_registry: the directory of each registered task, or 0
    changed,    \* changes so far
    overlay,    \* cfg["task_ordering"]: the stored list
    page,       \* the panel: its paths, and the projection it was given last
    wish,       \* the list as the user has last left it, by names
    placed      \* the tasks in it whose path was the right one when it was saved

vars == <<registry, changed, overlay, page, wish, placed>>

Leaf(key) == [group |-> 0, at |-> key]
IsGroup(node) == node.group > 0

\* _flatten_ordering_items and flattenOrderingPaths: the keys of a list, in order.
RECURSIVE Flat(_)
Flat(items) ==
    FlattenSeq([i \in DOMAIN items |->
        IF IsGroup(items[i]) THEN Flat(items[i].items) ELSE <<items[i].at>>])

Keys(items) == Range(Flat(items))
Within(seq, set) == SelectSeq(seq, LAMBDA e : e \in set)

\* normalize_task_ordering_overlay: each key once, no empty group, none of a single child.
RECURSIVE Clean(_, _)
Clean(items, open) ==
    IF items = <<>> THEN <<>>
    ELSE LET node == Head(items)
             kept == IF IsGroup(node) THEN Clean(node.items, open)
                     ELSE SelectSeq(<<node>>, LAMBDA n : n.at \in open)
             here == IF Len(kept) > 1 THEN <<[node EXCEPT !.items = kept]>> ELSE kept
         IN here \o Clean(Tail(items), open \ Keys(kept))

Normalized(items) == Clean(items, Keys(items))

\* retarget_ordering_overlay: keys without another are dropped, and groups left empty.
RECURSIVE Retarget(_, _)
Retarget(items, map) ==
    LET known == SelectSeq(items, LAMBDA n : Keys(<<n>>) \cap DOMAIN map # {}) IN
    [i \in DOMAIN known |->
        IF IsGroup(known[i]) THEN [known[i] EXCEPT !.items = Retarget(@, map)]
        ELSE Leaf(map[known[i].at])]

\* id_to_path_map and path_to_id_map.
Registered == {t \in Tasks : registry[t] # 0}
PathOf == [k \in {<<0, t>> : t \in Registered} |-> <<registry[k[2]], k[2]>>]
IdOf == [k \in Range(PathOf) |-> <<0, k[2]>>]

\* collect_task_paths: the registered paths in the order of their registration.
Before(p, q) == p[1] < q[1] \/ (p[1] = q[1] /\ p[2] < q[2])
TaskPaths == SetToSortSeq(Range(PathOf), Before)

\* Mutant: what the user has not placed comes first.
UnplacedFirst(paths, items) ==
    SelectSeq(paths, LAMBDA p : p \notin Keys(items)) \o Within(Flat(items), Range(paths))

\* project_task_ordering: what the user has placed, in his order, and then the rest in its own.
Effective(paths, items) ==
    Within(Flat(items), Range(paths)) \o SelectSeq(paths, LAMBDA p : p \notin Keys(items))

Projection(list) ==
    LET items == Normalized(Retarget(list, PathOf))
    IN  [items |-> items, order |-> Effective(TaskPaths, items)]

\* sort_paths_by_task_ordering, of tasks that are due.
RunOrder(paths) == Within(Projection(overlay).order, paths)

\* apply_effective_order_to_tree, as taskRows walks it: directory by directory.
TreeOrder(order) ==
    FlattenSeq([i \in DOMAIN order |->
        IF \E j \in 1..(i - 1) : order[j][1] = order[i][1] THEN <<>>
        ELSE SelectSeq(order, LAMBDA p : p[1] = order[i][1])])

\* public_config
Loaded == LET now == Projection(overlay) IN [rows |-> TreeOrder(now.order), given |-> now]

----------------------------------------------------------------------------
(* The panel. *)

\* orderedTaskRows: the projection may know other tasks than the page.
OrderedRows ==
    LET order == page.given.order IN
    Within(order, Range(page.rows)) \o SelectSeq(page.rows, LAMBDA p : p \notin Range(order))

\* buildOrderingItemsFromProjection
Shown ==
    LET known == Clean(page.given.items, Range(page.rows))
        rest == SelectSeq(OrderedRows, LAMBDA p : p \notin Keys(known))
    IN  known \o [i \in DOMAIN rest |-> Leaf(rest[i])]

RECURSIVE Nodes(_)
Nodes(items) == Range(items) \cup UNION {Nodes(n.items) : n \in {m \in Range(items) : IsGroup(m)}}
Groups(items) == {n \in Nodes(items) : IsGroup(n)}

\* nodeDragRef: a group is known by its id, a task by its path.
Ref(node) == IF IsGroup(node) THEN <<"group", node.group>> ELSE <<"task", node.at>>

\* removeOrderingNodeByRef
RECURSIVE Without(_, _)
Without(items, ref) ==
    LET others == SelectSeq(items, LAMBDA n : Ref(n) # ref) IN
    [i \in DOMAIN others |->
        IF IsGroup(others[i]) THEN [others[i] EXCEPT !.items = Without(@, ref)] ELSE others[i]]

\* The splice at the node that findOrderingNodeByRef finds.
RECURSIVE Splice(_, _, _)
Splice(items, ref, with) ==
    FlattenSeq([i \in DOMAIN items |->
        IF Ref(items[i]) = ref THEN with
        ELSE IF IsGroup(items[i]) THEN <<[items[i] EXCEPT !.items = Splice(@, ref, with)]>>
        ELSE <<items[i]>>])

NewGroup(items) ==
    CHOOSE n \in 1..(Cardinality(Groups(items)) + 1) : \A g \in Groups(items) : g.group # n

Positions(node) == {"before", "after", IF IsGroup(node) THEN "inside" ELSE "group"}

\* orderGroupedChildrenByCurrentSequence
InOrder(target, source) ==
    LET at(node) == CHOOSE i \in DOMAIN OrderedRows : OrderedRows[i] = Head(Flat(<<node>>))
    IN  IF at(target) < at(source) THEN <<target, source>> ELSE <<source, target>>

\* Mutant: the dragged node is put in before it is taken out.
MovedInPlace(items, source, target, position) ==
    Normalized(Splice(items, Ref(target), <<source, target>>))

\* moveOrGroupOrderingNode: taken out first; a group is not put into itself.
MayMove(items, source, target) ==
    Ref(source) # Ref(target) /\ Ref(target) \in {Ref(n) : n \in Nodes(Without(items, Ref(source)))}

Moved(items, source, target, position) ==
    LET others == Without(items, Ref(source))
        there == CHOOSE n \in Nodes(others) : Ref(n) = Ref(target)
    IN  Normalized(Splice(others, Ref(target),
            CASE position = "before" -> <<source, there>>
              [] position = "after"  -> <<there, source>>
              [] position = "inside" -> <<[there EXCEPT !.items = Append(@, source)]>>
              [] position = "group"  -> <<[group |-> NewGroup(items), items |-> InOrder(there, source)]>>))

\* emitOrderingItems and save_task_ordering, which keeps the places under the names; the answer
\* brings the projection alone.
Save(items) ==
    /\ overlay' = Retarget(Normalized(items), IdOf)
    /\ page' = [page EXCEPT !.given = Projection(overlay')]
    /\ wish' = Retarget(items, [p \in Keys(items) |-> <<0, p[2]>>])
    /\ placed' = Range(IdOf) \cap {IdOf[p] : p \in Keys(items) \cap DOMAIN IdOf}
    /\ UNCHANGED <<registry, changed>>

\* dropOrderingNode
Drop(items, source, target, position) ==
    /\ MayMove(items, source, target)
    /\ position \in Positions(target)
    /\ Save(Moved(items, source, target, position))

\* ungroupOrderingGroup
Ungroup(group) == Save(Normalized(Splice(Shown, Ref(group), group.items)))

\* toggleOrderingGroup, collapseAllOrderingGroups, renameOrderingGroup: the list is saved as it is.
Resave == Groups(Shown) # {} /\ Save(Shown)

\* refreshConfig
Refresh == page' = Loaded /\ UNCHANGED <<registry, changed, overlay, wish, placed>>

\* The file of a task comes, goes or moves, and the tasks are loaded again.
Change(t, d) ==
    /\ changed < Changes /\ changed' = changed + 1
    /\ registry[t] # d /\ registry' = [registry EXCEPT ![t] = d]
    /\ UNCHANGED <<overlay, page, wish, placed>>

\* An order without groups, of some of the tasks, has come with the configuration.
Init ==
    /\ registry \in Registries /\ changed = 0
    /\ \E names \in UNION {SetToSeqs(some) : some \in SUBSET Tasks} :
        /\ overlay = [i \in DOMAIN names |-> Leaf(<<0, names[i]>>)]
        /\ placed = {<<0, names[i]>> : i \in DOMAIN names}
    /\ wish = overlay
    /\ page = Loaded

Next ==
    \/ LET items == Shown IN
        \E source, target \in Nodes(items), position \in {"before", "after", "inside", "group"} :
            Drop(items, source, target, position)
    \/ \E group \in Groups(Shown) : Ungroup(group)
    \/ Resave \/ Refresh
    \/ \E t \in Tasks, d \in {0} \cup Dirs : Change(t, d)

Spec == Init /\ [][Next]_vars

----------------------------------------------------------------------------
WellFormed(items) ==
    /\ IsInjective(Flat(items))
    /\ \A g \in Groups(items) : Len(g.items) > 1 /\ Cardinality({h \in Groups(items) : h.group = g.group}) = 1

\* What a page that is up to date shows is, group by group, the order the scheduler runs in.
ShownIsRun ==
    page = Loaded =>
        /\ Flat(Shown) = OrderedRows
        /\ \A due \in SUBSET Range(PathOf) : RunOrder(due) = Within(Flat(Shown), due)

\* The user's list comes back as he has left it, group by group, for the tasks that are there:
\* through tasks that move, and through those that go and come back.
PlacesKept ==
    LET names == {<<0, t>> : t \in Registered} \cap placed
        now == Projection(overlay).items
    IN  Clean(Retarget(now, [p \in Keys(now) |-> <<0, p[2]>>]), names) = Clean(wish, names)

\* Wherever a node of the list is dropped, it comes to lie at its target with all it holds, no
\* task is lost or doubled, and the others keep their order.
DropsAreSound ==
    LET list == Shown
        before == Flat(list) IN
    \A source, target \in Nodes(list) : MayMove(list, source, target) =>
        \A position \in Positions(target) :
            LET result == Moved(list, source, target, position)
                after == Flat(result)
                moved == Keys(<<source>>)
                near == Keys(<<target>>) \ moved
                at == {i \in DOMAIN after : after[i] \in moved}
                by == {i \in DOMAIN after : after[i] \in near}
            IN  /\ WellFormed(result)
                /\ Range(after) = Range(before)
                /\ Within(after, moved) = Flat(<<source>>)
                /\ SelectSeq(after, LAMBDA p : p \notin moved) = SelectSeq(before, LAMBDA p : p \notin moved)
                /\ \A i, j \in at \cup by : \A k \in i..j : k \in at \cup by
                /\ position = "before" => \A i \in at, j \in by : i < j
                /\ position \in {"after", "inside"} => \A i \in at, j \in by : i > j

\* The list of the panel, what is stored of it and what is run go together.
OrderingIsSound == WellFormed(Shown) /\ ShownIsRun /\ PlacesKept /\ DropsAreSound
=============================================================================
