----------------------------- MODULE TaskCatalog -----------------------------
(* What a user has set for his tasks while their files come, go, move and    *)
(* break: the load of the task modules (catalog.py), which registers what it *)
(* can import, moves settings from a task's former path to its name and      *)
(* prunes what no task claims; and what the pages write over it              *)
(* (projection.py).  A setting is the number of the write that made it, zero *)
(* the default.  A task is known by its name; a key of the stored table is   *)
(* <<0, t>>, the name of t, or <<d, t>>, its path in the directory d, which  *)
(* older versions stored and an import brings back.  Pinned ids, deprecated  *)
(* tasks and tasks outside any directory are left out; a reload is one step. *)
EXTENDS Naturals, FiniteSets, SequencesExt

CONSTANTS
    Tasks,      \* names of tasks, numbers in the order of the names
    Dirs,       \* directories, numbers from 1 in the order of their paths
    Custom,     \* those of them under data/custom_task
    First,      \* the source files at the beginning, one of each task
    Changes,    \* changes of the files
    Writes      \* settings made

VARIABLES
    files,      \* the source files, <<directory, task>>
    changed,    \* changes of the files so far
    broken,     \* those of them that do not import, and fail before they register
    registry,   \* task_registry: the directory of each registered task, or 0
    loaded,     \* the last load: "never", "aborted", "guarded" (with errors of custom tasks) or "clean"
    table,      \* cfg["tasks"]: settings by key
    order,      \* cfg["task_ordering"]: keys
    diskTable, diskOrder,   \* the same in their files
    page,       \* the list a tab holds: the directory of each task it shows
    written,    \* settings made so far
    mine,       \* what the user, or a run, has last set for each task
    dropped,    \* tasks whose settings may be gone: see the actions that add to it
    wish,       \* the tasks as the user has last ordered them
    unplaced    \* those of them whose place may be gone

store == <<table, order, diskTable, diskOrder>>
sources == <<files, broken, changed>>
catalog == <<registry, loaded>>
asked == <<written, mine, dropped, wish, unplaced>>
vars == <<sources, catalog, store, page, asked>>

Id(t) == <<0, t>>
Paths == Dirs \X Tasks
Keys == ({0} \cup Dirs) \X Tasks

\* The keys under which the settings of t may be found for it: its former paths.
Candidates(tab, t) == {k \in DOMAIN tab : k \in Paths /\ k[2] = t}
Ambiguous(tab) == {t \in Tasks : Cardinality(Candidates(tab, t)) > 1}
Registered(reg) == {t \in Tasks : reg[t] # 0}

\* Those of a sequence that are in the set, in their order; of the first n of it, kept[n].
Within(seq, set) ==
    LET kept[n \in 0..Len(seq)] ==
            IF n = 0 THEN <<>>
            ELSE IF seq[n] \in set THEN Append(kept[n - 1], seq[n]) ELSE kept[n - 1]
    IN kept[Len(seq)]

\* Settings over others.
Over(new, old) == [k \in DOMAIN new \cup DOMAIN old |-> IF k \in DOMAIN new THEN new[k] ELSE old[k]]

Orders(set) == {s \in [1..Cardinality(set) -> set] : IsInjective(s)}

\* A place kept under a path is moved with the entry of that path, or never.
Stranded(ord, tab) == {k[2] : k \in (Range(ord) \cap Paths) \ DOMAIN tab}

\* An older version has left a table, and an order of some of it, keyed by paths.
Init ==
    /\ files = First /\ broken = {} /\ changed = 0
    /\ registry = [t \in Tasks |-> 0] /\ loaded = "never"
    /\ \E old \in SUBSET Paths :
        /\ Cardinality(old) <= Cardinality(Tasks)
        /\ diskTable = [k \in old |-> 1]
        /\ mine = [t \in Tasks |-> IF \E k \in old : k[2] = t THEN 1 ELSE 0]
        /\ \E placed \in SUBSET {k \in old : k[2] \notin Ambiguous(diskTable)} :
            diskOrder \in Orders(placed)
    /\ table = diskTable /\ order = diskOrder
    /\ page = <<>>
    /\ written = 1
    /\ dropped = Ambiguous(diskTable)
    /\ wish = [i \in DOMAIN diskOrder |-> diskOrder[i][2]] /\ unplaced = {}

----------------------------------------------------------------------------
(* The files, changed by hand, by an editor or by an update. *)

Change == changed < Changes /\ changed' = changed + 1

AddFile(f) ==
    /\ Change
    /\ f \notin files /\ files' = files \cup {f}
    /\ UNCHANGED <<broken, catalog, store, page, asked>>

RemoveFile(f) ==
    /\ Change
    /\ f \in files /\ files' = files \ {f} /\ broken' = broken \ {f}
    /\ UNCHANGED <<catalog, store, page, asked>>

MoveFile(f, d) ==
    /\ Change
    /\ f \in files /\ <<d, f[2]>> \notin files
    /\ files' = (files \ {f}) \cup {<<d, f[2]>>}
    /\ broken' = {IF b = f THEN <<d, f[2]>> ELSE b : b \in broken}
    /\ UNCHANGED <<catalog, store, page, asked>>

Break(f) ==
    /\ Change
    /\ f \in files \ broken /\ broken' = broken \cup {f}
    /\ UNCHANGED <<files, catalog, store, page, asked>>

Mend(f) ==
    /\ Change
    /\ f \in broken /\ broken' = broken \ {f}
    /\ UNCHANGED <<files, catalog, store, page, asked>>

----------------------------------------------------------------------------
(* load_tasks. *)

Builtin == {f \in files : f[1] \notin Custom}
Before(f, g) == f[1] < g[1] \/ (f[1] = g[1] /\ f[2] < g[2])

\* A name that is registered already is refused.
Bad(f) == f \in broken \/ \E g \in Builtin : g[2] = f[2] /\ Before(g, f)

\* The first built-in file that fails ends the load with its exception.
Aborts == \E f \in Builtin : Bad(f)
Reached == {f \in Builtin : \A g \in Builtin : Bad(g) => Before(f, g)}

\* Each custom file that fails is noted and passed over.
Accepted ==
    {f \in files \ Builtin :
        /\ f \notin broken
        /\ \A g \in files \ broken : g # f /\ g[2] = f[2] => Before(f, g)}
Errors == files \ (Builtin \cup Accepted) # {}

Imported == IF Aborts THEN Reached ELSE Builtin \cup Accepted

Register == [t \in Tasks |-> IF \E f \in Imported : f[2] = t
                             THEN (CHOOSE f \in Imported : f[2] = t)[1] ELSE 0]

\* register_task: a task without an entry gets one with the default.
WithDefaults(tab, reg) == Over(tab, [k \in {Id(t) : t \in Registered(reg)} |-> 0])

\* reconcile_task_identities: the one former path of a registered task.
Adopted(tab, reg) ==
    {k \in DOMAIN tab \cap Paths : k[2] \in Registered(reg) /\ Candidates(tab, k[2]) = {k}}

Reconcile(tab, reg) ==
    LET moved == Adopted(tab, reg) IN
    [k \in DOMAIN tab \ moved |->
        IF k[1] = 0 /\ \E m \in moved : m[2] = k[2]
        THEN tab[CHOOSE m \in moved : m[2] = k[2]]
        ELSE tab[k]]

Retarget(ord, moved) == [i \in DOMAIN ord |-> IF ord[i] \in moved THEN Id(ord[i][2]) ELSE ord[i]]

\* Mutant: what nobody claims goes, whatever could not be imported.
PruneAlways(tab, reg) == [k \in {Id(t) : t \in Registered(reg)} |-> tab[k]]

\* prune_stale_tasks: not after errors of custom tasks, and not with an empty registry.
Prune(tab, reg) ==
    IF Errors \/ Registered(reg) = {} THEN tab
    ELSE [k \in {Id(t) : t \in Registered(reg)} |-> tab[k]]

\* The files are read again; a load that ends with an exception, or with errors of custom
\* tasks, is not saved.  Pruned are the settings of tasks without a file.
Reload ==
    LET entries == WithDefaults(diskTable, Register)
        moved == Adopted(entries, Register)
        gone == {k[2] : k \in DOMAIN entries \ DOMAIN table'} \ {f[2] : f \in files}
    IN
    /\ registry' = Register
    /\ \/ /\ Aborts /\ loaded' = "aborted"
          /\ table' = entries /\ order' = diskOrder
          /\ UNCHANGED <<diskTable, diskOrder, dropped, unplaced>>
       \/ /\ ~Aborts /\ loaded' = IF Errors THEN "guarded" ELSE "clean"
          /\ table' = Prune(Reconcile(entries, Register), Register)
          /\ order' = Retarget(diskOrder, moved)
          /\ IF Errors THEN UNCHANGED <<diskTable, diskOrder>>
             ELSE diskTable' = table' /\ diskOrder' = order'
          /\ dropped' = dropped \cup gone
          /\ unplaced' = unplaced \cup Stranded(order', table')
    /\ UNCHANGED <<sources, page, written, mine, wish>>

----------------------------------------------------------------------------
(* The pages and the runs. *)

\* build_task_tree: what is registered and has an entry under its name.
Tree ==
    [t \in {t \in Registered(registry) : Id(t) \in DOMAIN table} |-> registry[t]]

\* The setting the page has of a task: that it may be an older one is looked at in TaskPages.
Setting(t) == IF Id(t) \in DOMAIN table THEN table[Id(t)] ELSE 0

Refresh ==
    /\ page' = Tree
    /\ UNCHANGED <<sources, catalog, store, asked>>

Write == written < Writes /\ written' = written + 1

\* save_tasks: the page's list, with one task set anew, becomes the table; what the page
\* did not show is gone.
SaveTask(t) ==
    /\ t \in DOMAIN page /\ Write
    /\ LET list == [u \in DOMAIN page |-> IF u = t THEN written' ELSE Setting(u)] IN
        /\ table' = [k \in {Id(u) : u \in DOMAIN page} |-> list[k[2]]]
        /\ mine' = Over(list, mine)
    /\ diskTable' = table' /\ diskOrder' = order
    /\ dropped' = Tasks \ DOMAIN page
    /\ unplaced' = unplaced \cup Stranded(order, table')
    /\ UNCHANGED <<sources, catalog, order, page, wish>>

\* save_task_ordering: the paths of the page become names by the registry of now; a path
\* that names no task any more is left out.
SaveOrder(tasks) ==
    LET known == {t \in DOMAIN page : registry[t] = page[t]}
        placed == Within(tasks, known)
    IN
    /\ Len(tasks) > 1
    /\ order' = [i \in DOMAIN placed |-> Id(placed[i])]
    /\ diskOrder' = order'
    /\ wish' = tasks /\ unplaced' = DOMAIN page \ known
    /\ UNCHANGED <<sources, catalog, table, diskTable, page, written, mine, dropped>>

\* save_task_ordering_layout: to paths and back.
SaveLayout ==
    LET known == {Id(t) : t \in Registered(registry)} IN
    /\ order' = Within(order, known)
    /\ diskOrder' = order'
    /\ unplaced' = unplaced \cup {t \in Tasks : Id(t) \notin Range(order')}
    /\ UNCHANGED <<sources, catalog, table, diskTable, page, written, mine, dropped, wish>>

\* import_config of what the page was given: the tree is stored as it is, by paths, until
\* the next load.  The order comes with it, and is looked at if it is the present one.
Import ==
    /\ page # <<>>
    /\ table' = [k \in {<<page[t], t>> : t \in DOMAIN page} |-> Setting(k[2])]
    /\ diskTable' = table' /\ diskOrder' = order
    /\ mine' = Over([t \in DOMAIN page |-> Setting(t)], mine)
    /\ dropped' = Tasks \ DOMAIN page
    /\ unplaced' = unplaced \cup Stranded(order, table')
    /\ UNCHANGED <<sources, catalog, order, page, written, wish>>

\* A task that is on has run: its entry is written and all is saved.
Run(t) ==
    /\ t \in Registered(registry) /\ Id(t) \in DOMAIN table /\ table[Id(t)] # 0 /\ Write
    /\ table' = [table EXCEPT ![Id(t)] = written']
    /\ diskTable' = table' /\ diskOrder' = order
    /\ mine' = [mine EXCEPT ![t] = written'] /\ dropped' = dropped \ {t}
    /\ UNCHANGED <<sources, catalog, order, page, wish, unplaced>>

Next ==
    \/ \E f \in Paths : AddFile(f) \/ RemoveFile(f) \/ Break(f) \/ Mend(f) \/ \E d \in Dirs : MoveFile(f, d)
    \/ Reload
    \/ Refresh \/ Import \/ SaveLayout
    \/ \E t \in Tasks : SaveTask(t) \/ Run(t)
    \/ \E tasks \in Orders(DOMAIN page) : SaveOrder(tasks)

Spec == Init /\ [][Next]_vars

----------------------------------------------------------------------------
TypeOK ==
    /\ broken \subseteq files /\ files \subseteq Paths
    /\ registry \in [Tasks -> {0} \cup Dirs]
    /\ loaded \in {"never", "aborted", "guarded", "clean"}
    /\ \A tab \in {table, diskTable} : DOMAIN tab \subseteq Keys /\ Range(tab) \subseteq 0..Writes
    /\ \A ord \in {order, diskOrder} : Range(ord) \subseteq Keys /\ IsInjective(ord)
    /\ DOMAIN page \subseteq Tasks /\ dropped \subseteq Tasks /\ unplaced \subseteq Tasks

Stored(tab, t) ==
    IF Cardinality(Candidates(tab, t)) = 1 THEN tab[CHOOSE k \in Candidates(tab, t) : TRUE]
    ELSE IF Id(t) \in DOMAIN tab THEN tab[Id(t)] ELSE 0

\* What was last set for a task is there for it, in memory and on disk, through moves,
\* copies and broken files, loads that are aborted and imports: until its file is gone
\* while all others load, a list is saved that did not show it, or older versions have
\* left it under two paths.
SettingsKept ==
    \A t \in Tasks \ dropped : Stored(table, t) = mine[t] /\ Stored(diskTable, t) = mine[t]

Places(ord) == Within([i \in DOMAIN ord |-> ord[i][2]], Tasks \ unplaced)

\* The user's order of his tasks survives as well, and a load that was not aborted has it
\* under the names of the tasks that are there, by which it is shown.
OrderKept ==
    /\ \A ord \in {order, diskOrder} : Places(ord) = Within(wish, Tasks \ unplaced)
    /\ loaded \in {"guarded", "clean"} =>
        \A k \in Range(order) : k[2] \in Registered(registry) \ unplaced => k[1] = 0

\* The settings and the order are those the user made.
CatalogIsSound == TypeOK /\ SettingsKept /\ OrderKept
=============================================================================
