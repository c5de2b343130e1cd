------------------------------ MODULE TaskPages ------------------------------
(* The task list of the WebUI as a browser tab holds it, the requests it    *)
(* exchanges with the server, and the version that tells it when to read    *)
(* again: static/js/app.js on one side, routes/tasks.py, api_context and    *)
(* projection.py on the other.  A tab sends the whole list it shows, the    *)
(* server puts it in place of its own; the order of the tasks is sent,      *)
(* stored and answered apart.  A handler runs on the one thread of the      *)
(* event loop, so a request is served in one step; answers arrive in any    *)
(* order.  What an entry holds is the number of the write that set it.  The *)
(* other tabs appear by what they do to the server.                         *)
EXTENDS Naturals, Sequences

CONSTANTS
    Leaves,     \* the tasks of the list
    Writes      \* writes of the list or of its order that are looked at

Items == Leaves \cup {"order"}
Snapshot == [Items -> 0 .. Writes]

\* The order is kept under a name that no task has.
PagesAssumption == "order" \notin Leaves /\ Writes \in Nat

VARIABLES
    table,      \* cfg["tasks"] and cfg["task_ordering"]
    version,    \* _state_version
    updated,    \* the scheduler's _tasks_updated event
    running,    \* a task runs: guard_runtime_idle refuses a save
    owed,       \* a task's run wrote an entry and _tasks_updated is not set for it yet
    written,    \* the number of the last write
    shown,      \* configData of the tab: its tasks and its order
    known,      \* configData.config_version
    toggled,    \* the tasks switched in the list and not sent yet
    queue,      \* what hangs on taskPersistenceOperationTail, the first one under way
    post,       \* the request of the first one: "idle", "asked", "refused" or "answered"
    reply,      \* its answer
    get,        \* a read of /refresh: "idle", "asked" or "answered"
    got,        \* its answer
    snap,       \* _runtimeSnapshotPromise: "idle", "asked" or "answered"
    seen,       \* the config_version of its answer
    refreshes,  \* refreshConfigIfChanged of that call
    wronged     \* a save of a tab that was up to date undid another write

server == <<table, version, updated, running, owed, written, wronged>>
page == <<shown, known, toggled>>
reading == <<get, got>>
saving == <<queue, post, reply>>
polling == <<snap, seen, refreshes>>
vars == <<server, page, reading, saving, polling>>

Operations == [kind : {"tasks", "order"}, list : Snapshot, mine : SUBSET Leaves, fresh : BOOLEAN]
Answers == [list : Snapshot, at : Nat]
Nothing == [i \in Items |-> 0]
None == [list |-> Nothing, at |-> 0]

TypeOK ==
    /\ table \in Snapshot /\ version \in Nat /\ written \in 0 .. Writes
    /\ {updated, running, owed, wronged} \subseteq BOOLEAN
    /\ shown \in Snapshot /\ known \in Nat /\ toggled \in SUBSET Leaves
    /\ \A i \in DOMAIN queue : queue[i] \in Operations
    /\ post \in {"idle", "asked", "refused", "answered"} /\ reply \in Answers
    /\ get \in {"idle", "asked", "answered"} /\ got \in Answers
    /\ snap \in {"idle", "asked", "answered"} /\ seen \in Nat /\ refreshes \in BOOLEAN

\* init() has read the list once.
Init ==
    /\ table = Nothing /\ version = 1 /\ written = 0
    /\ updated = FALSE /\ running = FALSE /\ owed = FALSE /\ wronged = FALSE
    /\ shown = Nothing /\ known = 1 /\ toggled = {}
    /\ queue = <<>> /\ post = "idle" /\ reply = None
    /\ get = "idle" /\ got = None
    /\ snap = "idle" /\ seen = 0 /\ refreshes = FALSE

----------------------------------------------------------------------------
(* The runs of tasks. *)

RunStarts ==
    /\ ~running /\ running' = TRUE
    /\ UNCHANGED <<table, version, updated, owed, written, wronged, page, reading, saving, polling>>

RunEnds ==
    /\ running /\ running' = FALSE
    /\ UNCHANGED <<table, version, updated, owed, written, wronged, page, reading, saving, polling>>

\* What was drafted before a write no longer knows all of the table.
Outdated == [i \in DOMAIN queue |-> [queue[i] EXCEPT !.fresh = FALSE, !.mine = {}]]

Write == written < Writes /\ written' = written + 1

\* A task that ran has its next time and its marks written to its entry.
RunWrites(t) ==
    /\ running /\ Write
    /\ table' = [table EXCEPT ![t] = written']
    /\ owed' = TRUE
    /\ queue' = Outdated
    /\ UNCHANGED <<version, updated, running, wronged, page, reading, post, reply, polling>>

\* The pipeline sets the event after a character's tasks, and once more when it is left,
\* by when the scheduler may already be idle.
RunAnnounces ==
    /\ owed
    /\ owed' = FALSE /\ updated' = TRUE
    /\ UNCHANGED <<table, version, running, written, wronged, page, reading, saving, polling>>

----------------------------------------------------------------------------
(* The server. *)

\* consume_runtime_config_updates: the event becomes a new version.
Consume ==
    /\ updated' = FALSE
    /\ version' = IF updated THEN version + 1 ELSE version

\* Mutant: a save raises the version and leaves the event alone.
RaiseVersion ==
    /\ UNCHANGED updated
    /\ version' = version + 1

\* _refresh_task_projection: the event is set, so that the next reader raises the version
\* once more, and the version is raised.
RefreshProjection ==
    /\ updated' = TRUE
    /\ version' = version + 1

PublicConfig == [list |-> table', at |-> version']

\* save_tasks and save_task_ordering: what a tab sent replaces the list, or the order.
Replace(kind, list) ==
    /\ table' = [i \in Items |-> IF (i = "order") = (kind = "order") THEN list[i] ELSE table[i]]
    /\ RefreshProjection
    /\ queue' = Outdated

\* POST /tasks and POST /task-ordering: refused while a task runs; else the handler
\* answers with what it now has.
ServePost ==
    /\ post = "asked"
    /\ \/ /\ running
          /\ post' = "refused"
          /\ UNCHANGED <<table, version, updated, wronged, queue, reply>>
       \/ LET op == Head(queue) IN
          /\ ~running
          /\ Replace(op.kind, op.list)
          /\ wronged' = (wronged \/ (op.fresh /\ \E t \in Leaves \ op.mine : table'[t] # table[t]))
          /\ post' = "answered" /\ reply' = PublicConfig
    /\ UNCHANGED <<running, owed, written, page, reading, polling>>

\* The same by another tab, which changes an entry, or puts back what an older list has.
OthersSave(kind) ==
    /\ ~running /\ Write
    /\ \E i \in Items, n \in 0 .. written' : Replace(kind, [table EXCEPT ![i] = n])
    /\ table' # table
    /\ UNCHANGED <<running, owed, wronged, page, reading, post, reply, polling>>

\* A poll, or a read, of another tab.
OthersRead ==
    /\ updated /\ Consume
    /\ UNCHANGED <<table, running, owed, written, wronged, page, reading, saving, polling>>

\* GET /refresh.
ServeRefresh ==
    /\ get = "asked" /\ get' = "answered"
    /\ Consume
    /\ UNCHANGED table
    /\ got' = PublicConfig
    /\ UNCHANGED <<running, owed, written, wronged, page, saving, polling>>

\* GET /runtime/snapshot, which carries no list.
ServeSnapshot ==
    /\ snap = "asked" /\ snap' = "answered"
    /\ Consume
    /\ seen' = version'
    /\ UNCHANGED <<table, running, owed, written, wronged, page, reading, saving, refreshes>>

----------------------------------------------------------------------------
(* The tab. *)

\* applyPublicConfigPayload: an older version is ignored, any other replaces all of the
\* tab's list, what was switched in it and not saved included.
Apply(answer) ==
    IF answer.at < known THEN UNCHANGED page
    ELSE shown' = answer.list /\ known' = answer.at /\ toggled' = {}

\* applyTaskOrderingPayload: the order alone is taken, and the version with it.
ApplyOrdering(answer) ==
    IF answer.at < known THEN UNCHANGED page
    ELSE /\ shown' = [shown EXCEPT !["order"] = answer.list["order"]]
         /\ known' = answer.at
         /\ UNCHANGED toggled

\* refreshConfig(true): by a button, after a change of the configuration, or as a poll
\* found a newer version.  One such read is looked at at a time.
Ask == get = "idle" /\ get' = "asked" /\ UNCHANGED got

Reread ==
    /\ Ask
    /\ UNCHANGED <<server, page, saving, polling>>

TakeAnswer ==
    /\ get = "answered" /\ get' = "idle" /\ got' = None
    /\ Apply(got)
    /\ UNCHANGED <<server, saving, polling>>

\* fetchRuntimeSnapshot: one at a time, a second call joins the first.
Fetch(ifChanged) ==
    IF snap = "idle" THEN snap' = "asked" /\ refreshes' = ifChanged /\ UNCHANGED seen
    ELSE UNCHANGED polling

\* Every 5 s.
Poll ==
    /\ snap = "idle" /\ Fetch(TRUE)
    /\ UNCHANGED <<server, page, reading, saving>>

\* The answer waits for the operations of the tab that are queued; then a version above
\* the tab's makes it read the list.
TakeSnapshot ==
    /\ snap = "answered" /\ queue = <<>>
    /\ \/ refreshes /\ seen > known /\ Ask
       \/ ~(refreshes /\ seen > known) /\ UNCHANGED reading
    /\ snap' = "idle" /\ seen' = 0 /\ refreshes' = FALSE
    /\ UNCHANGED <<server, page, saving>>

\* toggleTask: the list of the tab itself is changed, nothing is sent.
Toggle(t) ==
    /\ Write
    /\ shown' = [shown EXCEPT ![t] = written']
    /\ toggled' = toggled \cup {t}
    /\ UNCHANGED <<table, version, updated, running, owed, wronged, known, reading, saving, polling>>

UpToDate == known = version /\ ~updated /\ ~owed

\* queueTaskPersistenceOperation, with a copy of what is to be saved.
Enqueue(kind, list, mine) ==
    /\ Len(queue) < 2
    /\ queue' = Append(queue, [kind |-> kind, list |-> list, fresh |-> UpToDate,
                               mine |-> IF UpToDate THEN mine ELSE {}])
    /\ UNCHANGED <<table, version, updated, running, owed, wronged, page, reading, post, reply,
                   polling>>

\* saveTasks: the whole list as it stands in the tab.
SaveList ==
    /\ toggled # {}
    /\ Enqueue("tasks", shown, toggled)
    /\ UNCHANGED written

\* _persistTaskPayload of the editor's form: the list with one task replaced, which the
\* tab shows only when the answer has come.
SaveForm(t) ==
    /\ Write
    /\ Enqueue("tasks", [shown EXCEPT ![t] = written'], toggled \cup {t})

\* saveTaskOrdering after a task was dragged.
SaveOrder ==
    /\ Write
    /\ Enqueue("order", [Nothing EXCEPT !["order"] = written'], {})

\* An operation is sent when the one before it is done.
Send ==
    /\ queue # <<>> /\ post = "idle" /\ post' = "asked"
    /\ UNCHANGED <<server, page, reading, queue, reply, polling>>

\* The answer to a save replaces the list, that to an order the order; a refusal is only
\* shown.  A saved list also asks for a snapshot, which is not to read the list again.
Saved ==
    /\ \/ post = "refused" /\ UNCHANGED <<page, polling>>
       \/ post = "answered" /\ Head(queue).kind = "tasks" /\ Apply(reply) /\ Fetch(FALSE)
       \/ /\ post = "answered" /\ Head(queue).kind = "order"
          /\ ApplyOrdering(reply)
          /\ UNCHANGED polling
    /\ queue' = Tail(queue) /\ post' = "idle" /\ reply' = None
    /\ UNCHANGED <<server, reading>>

----------------------------------------------------------------------------
Next ==
    \/ RunStarts \/ RunEnds \/ RunAnnounces
    \/ \E t \in Leaves : RunWrites(t) \/ Toggle(t) \/ SaveForm(t)
    \/ \E kind \in {"tasks", "order"} : OthersSave(kind)
    \/ OthersRead
    \/ ServePost \/ ServeRefresh \/ ServeSnapshot
    \/ TakeAnswer \/ TakeSnapshot \/ Send \/ Saved
    \/ Reread \/ Poll \/ SaveList \/ SaveOrder

\* The server answers, the browser runs what an answer resumes and its timer, and a
\* pipeline that is left sets its event.
Fairness ==
    /\ WF_vars(ServePost) /\ WF_vars(ServeRefresh) /\ WF_vars(ServeSnapshot)
    /\ WF_vars(TakeAnswer) /\ WF_vars(TakeSnapshot) /\ WF_vars(Send) /\ WF_vars(Saved)
    /\ WF_vars(Poll) /\ WF_vars(RunAnnounces)

Spec == Init /\ [][Next]_vars /\ Fairness

----------------------------------------------------------------------------
\* A tab that carries the server's version, with nothing left to announce, shows the
\* server's list, except for what was switched in it: the poll, which compares versions
\* and nothing else, has not lost it, not even when it took its version from the answer
\* to an order.
CurrentShowsAll ==
    UpToDate => \A i \in Items \ toggled : shown[i] = table[i]

\* A save drafted in such a tab, with no write since, changes only what was changed in it.
SavesArePrecise == ~wronged

\* A tab never carries a version the server has not reached.
NoneAhead == known <= version

\* What the tab shows and sends is what the version it carries says.
PagesAreSound == TypeOK /\ CurrentShowsAll /\ SavesArePrecise /\ NoneAhead

\* A tab that stops saving comes to show the server's list, once nothing is written to it.
CatchesUp ==
    <>[](queue = <<>>) => <>[](\A i \in Items \ toggled : shown[i] = table[i])
=============================================================================
