--------------------------- MODULE ErrorArchives ---------------------------
(* What is kept of a task that fails.  The pictures of a run                 *)
(* (AutoScriptor/logging/tracer.py): the task's thread and the monitor's     *)
(* write them, and each write trims the directory; a run begins by emptying  *)
(* it, and a failure moves it into an archive (log_archiver.py), which the   *)
(* page (backend/webui/error_archives.py) may delete at any time, and shows  *)
(* with the pictures among the lines of the log.                             *)
EXTENDS Integers, Sequences, FiniteSets, FiniteSetsExt, SequencesExt

CONSTANTS
    Keep,           \* _KEEP_PER_PREFIX; "r" are the routine frames
    Logs, Images,   \* what a page may have to show: the times of the lines (0: none), and
                    \* [name, at] with the time of a picture (0: not known)
    MaxFrames,      \* bound: pictures written
    MaxRuns         \* bound: attempts at tasks

VARIABLES
    dir,        \* the pictures in the directory: [prefix, at]
    on, due,    \* _run_capture_enabled; the interval since _last_capture_at has passed
    writer,     \* for each thread: what it has to write or to trim
    at,         \* the task's thread
    todo,       \* the pictures it has listed and has to remove or to move
    archive,    \* the archive of this run: its parts and its pictures, NoArchive
    \* history
    run,        \* attempts
    written,    \* the kinds of the pictures, as they were written
    since,      \* how many had been when this run's clear() began, and when it was through
    cut,        \* and when the failure's pictures were listed
    disturbed,  \* another thread has got in the way of this run's clear()
    missed,     \* the trims that failed
    deleted     \* the page has deleted the archive of this run

traceVars == <<dir, on, due, writer>>
archiveVars == <<archive, deleted>>
runVars == <<archiveVars, at, todo, run, since, cut, disturbed>>
vars == <<traceVars, runVars, written, missed>>

Threads == {"task", "monitor"}
Kinds == DOMAIN Keep
clock == Len(written)
NoArchive == [parts |-> {"none"}, frames |-> {}]
Idle == [at |-> "idle", prefix |-> "c", todo |-> <<>>]
OfPrefix(frames, p) == {f \in frames : f.prefix = p}

\* Mutant: the sort is not reversed.
OldestOf(frames, n) == {f \in frames : Cardinality({g \in frames : g.at < f.at}) < n}

\* The n pictures of a set that were written last.
NewestOf(frames, n) == {f \in frames : Cardinality({g \in frames : g.at > f.at}) < n}

KeptOf(frames, p) == NewestOf(OfPrefix(frames, p), Keep[p])
Kept(frames) == UNION {KeptOf(frames, p) : p \in Kinds}

-----------------------------------------------------------------------------
(* The pictures.                                                             *)

\* save_debug_screenshot() at a decision, capture_run_frame() with a frame that is just there.
Free(w) == writer[w].at = "idle" /\ (w = "task" => at \in {"runs", "archived"})

Begin(w, p) == writer' = [writer EXCEPT ![w] = [at |-> "write", prefix |-> p, todo |-> <<>>]]

Decide(w) ==
    /\ Free(w)
    /\ \E p \in Kinds \ {"r"} : Begin(w, p)
    /\ UNCHANGED <<dir, on, due, runVars, written, missed>>

Capture(w) ==
    /\ Free(w) \/ (w = "task" /\ at = "frame" /\ writer[w].at = "idle")
    /\ on /\ due /\ due' = FALSE
    /\ Begin(w, "r")
    /\ UNCHANGED <<dir, on, runVars, written, missed>>

IntervalPasses ==
    /\ on /\ ~due /\ due' = TRUE
    /\ UNCHANGED <<dir, on, writer, runVars, written, missed>>

\* _write_frame: the picture, if it can be written, ...
Write(w) ==
    /\ writer[w].at = "write"
    /\ \/ /\ clock < MaxFrames
          /\ written' = Append(written, writer[w].prefix)
          /\ dir' = dir \cup {[prefix |-> writer[w].prefix, at |-> clock + 1]}
          /\ writer' = [writer EXCEPT ![w] = [Idle EXCEPT !.at = "trim"]]
       \/ writer' = [writer EXCEPT ![w] = Idle] /\ UNCHANGED <<dir, written>>
    /\ UNCHANGED <<on, due, runVars, missed>>

\* ... then _prune: what is there is listed, newest first, ...
NewestFirst(frames) == SetToSortSeq(frames, LAMBDA f, g : f.at > g.at)

List(w) ==
    /\ writer[w].at = "trim"
    /\ writer' = [writer EXCEPT ![w].at = "stat", ![w].todo = NewestFirst(dir)]
    /\ UNCHANGED <<dir, on, due, runVars, written, missed>>

\* ... which fails if one of them vanishes before its stat, ...
Stat(w) ==
    /\ writer[w].at = "stat"
    /\ LET seen == Range(writer[w].todo)
           rest == seen \ Kept(seen)
       IN  \/ /\ writer' = [writer EXCEPT ![w] = IF rest = {} THEN Idle ELSE
                                [Idle EXCEPT !.at = "unlink", !.todo = NewestFirst(rest)]]
              /\ UNCHANGED missed
           \/ /\ ~(seen \subseteq dir)
              /\ writer' = [writer EXCEPT ![w] = Idle] /\ missed' = missed + 1
    /\ UNCHANGED <<dir, on, due, runVars, written>>

\* ... and the rest is removed; a picture that is gone already ends it.
Unlink(w) ==
    /\ writer[w].at = "unlink"
    /\ LET f == writer[w].todo[1]
           rest == Tail(writer[w].todo)
       IN  /\ dir' = dir \ {f}
           /\ writer' = [writer EXCEPT ![w] = IF f \in dir /\ rest # <<>>
                                              THEN [@ EXCEPT !.todo = rest] ELSE Idle]
           /\ missed' = IF f \in dir THEN missed ELSE missed + 1
    /\ UNCHANGED <<on, due, runVars, written>>

-----------------------------------------------------------------------------
(* The run of a task.                                                        *)

\* _execute_single_task: set_run_capture, then the task with its task_wrapper.
StartRun ==
    /\ at = "idle" /\ run < MaxRuns
    /\ on' \in BOOLEAN /\ due' = TRUE
    /\ run' = run + 1 /\ since' = [begin |-> clock, end |-> clock]
    /\ at' = "clear" /\ todo' = dir /\ disturbed' = FALSE
    /\ archive' = NoArchive /\ deleted' = FALSE
    /\ UNCHANGED <<dir, writer, written, cut, missed>>

\* Mutant: the pictures of the last run stay.
EndClear ==
    /\ at = "clear" /\ at' = "runs" /\ todo' = {}
    /\ UNCHANGED <<traceVars, archiveVars, run, written, since, cut, disturbed, missed>>

Oldest(frames) == CHOOSE f \in frames : \A g \in frames : f.at <= g.at

\* clear_debug_screenshots: a picture that is gone already ends it, with the rest still there.
Clear ==
    /\ at = "clear"
    /\ IF todo = {}
       THEN /\ at' = "runs" /\ since' = [since EXCEPT !.end = clock]
            /\ UNCHANGED <<dir, todo, disturbed>>
       ELSE LET f == Oldest(todo) IN
            /\ dir' = dir \ {f}
            /\ todo' = IF f \in dir THEN todo \ {f} ELSE {}
            /\ disturbed' = (disturbed \/ f \notin dir)
            /\ UNCHANGED <<at, since>>
    /\ UNCHANGED <<on, due, writer, archiveVars, run, written, cut, missed>>

EndRun ==
    /\ at \in {"runs", "archived"} /\ writer["task"].at = "idle"
    /\ at' = "idle" /\ on' = FALSE /\ due' = TRUE
    /\ UNCHANGED <<dir, writer, archiveVars, todo, run, written, since, cut, disturbed, missed>>

-----------------------------------------------------------------------------
(* archive_error.                                                            *)
Empty == [parts |-> {}, frames |-> {}]
There == archive # NoArchive
Add(part) == archive' = [archive EXCEPT !.parts = @ \cup {part}]

\* The directory, and the log in it; both may fail, and then nothing more is kept.
Fail ==
    /\ at = "runs" /\ writer["task"].at = "idle"
    /\ at' = "log" /\ archive' = Empty
    /\ UNCHANGED <<traceVars, deleted, todo, run, written, since, cut, disturbed, missed>>

WriteLog ==
    /\ at = "log"
    /\ \/ There /\ at' = "frame" /\ Add("log")
       \/ at' = "archived" /\ UNCHANGED archive
    /\ UNCHANGED <<traceVars, deleted, todo, run, written, since, cut, disturbed, missed>>

\* The frame of now, from a screenshot that may be captured as well; without it the rest is kept.
SaveFrame ==
    /\ at = "frame" /\ writer["task"].at = "idle"
    /\ \/ There /\ Add("frame")
       \/ UNCHANGED archive
    /\ at' = "list"
    /\ UNCHANGED <<traceVars, deleted, todo, run, written, since, cut, disturbed, missed>>

\* take_debug_screenshots; its mkdir makes the archive again if it has been deleted.
ListFrames ==
    /\ at = "list"
    /\ at' = "move" /\ todo' = dir /\ cut' = clock
    /\ archive' = IF dir = {} \/ There THEN archive ELSE Empty
    /\ UNCHANGED <<traceVars, deleted, run, written, since, disturbed, missed>>

\* One that cannot be moved, for it is gone or the archive is, is left.
Move ==
    /\ at = "move"
    /\ IF todo = {}
       THEN at' = "archived" /\ UNCHANGED <<dir, archive, todo>>
       ELSE LET f == Oldest(todo) IN
            /\ todo' = todo \ {f}
            /\ IF There /\ f \in dir
               THEN archive' = [archive EXCEPT !.frames = @ \cup {f}] /\ dir' = dir \ {f}
               ELSE UNCHANGED <<archive, dir>>
            /\ UNCHANGED at
    /\ UNCHANGED <<on, due, writer, deleted, run, written, since, cut, disturbed, missed>>

\* delete_archives, during the archiving: afterwards nothing here depends on it.
Delete ==
    /\ There /\ at # "archived"
    /\ archive' = NoArchive /\ deleted' = TRUE
    /\ UNCHANGED <<traceVars, at, todo, run, written, since, cut, disturbed, missed>>

-----------------------------------------------------------------------------
(* build_log_segments: the lines, and each picture after a line (0: before   *)
(* the first).  A line without a time has the one of the last line with one. *)
EffectiveTime(log, i) ==
    LET timed == {j \in 1..i : log[j] # 0} IN IF timed = {} THEN 0 ELSE log[Max(timed)]

\* Mutant: a line of the picture's own time does not count.
AfterEarlier(log, t) ==
    LET before == {i \in DOMAIN log : EffectiveTime(log, i) \in 1..t - 1}
    IN  IF before = {} THEN 0 ELSE Max(before)

\* _insert_after_line_index
InsertAfter(log, t) ==
    LET upTo == {i \in DOMAIN log : EffectiveTime(log, i) \in 1..t}
    IN  IF upTo = {} THEN 0 ELSE Max(upTo)

Timed(log) == \E i \in DOMAIN log : log[i] # 0
ByName(images) == SetToSortSeq({m.name : m \in images}, <)

\* By their times, those without one last.
ByTime(images) ==
    LET Before(m, n) == \/ m.at # n.at /\ (n.at = 0 \/ m.at \in 1..n.at)
                        \/ m.at = n.at /\ m.name < n.name
    IN  SetToSortSeq(images, Before)

\* What is shown: numbers of lines, and pictures.
Segments(log, images) ==
    LET matched == {m \in images : Timed(log) /\ m.at # 0}
        after(i) == [k \in DOMAIN ByName({m \in matched : InsertAfter(log, m.at) = i}) |->
            <<"image", ByName({m \in matched : InsertAfter(log, m.at) = i})[k]>>]
        rest == ByTime(images \ matched)
    IN  after(0)
        \o FlattenSeq([i \in DOMAIN log |-> <<<<"line", i>>>> \o after(i)])
        \o [k \in DOMAIN rest |-> <<"image", rest[k].name>>]

-----------------------------------------------------------------------------
Init ==
    /\ dir = {} /\ on = FALSE /\ due = TRUE /\ writer = [w \in Threads |-> Idle]
    /\ at = "idle" /\ todo = {} /\ archive = NoArchive
    /\ run = 0 /\ written = <<>> /\ since = [begin |-> 0, end |-> 0] /\ cut = 0
    /\ disturbed = FALSE /\ missed = 0 /\ deleted = FALSE

Next ==
    \/ \E w \in Threads : \/ Decide(w) \/ Capture(w) \/ Write(w)
                          \/ List(w) \/ Stat(w) \/ Unlink(w)
    \/ IntervalPasses
    \/ StartRun \/ Clear \/ EndRun
    \/ Fail \/ WriteLog \/ SaveFrame \/ ListFrames \/ Move \/ Delete

Spec == Init /\ [][Next]_vars

-----------------------------------------------------------------------------
\* However the two threads trim the directory over each other, it stays within its budgets, but for
\* one picture for each trim that the other one made fail.
DirectoryStaysBounded ==
    (\A w \in Threads : writer[w].at = "idle") =>
        \A p \in Kinds : Cardinality(OfPrefix(dir, p)) <= Keep[p] + missed

\* The pictures that lead up to a failure are in its archive: of each kind the newest, of those
\* that the run had written when they were listed; and none that is older than the run, unless
\* its start was disturbed.
TimelineIsKept ==
    /\ at = "archived" /\ "log" \in archive.parts /\ ~deleted =>
        LET own == {[prefix |-> written[i], at |-> i] : i \in since.end + 1..clock}
        IN  \A f \in Kept(own) : f.at <= cut => f \in archive.frames
    /\ ~disturbed => \A f \in archive.frames : f.at > since.begin

\* An archive without a log is one that could not be written, or was deleted while it was.
ArchiveIsWhole ==
    There /\ archive # Empty => "log" \in archive.parts \/ deleted

\* The page shows each line once, in order, and each picture once; a picture with a time comes
\* after all lines up to its time, as far as the times do not go back.
PageShowsAll ==
    \A log \in Logs, images \in Images :
        LET shown == Segments(log, images)
            Place(x) == CHOOSE k \in DOMAIN shown : shown[k] = x
            rising == \A i, j \in DOMAIN log : i < j /\ log[j] # 0 => log[i] <= log[j]
        IN  /\ SelectSeq(shown, LAMBDA x : x[1] = "line") = [i \in DOMAIN log |-> <<"line", i>>]
            /\ Len(shown) = Len(log) + Cardinality(images)
            /\ \A m \in images : \E k \in DOMAIN shown : shown[k] = <<"image", m.name>>
            /\ rising /\ Timed(log) => \A m \in {m \in images : m.at # 0}, i \in DOMAIN log :
                    log[i] # 0 => (log[i] <= m.at) =
                                  (Place(<<"line", i>>) < Place(<<"image", m.name>>))

\* All of the above.  (What the page shows is no matter of the state, and is looked at once.)
ArchivesAreSound ==
    /\ DirectoryStaysBounded /\ TimelineIsKept /\ ArchiveIsWhole
    /\ run = 0 /\ written = <<>> => PageShowsAll
=============================================================================
