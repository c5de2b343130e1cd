---------------------------- MODULE SourceUpdate ----------------------------
(* The update of the source and the restart it asks for: the updater of    *)
(* backend/core/updater.py, which runs git inside a request; the worker    *)
(* process the WebUI lives in; and the supervisor of backend/webui/gui.py  *)
(* that starts it, waits for its restart event and takes the signals.      *)
(*                                                                         *)
(* A request for an update holds the worker's event loop from its first    *)
(* line to its answer, so that checks and updates follow each other; the   *)
(* remote, the user at the same checkout, the restart timer and the        *)
(* signals come in between two calls of git.  A checkout is told by how    *)
(* many of the remote's commits it has; a commit of the user's own makes   *)
(* it ahead, or diverged.  An update that is refused because the runtime   *)
(* is busy is no step.                                                     *)
EXTENDS Naturals

CONSTANTS Pushes,   \* bound on the commits that appear at the remote
          Timers    \* bound on the restart timers of one worker

VARIABLES
    remote,      \* commits at origin/main
    tracking,    \* of them, what the last fetch knows
    head,        \* of them, what the checkout has
    mine,        \* the user has committed on top
    dirty,       \* the working tree has local changes
    code,        \* the commits the worker was started with
    alive,       \* the worker process
    closing,     \* it has its SIGTERM: it takes no more requests
    supported,   \* it was given a restart event
    state,       \* Updater.state
    at,          \* the request that git works for
    timers,      \* pending timers of _trigger_restart
    event,       \* the restart event
    sup,         \* where the supervisor is
    should_exit, \* mp_state["should_exit"]
    handler,     \* the signal handler is waiting for the worker to end
    half,        \* HEAD has moved in an update that failed afterwards
    asked        \* a stop was asked for: "plain", or "late" if a restart was under way

source == <<remote, tracking, head, mine, dirty>>
update == <<state, at, half>>
vars == <<source, code, alive, closing, supported, update, timers, event, sup, should_exit,
          handler, asked>>

\* From these states run_update goes on; it refuses the others.
Updatable == {"available", "failed", "idle", "up_to_date", "ahead", "done", "updated"}

Init ==
    /\ remote = 0 /\ tracking = 0 /\ head = 0 /\ code = 0
    /\ mine = FALSE /\ dirty = FALSE
    /\ alive = TRUE /\ closing = FALSE /\ supported \in BOOLEAN
    /\ state = "idle" /\ at = "none" /\ half = FALSE
    /\ timers = 0 /\ event = FALSE
    /\ sup = "testing" /\ should_exit = FALSE /\ handler = FALSE /\ asked = "no"

-----------------------------------------------------------------------------
(* What others do to the checkout.                                          *)

Push ==
    /\ remote < Pushes
    /\ remote' = remote + 1
    /\ UNCHANGED <<tracking, head, mine, dirty>>

Edit == dirty' = ~dirty /\ UNCHANGED <<remote, tracking, head, mine>>

Commit == ~mine /\ mine' = TRUE /\ UNCHANGED <<remote, tracking, head, dirty>>

Others ==
    /\ Push \/ Edit \/ Commit
    /\ UNCHANGED <<code, alive, closing, supported, update, timers, event, sup, should_exit,
                   handler, asked>>

-----------------------------------------------------------------------------
(* The requests.  Every call of git may fail, or find HEAD detached.        *)

Request(from, to) == alive /\ at = from /\ at' = to

Answer(s) == state' = s /\ at' = "none"

CheckBegin ==
    /\ Request("none", "check") /\ ~closing /\ state # "checking"
    /\ state' = "checking"
    /\ UNCHANGED <<source, half, timers>>

RunBegin ==
    /\ Request("none", "status") /\ ~closing /\ state \in Updatable
    /\ state' = "updating"
    /\ UNCHANGED <<source, half, timers>>

GitFails ==
    /\ alive /\ at \in {"check", "compare", "status", "fetch", "weigh", "pull"}
    /\ Answer("failed")
    /\ UNCHANGED <<source, half, timers>>

Status ==
    /\ alive /\ at = "status"
    /\ \/ dirty /\ Answer("failed")
       \/ ~dirty /\ at' = "fetch" /\ UNCHANGED state
    /\ UNCHANGED <<source, half, timers>>

Fetch ==
    /\ Request("check", "compare") \/ Request("fetch", "weigh")
    /\ tracking' = remote
    /\ UNCHANGED <<remote, head, mine, dirty, state, half, timers>>

Behind == head < tracking

\* check_update: what HEAD is to what was fetched.
Compare ==
    /\ alive /\ at = "compare"
    /\ Answer(CASE ~mine /\ ~Behind -> "up_to_date"
                [] mine /\ ~Behind -> "ahead"
                [] mine /\ Behind -> "failed"
                [] OTHER -> "available")
    /\ UNCHANGED <<source, half, timers>>

\* Mutant: run_update pulls whatever there is to pull, and restarts.
WeighNothing ==
    /\ alive /\ at = "weigh"
    /\ \/ mine /\ Answer(IF Behind THEN "failed" ELSE "ahead")
       \/ ~mine /\ at' = "pull" /\ UNCHANGED state
    /\ UNCHANGED <<source, half, timers>>

\* run_update: only what is behind and nothing else is pulled.
Weigh ==
    /\ alive /\ at = "weigh"
    /\ \/ mine /\ Answer(IF Behind THEN "failed" ELSE "ahead")
       \/ ~mine /\ ~Behind /\ Answer("up_to_date")
       \/ ~mine /\ Behind /\ at' = "pull" /\ UNCHANGED state
    /\ UNCHANGED <<source, half, timers>>

\* git pull --ff-only fetches again.  It may be killed at its timeout when HEAD has
\* moved, and the two rev-parse after it are in the same try.
Pull ==
    /\ alive /\ at = "pull" /\ ~mine /\ ~dirty
    /\ tracking' = remote /\ head' = remote
    /\ \/ at' = "pulled" /\ UNCHANGED <<state, half>>
       \/ Answer("failed") /\ half' = TRUE
    /\ UNCHANGED <<remote, mine, dirty, timers>>

Finish ==
    /\ alive /\ at = "pulled"
    /\ \/ ~supported /\ Answer("updated") /\ UNCHANGED timers
       \/ supported /\ timers < Timers /\ Answer("restarting") /\ timers' = timers + 1
    /\ UNCHANGED <<source, half>>

Requests ==
    /\ CheckBegin \/ RunBegin \/ GitFails \/ Status \/ Fetch \/ Compare \/ Weigh \/ Pull \/ Finish
    /\ UNCHANGED <<code, alive, closing, supported, event, sup, should_exit, handler, asked>>

\* The timer is a thread of the worker.
Fire ==
    /\ alive /\ timers > 0
    /\ timers' = timers - 1 /\ event' = TRUE
    /\ UNCHANGED <<source, code, alive, closing, supported, update, sup, should_exit, handler,
                   asked>>

-----------------------------------------------------------------------------
(* The worker and its supervisor.                                           *)

WorkerEnds == alive' = FALSE /\ at' = "none" /\ timers' = 0

\* uvicorn gives up, or is told to stop by the signal it was passed.
Exit ==
    /\ alive
    /\ WorkerEnds
    /\ UNCHANGED <<source, code, closing, supported, state, half, event, sup, should_exit, handler,
                   asked>>

\* The inner loop looks at the flag, then waits for the event, then looks at the
\* process: a stop that comes during a wait the event ends is not looked at again.
\* The handler runs on the supervisor's thread, which stands still meanwhile.
Turn ==
    /\ ~handler
    /\ \/ sup = "testing" /\ sup' = IF should_exit THEN "leaving" ELSE "waiting"
       \/ sup = "waiting" /\ event /\ sup' = "killing"
       \/ sup = "waiting" /\ ~event /\ sup' = IF alive THEN "testing" ELSE "leaving"
    /\ UNCHANGED <<source, code, alive, closing, supported, update, timers, event, should_exit,
                   handler, asked>>

Kill ==
    /\ sup = "killing" /\ ~handler
    /\ WorkerEnds
    /\ sup' = "resetting"
    /\ UNCHANGED <<source, code, closing, supported, state, half, event, should_exit, handler,
                   asked>>

\* The outer loop's head: the flag is cleared whoever set it, and the event is new.
Reset ==
    /\ sup = "resetting" /\ ~handler
    /\ should_exit' = FALSE /\ event' = FALSE
    /\ sup' = "starting"
    /\ UNCHANGED <<source, code, alive, closing, supported, update, timers, handler, asked>>

\* The new worker imports what is checked out, and has an updater of its own.
Start ==
    /\ sup = "starting" /\ ~handler
    /\ alive' = TRUE /\ closing' = FALSE /\ code' = head
    /\ state' = "idle" /\ half' = FALSE
    /\ sup' = "testing"
    /\ UNCHANGED <<source, supported, at, timers, event, should_exit, handler, asked>>

Leave ==
    /\ sup = "leaving" /\ ~handler
    /\ WorkerEnds
    /\ sup' = "ended"
    /\ UNCHANGED <<source, code, closing, supported, state, half, event, should_exit, handler,
                   asked>>

\* A restart was asked for, or may be by what the worker still does.
UnderWay == sup \in {"killing", "resetting"} \/ event \/ timers > 0 \/ at # "none"

\* SIGTERM, SIGINT or SIGBREAK: stop_webui_worker ends the worker before it sets the flag.
Signal ==
    /\ sup # "ended" /\ ~handler /\ ~should_exit
    /\ handler' = TRUE
    /\ closing' = alive
    /\ asked' = IF asked = "plain" \/ ~UnderWay THEN "plain" ELSE "late"
    /\ UNCHANGED <<source, code, alive, supported, update, timers, event, sup, should_exit>>

SignalDone ==
    /\ handler
    /\ WorkerEnds
    /\ handler' = FALSE /\ should_exit' = TRUE
    /\ UNCHANGED <<source, code, closing, supported, state, half, event, sup, asked>>

Supervisor == Turn \/ Kill \/ Reset \/ Start \/ Leave \/ Signal \/ SignalDone

Next == Others \/ Requests \/ Fire \/ Exit \/ Supervisor

Spec == Init /\ [][Next]_vars

-----------------------------------------------------------------------------
TypeOK ==
    /\ {remote, tracking, head, code} \subseteq 0..Pushes
    /\ {mine, dirty, alive, closing, supported, event, should_exit, handler, half} \subseteq BOOLEAN
    /\ state \in Updatable \cup {"checking", "updating", "restarting"}
    /\ at \in {"none", "check", "compare", "status", "fetch", "weigh", "pull", "pulled"}
    /\ timers \in 0..Timers
    /\ sup \in {"testing", "waiting", "killing", "resetting", "starting", "leaving", "ended"}
    /\ asked \in {"no", "plain", "late"}

\* A backend is restarted for new code only: whenever a restart is timed or signalled,
\* the checkout has commits the running worker has not.
RestartIsEarned == alive /\ (timers > 0 \/ event) => code < head

\* The updater forgets no code it has pulled: as long as the worker runs older code than
\* it has checked out, a restart is on its way, unless git failed after HEAD had moved
\* (the next run then finds nothing to pull) or there is nobody to restart the backend.
UpdateIsNotForgotten ==
    alive /\ supported /\ code < head =>
        timers > 0 \/ event \/ at = "pulled" \/ half
            \/ sup \notin {"testing", "waiting"}

\* A stop ends the backend if no restart was under way when it came: the supervisor
\* does not go round for another worker.
StopIsKept == asked = "plain" => sup \notin {"killing", "resetting"}

\* No worker is left behind by a supervisor that has ended, and none is started while
\* another one runs.
OneWorker == sup \in {"ended", "resetting", "starting"} => ~alive

\* The four as one statement.
UpdateIsSound == TypeOK /\ RestartIsEarned /\ UpdateIsNotForgotten /\ StopIsKept /\ OneWorker
=============================================================================
