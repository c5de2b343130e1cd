---------------------------- MODULE ElectronShell ----------------------------
(* The desktop shell, frontend/electron/main.js: a window on a loading page, *)
(* a backend started 250 ms later, polls of its address until it answers     *)
(* with the app's page, and the ways to quit.  All of it runs in one event   *)
(* loop, between whose turns the backend starts, answers, hangs and ends.    *)
(* The tray, the boss key and the log of the loading page are left out.      *)
EXTENDS Naturals

CONSTANTS Tries,    \* a poll is repeated this often (90 in the code)
          Chains    \* bound on the polls under way at once

VARIABLES
    timer,        \* the 250 ms timer that starts the backend is pending
    backend,      \* "none", "importing", "serving", "hung" or "ended"
    told,         \* the backend has been sent SIGTERM
    pyPid,        \* the shell knows its pid
    serverReady,  \* it has reported its startup
    later,        \* the 8 s timer that polls anyway: "off", "set" or "done"
    polls,        \* how many polls have been repeated n times and will be again
    gaveUp,       \* a poll has been repeated too often
    window,       \* "loading", "app", or "closed"
    isQuitting,   \* app.isQuitting
    quit,         \* quitApp: "no", "killing", "finishing", "leaving"
    early         \* the quit came before the backend was started

vars == <<timer, backend, told, pyPid, serverReady, later, polls, gaveUp, window, isQuitting, quit,
          early>>

quitStarted == quit # "no"

Total == LET sum[n \in 0..Tries] == polls[n] + IF n = 0 THEN 0 ELSE sum[n - 1] IN sum[Tries]

Init ==
    /\ timer = TRUE /\ backend = "none" /\ told = FALSE /\ pyPid = FALSE
    /\ serverReady = FALSE /\ later = "off" /\ gaveUp = FALSE
    /\ polls = [n \in 0..Tries |-> 0]
    /\ window = "loading" /\ isQuitting = FALSE /\ quit = "no" /\ early = FALSE

-----------------------------------------------------------------------------
(* The start of the backend.                                                *)

\* The timer's callback does not look whether the app is about to quit.  Without the
\* entry or the venv nothing is started and nothing follows.
startPython ==
    /\ timer /\ window # "closed"
    /\ timer' = FALSE
    /\ \/ backend' = "importing" \/ UNCHANGED backend
    /\ UNCHANGED <<told, pyPid, serverReady, later, polls, gaveUp, window, isQuitting, quit, early>>

Spawned ==
    /\ backend # "none" /\ later = "off" /\ window # "closed"
    /\ pyPid' = TRUE /\ later' = "set"
    /\ UNCHANGED <<timer, backend, told, serverReady, polls, gaveUp, window, isQuitting, quit,
                   early>>

Poll(n) ==
    /\ Total < Chains
    /\ polls' = [polls EXCEPT ![n] = @ + 1]

\* Eight seconds after the start, unless the backend has reported.
Later ==
    /\ later = "set" /\ window # "closed"
    /\ later' = "done"
    /\ IF serverReady THEN UNCHANGED polls ELSE Poll(0)
    /\ UNCHANGED <<timer, backend, told, pyPid, serverReady, gaveUp, window, isQuitting, quit,
                   early>>

maybeNotifyServerReady ==
    /\ backend = "serving" /\ ~serverReady /\ window # "closed"
    /\ serverReady' = TRUE
    /\ Poll(0)
    /\ UNCHANGED <<timer, backend, told, pyPid, later, gaveUp, window, isQuitting, quit, early>>

\* Mutant: a poll that fails is not repeated.
PollOnce(n, twice) ==
    /\ polls' = [polls EXCEPT ![n] = @ - 1]
    /\ UNCHANGED gaveUp

\* The poll that was repeated n times is repeated once more; one that met its timeout
\* destroys the request, which reports an error too, and both handlers repeat it.
Repeat(n, twice) ==
    LET more == IF twice THEN 2 ELSE 1
    IN  /\ IF n < Tries
           THEN /\ Total + more - 1 <= Chains
                /\ polls' = [polls EXCEPT ![n] = @ - 1, ![n + 1] = @ + more]
                /\ UNCHANGED gaveUp
           ELSE /\ polls' = [polls EXCEPT ![n] = @ - 1]
                /\ gaveUp' = TRUE

\* A poll loads the app, whatever the window shows by then.
pollServer(n) ==
    /\ polls[n] > 0 /\ window # "closed"
    /\ \/ /\ backend = "serving"
          /\ window' = "app"
          /\ polls' = [polls EXCEPT ![n] = @ - 1]
          /\ UNCHANGED gaveUp
       \/ backend # "hung" /\ Repeat(n, FALSE) /\ UNCHANGED window
       \/ backend = "hung" /\ Repeat(n, TRUE) /\ UNCHANGED window
    /\ UNCHANGED <<timer, backend, told, pyPid, serverReady, later, isQuitting, quit, early>>

\* The backend's own life.
Backend ==
    /\ \/ backend = "importing" /\ backend' = "serving"
       \/ backend = "serving" /\ backend' = "hung"
       \/ backend = "hung" /\ backend' = "serving"
       \/ backend \in {"importing", "serving", "hung"} /\ backend' = "ended"
    /\ UNCHANGED <<timer, told, pyPid, serverReady, later, polls, gaveUp, window, isQuitting, quit,
                   early>>

-----------------------------------------------------------------------------
(* The quit: the button, the tray and the window's close call quitApp.      *)

quitApp ==
    /\ ~quitStarted /\ window # "closed"
    /\ isQuitting' = TRUE
    /\ early' = timer
    /\ IF pyPid
       THEN quit' = "killing" /\ UNCHANGED told
       ELSE quit' = "finishing" /\ told' = (backend # "none")
    /\ UNCHANGED <<timer, backend, pyPid, serverReady, later, polls, gaveUp, window>>

\* treeKill calls back whether or not it found the process.
Killed ==
    /\ quit = "killing" /\ window # "closed"
    /\ told' = TRUE /\ quit' = "finishing"
    /\ UNCHANGED <<timer, backend, pyPid, serverReady, later, polls, gaveUp, window, isQuitting,
                   early>>

finishQuit ==
    /\ quit = "finishing" /\ window # "closed"
    /\ pyPid' = FALSE /\ quit' = "leaving"
    /\ UNCHANGED <<timer, backend, told, serverReady, later, polls, gaveUp, window, isQuitting,
                   early>>

\* 300 ms after finishQuit; the page may hold up a quit no longer.
AppQuit ==
    /\ quit = "leaving" /\ window # "closed"
    /\ window' = "closed"
    /\ UNCHANGED <<timer, backend, told, pyPid, serverReady, later, polls, gaveUp, isQuitting, quit,
                   early>>

\* The menu's Quit role and the end of the user's session: before-quit sets isQuitting,
\* and the window's close does not call quitApp any more.
SystemQuit ==
    /\ window # "closed"
    /\ isQuitting' = TRUE /\ window' = "closed"
    /\ UNCHANGED <<timer, backend, told, pyPid, serverReady, later, polls, gaveUp, quit, early>>

Next ==
    \/ startPython \/ Spawned \/ Later \/ maybeNotifyServerReady \/ Backend
    \/ \E n \in 0..Tries : pollServer(n)
    \/ quitApp \/ Killed \/ finishQuit \/ AppQuit \/ SystemQuit

Spec == Init /\ [][Next]_vars

-----------------------------------------------------------------------------
\* A user who quits the app leaves no backend behind that was not told to end, unless
\* the quit came before the backend's own start.
QuitLeavesNothing ==
    quit = "leaving" /\ ~early => told \/ backend \in {"none", "ended"}

\* The window is not left on the loading page in front of a backend that runs: a poll
\* is under way or still to come, or it has been repeated too often.
WindowIsServed ==
    window = "loading" /\ later # "off" /\ backend \notin {"none", "ended"} =>
        later = "set" \/ (\E n \in 0..Tries : polls[n] > 0) \/ gaveUp

\* Both, as one statement.
ShellIsSound == QuitLeavesNothing /\ WindowIsServed
=============================================================================
