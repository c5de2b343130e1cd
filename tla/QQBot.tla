------------------------------- MODULE QQBot -------------------------------
(***************************************************************************)
(* The robot that sends the QQ messages, its installation and the scripts  *)
(* that start and stop it (backend/core/qq_bot.py; onebot.py;              *)
(* scripts/qq-notify/setup.py, start.py; the status that the page asks     *)
(* for, routes/notifications.py), and the same on a computer of its own    *)
(* (scripts/qq-robot-standalone/robot.ps1).                                *)
(*                                                                         *)
(* A script is a process of its own: several run at a time, a window may   *)
(* be closed in the middle of one, the robot may crash, the computer may   *)
(* be restarted, and a pid is used again once nobody holds it.  What binds *)
(* them is the directory of the installation: its settings, the record of  *)
(* the robot's pid, the lock of the console; and who listens on its ports. *)
(***************************************************************************)
EXTENDS Naturals, FiniteSets

CONSTANTS
    Tools,          \* the scripts that may be at work
    Pids,           \* bound: pids, used again
    HttpPorts,      \* bound: ports near the preferred one of the messages
    WebPorts,       \* the same of the panel
    MaxScripts,     \* bound: scripts that are begun
    MaxStrangers,   \* bound: programs of others that come
    MaxFaults,      \* bound: crashes, closed windows, restarts, failing commands
    Hands,          \* the scripts of the standalone robot
    Addresses       \* the computers it may be set up for

VARIABLES
    place,      \* the installation: Missing, or its ports and whose it is
    settings,   \* its settings file: "new", with an "account", "torn"
    pidFile,    \* the record, or None
    runLock,    \* who holds .run.lock
    chosen,     \* what a script is about to install
    process,    \* what runs under a pid
    starting,   \* robots that have not got to their ports
    listener,   \* who listens on a port, or None
    logged,     \* robots whose account is logged in
    noted,      \* the connection is in AutoScriptor's config.json
    op, pc, pid,    \* of a script: what it does, its place in it, the pid it has read or made
    scripts, strangers, faults,     \* how many there have been
    first,      \* history: the installation that was published first
    served,     \* history, per script: the robots that have listened since it began to look
    used,       \* history: the pids whose process has ended
    disturbed,  \* history: scripts have overlapped, been cut short, or failed to kill
    cut,        \* history: a script was ended while it wrote the settings
    wronged, missed,    \* history: a stop has ended a stranger; has missed a robot
    \* the standalone robot
    hand,       \* where each of its scripts is
    lock,       \* who holds .operation.lock
    runtime,    \* the script computer it is installed for, or NoAddress
    rule,       \* whom the firewall's rule admits, or NoAddress
    staged,     \* the directories of unfinished installations
    robots,     \* how many robots run
    harm,       \* faults of this part
    unfenced    \* history: a robot has started without its rule

toolVars == <<op, pc, pid>>
diskVars == <<place, settings, pidFile, noted, first>>
worldVars == <<process, starting, listener, logged, used>>

robotVars == <<hand, lock, runtime, rule, staged, robots, harm, unfenced>>
localVars == <<diskVars, worldVars, toolVars, runLock, chosen, scripts, strangers, faults, served,
               disturbed, cut, wronged, missed>>
vars == <<localVars, robotVars>>

None == 0
NoAddress == "none"
Nobody == "nobody"
Lowest(near) == CHOOSE n \in near : \A k \in near : n <= k
Missing == [http |-> None, web |-> None, by |-> Nobody]
Ports == HttpPorts \cup WebPorts

Init ==
    /\ place \in {Missing, [http |-> Lowest(HttpPorts), web |-> Lowest(WebPorts), by |-> Nobody]}
    /\ settings = "new" /\ pidFile = None
    /\ runLock = Nobody /\ chosen = [t \in Tools |-> Missing]
    /\ process = [p \in Pids |-> "none"] /\ starting = {}
    /\ listener = [n \in Ports |-> None] /\ logged = {} /\ noted = FALSE
    /\ op = [t \in Tools |-> "none"] /\ pc = [t \in Tools |-> "idle"]
    /\ pid = [t \in Tools |-> None]
    /\ scripts = 0 /\ strangers = 0 /\ faults = 0
    /\ first = place /\ served = [t \in Tools |-> {}] /\ used = {}
    /\ disturbed = FALSE /\ cut = FALSE /\ wronged = FALSE /\ missed = FALSE
    /\ hand = [h \in Hands |-> "idle"] /\ lock = Nobody /\ runtime = NoAddress
    /\ rule = NoAddress /\ staged = {} /\ robots = 0 /\ harm = 0
    /\ unfenced = FALSE

-----------------------------------------------------------------------------
(* What a script sees.                                                     *)

Installed == place # Missing
Loads == Installed /\ settings # "torn"

FreePorts(near) == {n \in near : listener[n] = None}

\* Both of the installation's ports can be bound.
PortsAreFree == listener[place.http] = None /\ listener[place.web] = None

Robots == {p \in Pids : process[p] = "bot"}
Serving == {p \in Robots : listener[place.http] = p}

\* probe_login: somebody answers with the account that is logged in.
LoggedIn == Serving \cap logged # {}

\* A script that keeps a handle keeps the pid.
Held == {pid[t] : t \in {u \in Tools : pc[u] \in {"record", "wait"}}}
FreePids == {p \in Pids : process[p] = "none"} \ Held

\* A console that only waits for its robot does not disturb the others.
Working(t) == pc[t] # "idle" /\ ~(pc[t] = "wait" /\ process[pid[t]] = "bot")
Overlaps(t) == disturbed' = (disturbed \/ \E u \in Tools \ {t} : Working(u))

\* A script begins.
Starts(t) ==
    /\ pc[t] = "idle" /\ scripts < MaxScripts
    /\ scripts' = scripts + 1

Go(t, label) == pc' = [pc EXCEPT ![t] = label]

\* A step with the pid that is read or made; a script that is over has nothing left.
StepsWith(t, label, p) ==
    /\ Go(t, label)
    /\ IF label = "idle"
       THEN /\ op' = [op EXCEPT ![t] = "none"] /\ pid' = [pid EXCEPT ![t] = None]
            /\ served' = [served EXCEPT ![t] = {}]
       ELSE pid' = [pid EXCEPT ![t] = p] /\ UNCHANGED <<op, served>>
    /\ UNCHANGED <<scripts, strangers, faults, cut>>

Steps(t, label) == StepsWith(t, label, pid[t])

\* The process of a pid is no more, with its ports.
Gone(ps) ==
    /\ process' = [p \in Pids |-> IF p \in ps THEN "none" ELSE process[p]]
    /\ starting' = starting \ ps /\ logged' = logged \ ps
    /\ listener' = [n \in Ports |-> IF listener[n] \in ps THEN None ELSE listener[n]]
    /\ used' = used \cup {p \in ps : process[p] # "none"}

\* Scripts that are ended.
Over(ts) ==
    /\ pc' = [t \in Tools |-> IF t \in ts THEN "idle" ELSE pc[t]]
    /\ op' = [t \in Tools |-> IF t \in ts THEN "none" ELSE op[t]]
    /\ pid' = [t \in Tools |-> IF t \in ts THEN None ELSE pid[t]]

\* What has served all the while.
StillServed(ps) == served' = [t \in Tools |-> served[t] \ ps]

-----------------------------------------------------------------------------
(* Installation.                                                           *)

\* install_bot, and setup.py where nothing is installed.  What is installed is kept; settings
\* that cannot be read are refused.
Install(t) ==
    /\ Starts(t) /\ ~Installed
    /\ \E what \in {"install", "setup"} : op' = [op EXCEPT ![t] = what]
    /\ Go(t, "stage") /\ Overlaps(t)
    /\ UNCHANGED <<diskVars, worldVars, runLock, chosen, pid, strangers, faults, served, cut,
                   wronged, missed>>

\* choose_port, for both.
Chosen(t) == [http |-> Lowest(FreePorts(HttpPorts)), web |-> Lowest(FreePorts(WebPorts)), by |-> t]

\* The archive is downloaded, verified, unpacked, its program tried and configured, each of which
\* may fail and leaves nothing then.
Stage(t) ==
    /\ pc[t] = "stage"
    /\ \/ /\ FreePorts(HttpPorts) # {} /\ FreePorts(WebPorts) # {}
          /\ chosen' = [chosen EXCEPT ![t] = Chosen(t)] /\ Steps(t, "publish")
       \/ UNCHANGED chosen /\ Steps(t, "idle")
    /\ UNCHANGED <<diskVars, worldVars, runLock, disturbed, wronged, missed>>

Published(t) ==
    /\ place' = chosen[t] /\ settings' = "new"
    /\ first' = IF first = Missing THEN place' ELSE first
    /\ Steps(t, IF op[t] = "setup" THEN "login" ELSE "idle")

\* Mutant: the runtime is moved over the one that is there.
PublishOver(t) ==
    /\ pc[t] = "publish" /\ Published(t)
    /\ UNCHANGED <<worldVars, pidFile, noted, runLock, chosen, disturbed, wronged, missed>>

\* publish_runtime renames the staged directory; a scanner may hold it for all five attempts.
\* A setup goes on with the login.
Publish(t) ==
    /\ pc[t] = "publish"
    /\ \/ ~Installed /\ Published(t)
       \/ UNCHANGED <<place, settings, first>> /\ Steps(t, "idle")
    /\ UNCHANGED <<worldVars, pidFile, noted, runLock, chosen, disturbed, wronged, missed>>

-----------------------------------------------------------------------------
(* Starting.                                                               *)

\* start_bot, to its probe of the ports: one console at a time.  It does not ask for the record,
\* and will overwrite that of a robot that is not on its ports.
Console(t) ==
    /\ Starts(t) /\ Loads /\ runLock = Nobody /\ PortsAreFree
    /\ op' = [op EXCEPT ![t] = "console"] /\ runLock' = t
    /\ Go(t, "spawn")
    /\ disturbed' = (disturbed \/ Robots # {} \/ \E u \in Tools \ {t} : Working(u))
    /\ UNCHANGED <<chosen, diskVars, worldVars, pid, strangers, faults, served, cut, wronged,
                   missed>>

\* start.py, and setup.py where it is installed.
Begin(t) ==
    /\ Starts(t) /\ Loads
    /\ \E what \in {"start", "setup"} : op' = [op EXCEPT ![t] = what]
    /\ Go(t, "login") /\ Overlaps(t)
    /\ UNCHANGED <<diskVars, worldVars, runLock, chosen, pid, strangers, faults, served, cut,
                   wronged, missed>>

\* A robot that is logged in is used; else one is launched.  It is asked twice, and if it is
\* gone by the second answer, or the settings cannot be read, the script ends with an error.
Login(t) ==
    /\ pc[t] = "login"
    /\ IF LoggedIn
       THEN Steps(t, IF op[t] = "setup" THEN "remember" ELSE "idle")
       ELSE (Loads /\ Steps(t, "read")) \/ Steps(t, "idle")
    /\ UNCHANGED <<diskVars, worldVars, runLock, chosen, disturbed, wronged, missed>>

\* launch_bot binds the ports to see that they are free.
Probe(t) ==
    /\ pc[t] = "probe"
    /\ Steps(t, IF PortsAreFree THEN "spawn" ELSE "idle")
    /\ UNCHANGED <<diskVars, worldVars, runLock, chosen, disturbed, wronged, missed>>

\* Popen, of launch_bot and start_bot.
Spawn(t) ==
    /\ pc[t] = "spawn"
    /\ \E p \in FreePids :
          /\ process' = [process EXCEPT ![p] = "bot"] /\ starting' = starting \cup {p}
          /\ StepsWith(t, "record", p)
    /\ UNCHANGED <<diskVars, listener, logged, used, runLock, chosen, disturbed, wronged, missed>>

\* The pid is written; a console waits for its child, the others for the login.
Record(t) ==
    /\ pc[t] = "record"
    /\ pidFile' = pid[t]
    /\ Steps(t, IF op[t] = "console" THEN "wait" ELSE "poll") /\ Overlaps(t)
    /\ UNCHANGED <<worldVars, place, settings, noted, first, runLock, chosen, wronged, missed>>

\* The console's robot has ended; the record is removed, whosever it is, and the lock given back.
ChildEnds(t) ==
    /\ pc[t] = "wait" /\ process[pid[t]] = "none"
    /\ Steps(t, "forget") /\ Overlaps(t)
    /\ UNCHANGED <<diskVars, worldVars, runLock, chosen, wronged, missed>>

\* wait_for_login: the robot logs in in time, or it does not; it stays either way.
Poll(t) ==
    /\ pc[t] = "poll"
    /\ \/ LoggedIn /\ Steps(t, IF op[t] = "setup" THEN "remember" ELSE "idle")
       \/ Steps(t, "idle")
    /\ UNCHANGED <<diskVars, worldVars, runLock, chosen, disturbed, wronged, missed>>

\* remember_account reads the settings and begins to write them ...
Remember(t) ==
    /\ pc[t] = "remember"
    /\ IF Loads THEN settings' = "torn" /\ Steps(t, "write")
       ELSE UNCHANGED settings /\ Steps(t, "idle")
    /\ UNCHANGED <<worldVars, place, pidFile, noted, first, runLock, chosen, disturbed, wronged,
                   missed>>

\* ... and has written them.
Write(t) ==
    /\ pc[t] = "write"
    /\ settings' = "account" /\ Steps(t, "recipients")
    /\ UNCHANGED <<worldVars, place, pidFile, noted, first, runLock, chosen, disturbed, wronged,
                   missed>>

\* list_recipients: a robot without any, or one that does not answer, ends the setup.
Recipients(t) ==
    /\ pc[t] = "recipients"
    /\ (LoggedIn /\ Steps(t, "notify")) \/ Steps(t, "idle")
    /\ UNCHANGED <<diskVars, worldVars, runLock, chosen, disturbed, wronged, missed>>

\* write_notify_settings replaces config.json.
WriteNotify(t) ==
    /\ pc[t] = "notify"
    /\ noted' = TRUE /\ Steps(t, "deliver")
    /\ UNCHANGED <<worldVars, place, settings, pidFile, first, runLock, chosen, disturbed, wronged,
                   missed>>

\* The test message, by deliver: the setup ends well or not.
Deliver(t) ==
    /\ pc[t] = "deliver"
    /\ Steps(t, "idle")
    /\ UNCHANGED <<diskVars, worldVars, runLock, chosen, disturbed, wronged, missed>>

-----------------------------------------------------------------------------
(* Looking and stopping.                                                   *)

\* stop_bot; local_installation_status, which needs the settings.
Ask(t) ==
    /\ Starts(t)
    /\ \E what \in {"stop", "status"} :
          /\ what = "status" => Loads
          /\ op' = [op EXCEPT ![t] = what]
    /\ Go(t, "read") /\ Overlaps(t)
    /\ served' = [served EXCEPT ![t] = IF Installed THEN Serving ELSE {}]
    /\ UNCHANGED <<diskVars, worldVars, runLock, chosen, pid, strangers, faults, cut, wronged,
                   missed>>

\* The script ends with "not running".
NotRunning(t) == Steps(t, "idle") /\ missed' = (missed \/ served[t] # {})

\* Mutant: the record is all there is to go by.
RecordOnly(t) == IF op[t] \in {"start", "setup"} THEN Steps(t, "probe") /\ UNCHANGED missed
                 ELSE NotRunning(t)

\* running_bot_pid has found nothing.
Unrecorded(t) ==
    IF op[t] \in {"start", "setup"} THEN Steps(t, "probe") /\ UNCHANGED missed
    ELSE Steps(t, "listener") /\ UNCHANGED missed

\* running_bot_pid: any process with the recorded pid will do; a launch is refused then.
Read(t) ==
    /\ pc[t] = "read"
    /\ \/ pidFile = None /\ Unrecorded(t)
       \/ pidFile # None /\ process[pidFile] = "none" /\ Steps(t, "stale") /\ UNCHANGED missed
       \/ /\ pidFile # None /\ process[pidFile] # "none"
          /\ StepsWith(t, IF op[t] = "stop" THEN "kill" ELSE "idle", pidFile) /\ UNCHANGED missed
    /\ UNCHANGED <<diskVars, worldVars, runLock, chosen, disturbed, wronged>>

\* The record of a process that is no more is removed.
Stale(t) ==
    /\ pc[t] = "stale"
    /\ pidFile' = None /\ Unrecorded(t)
    /\ UNCHANGED <<worldVars, place, settings, noted, first, runLock, chosen, disturbed, wronged>>

\* listening_bot_pid: netstat may fail; settings that cannot be read end the script.
Listener(t) ==
    /\ pc[t] = "listener"
    /\ \/ /\ ~Installed \/ (Loads /\ listener[place.http] = None)
          /\ NotRunning(t)
       \/ /\ Loads /\ listener[place.http] # None
          /\ StepsWith(t, "node", listener[place.http]) /\ UNCHANGED missed
       \/ /\ Installed /\ ~Loads
          /\ Steps(t, "idle") /\ UNCHANGED missed
    /\ UNCHANGED <<diskVars, worldVars, runLock, chosen, disturbed, wronged>>

NetstatFails(t) ==
    /\ pc[t] = "listener" /\ faults < MaxFaults
    /\ faults' = faults + 1 /\ Over({t}) /\ served' = [served EXCEPT ![t] = {}]
    /\ UNCHANGED <<diskVars, worldVars, runLock, chosen, scripts, strangers, disturbed, cut,
                   wronged, missed>>

\* Mutant: whoever holds the port is the robot.
Anybody(p) == process[p] # "none"

\* _is_our_node_process: the name of the program.
IsNode(p) == process[p] \in {"bot", "node"}

Node(t) ==
    /\ pc[t] = "node"
    /\ IF IsNode(pid[t])
       THEN Steps(t, IF op[t] = "stop" THEN "kill" ELSE "idle") /\ UNCHANGED missed
       ELSE NotRunning(t)
    /\ UNCHANGED <<diskVars, worldVars, runLock, chosen, disturbed, wronged>>

\* taskkill.  It may fail, and nobody asks.
Kill(t) ==
    /\ pc[t] = "kill"
    /\ Gone({pid[t]}) /\ StillServed({pid[t]})
    /\ wronged' = (wronged \/ (process[pid[t]] = "other" /\ pid[t] \notin used))
    /\ Go(t, "forget")
    /\ UNCHANGED <<diskVars, runLock, chosen, op, pid, scripts, strangers, faults, disturbed, cut,
                   missed>>

KillFails(t) ==
    /\ pc[t] = "kill" /\ faults < MaxFaults
    /\ faults' = faults + 1 /\ disturbed' = TRUE /\ Go(t, "forget")
    /\ UNCHANGED <<diskVars, worldVars, runLock, chosen, op, pid, scripts, strangers, served, cut,
                   wronged, missed>>

\* The record is removed, by the stop or by the console.
Forget(t) ==
    /\ pc[t] = "forget"
    /\ pidFile' = None
    /\ runLock' = IF runLock = t THEN Nobody ELSE runLock
    /\ Steps(t, "idle")
    /\ UNCHANGED <<chosen, worldVars, place, settings, noted, first, disturbed, wronged, missed>>

-----------------------------------------------------------------------------
(* The robots, the strangers and the faults.                               *)

\* A robot takes the ports it can get, or ends if it cannot get both.
Bind(p) ==
    /\ p \in starting
    /\ \/ /\ starting' = starting \ {p}
          /\ listener' = [n \in Ports |-> IF n \in {place.http, place.web} /\ listener[n] = None
                                         THEN p ELSE listener[n]]
          /\ UNCHANGED <<process, logged, used, served>>
       \/ ~PortsAreFree /\ Gone({p}) /\ StillServed({p})
    /\ UNCHANGED <<diskVars, toolVars, runLock, chosen, scripts, strangers, faults, disturbed, cut,
                   wronged, missed>>

LogsIn(p) ==
    /\ p \in Serving \ logged
    /\ logged' = logged \cup {p}
    /\ UNCHANGED <<process, starting, listener, used, place, settings, pidFile, noted, first,
                   toolVars, runLock, chosen, scripts, strangers, faults, served, disturbed, cut,
                   wronged, missed>>

\* Somebody's program, with a port or without.
Comes ==
    /\ strangers < MaxStrangers
    /\ strangers' = strangers + 1
    /\ \E p \in FreePids, kind \in {"node", "other"}, n \in FreePorts(HttpPorts) \cup {None} :
          /\ process' = [process EXCEPT ![p] = kind]
          /\ listener' = [k \in Ports |-> IF k = n THEN p ELSE listener[k]]
    /\ UNCHANGED <<starting, logged, used, diskVars, toolVars, runLock, chosen, scripts, faults,
                   served, disturbed, cut, wronged, missed>>

Ends(p) ==
    /\ faults < MaxFaults /\ process[p] # "none"
    /\ faults' = faults + 1 /\ Gone({p}) /\ StillServed({p})
    /\ UNCHANGED <<diskVars, toolVars, runLock, chosen, scripts, strangers, disturbed, cut,
                   wronged, missed>>

\* The window of a script is closed, and with a console's its robot ends.
Closed(t) ==
    /\ faults < MaxFaults /\ pc[t] # "idle"
    /\ faults' = faults + 1 /\ Over({t})
    /\ runLock' = IF runLock = t THEN Nobody ELSE runLock
    /\ LET child == IF op[t] = "console" /\ pc[t] \in {"record", "wait"} THEN {pid[t]} ELSE {}
       IN Gone(child) /\ StillServed(child)
    /\ disturbed' = TRUE /\ cut' = (cut \/ pc[t] = "write")
    /\ UNCHANGED <<chosen, diskVars, scripts, strangers, wronged, missed>>

\* The computer is started again.
Reboot ==
    /\ faults < MaxFaults
    /\ faults' = faults + 1
    /\ Gone(Pids) /\ StillServed(Pids)
    /\ Over(Tools) /\ runLock' = Nobody
    /\ cut' = (cut \/ \E t \in Tools : pc[t] = "write")
    /\ UNCHANGED <<chosen, diskVars, scripts, strangers, disturbed, wronged, missed>>

LocalNext ==
    \/ \E t \in Tools :
          \/ Install(t) \/ Stage(t) \/ Publish(t) \/ Console(t) \/ Begin(t) \/ Login(t) \/ Probe(t)
          \/ Spawn(t) \/ Record(t) \/ ChildEnds(t) \/ Poll(t) \/ Remember(t) \/ Write(t)
          \/ Recipients(t) \/ WriteNotify(t) \/ Deliver(t)
          \/ Ask(t) \/ Read(t) \/ Stale(t) \/ Listener(t) \/ NetstatFails(t) \/ Node(t) \/ Kill(t)
          \/ KillFails(t) \/ Forget(t) \/ Closed(t)
    \/ \E p \in Pids : Bind(p) \/ LogsIn(p) \/ Ends(p)
    \/ Comes \/ Reboot

-----------------------------------------------------------------------------
(* The standalone robot.                                                   *)

\* Mutant: a script does not care for the lock.
BeginsUnlocked(h) == hand[h] = "idle" /\ lock' = h

\* A script holds .operation.lock from its beginning to its end; a second one is refused.
Begins(h) == hand[h] = "idle" /\ lock = Nobody /\ lock' = h

Onward(h, label) == hand' = [hand EXCEPT ![h] = label]

Finishes(h) == Onward(h, "idle") /\ lock' = Nobody

\* Assert-LocalAddress: nobody listens on the robot's ports.
AddressesAreFree == robots = 0

\* Read-Settings: the runtime and its settings are there.
RobotInstalled == runtime # NoAddress

\* Install-Robot for a script computer: an installation is kept, and refused for another; a
\* new one is staged.
InstallRobot(h, a) ==
    /\ Begins(h)
    /\ IF RobotInstalled
       THEN runtime = a /\ Onward(h, "unrule") /\ UNCHANGED staged
       ELSE AddressesAreFree /\ Onward(h, "stage") /\ staged' = staged \cup {h}
    /\ UNCHANGED <<runtime, rule, robots, harm, unfenced>>

\* The archive is downloaded, verified, unpacked, tried and configured.
StageRobot(h) ==
    /\ hand[h] = "stage"
    /\ \/ Onward(h, "move") /\ UNCHANGED <<lock, staged>>
       \/ Finishes(h) /\ staged' = staged \ {h}
    /\ UNCHANGED <<runtime, rule, robots, harm, unfenced>>

\* The staged runtime is moved to its place, or all five attempts fail; what is left of it is
\* removed.
Move(h, a) ==
    /\ hand[h] = "move"
    /\ staged' = staged \ {h}
    /\ \/ ~RobotInstalled /\ runtime' = a /\ Onward(h, "unrule") /\ UNCHANGED lock
       \/ UNCHANGED runtime /\ Finishes(h)
    /\ UNCHANGED <<rule, robots, harm, unfenced>>

\* Set-RobotFirewall removes the rule of this name ...
Unrule(h) ==
    /\ hand[h] = "unrule"
    /\ rule' = NoAddress /\ Onward(h, "rule")
    /\ UNCHANGED <<lock, runtime, staged, robots, harm, unfenced>>

\* ... and makes it anew; ...
Rule(h) ==
    /\ hand[h] = "rule"
    /\ rule' = runtime /\ Onward(h, "check")
    /\ UNCHANGED <<lock, runtime, staged, robots, harm, unfenced>>

\* Assert-RobotFirewall: the rule admits the script computer and nobody else.
RuleAdmits == rule = runtime

\* ... it is checked, and the connection shown.
Check(h) ==
    /\ hand[h] = "check"
    /\ Finishes(h)
    /\ UNCHANGED <<runtime, rule, staged, robots, harm, unfenced>>

\* Mutant: the rule is not checked.
StartUnchecked(h) ==
    /\ Begins(h) /\ RobotInstalled /\ AddressesAreFree
    /\ Onward(h, "start")
    /\ UNCHANGED <<runtime, rule, staged, robots, harm, unfenced>>

\* Start-Robot: the runtime is there, the rule admits its script computer and nobody else, the
\* ports are free ...
StartRobot(h) ==
    /\ Begins(h) /\ RobotInstalled /\ RuleAdmits /\ AddressesAreFree
    /\ Onward(h, "start")
    /\ UNCHANGED <<runtime, rule, staged, robots, harm, unfenced>>

\* ... and node.exe runs in the window, until it ends.
RobotRuns(h) ==
    /\ hand[h] = "start"
    /\ robots' = robots + 1 /\ Onward(h, "window")
    /\ unfenced' = (unfenced \/ ~RuleAdmits)
    /\ UNCHANGED <<lock, runtime, rule, staged, harm>>

RobotEnds(h) ==
    /\ hand[h] = "window" /\ robots > 0
    /\ robots' = robots - 1 /\ Finishes(h)
    /\ UNCHANGED <<runtime, rule, staged, harm, unfenced>>

\* A script is ended; its robot with it, or not; what it has staged stays.
Cut(h) ==
    /\ harm < MaxFaults /\ hand[h] # "idle"
    /\ harm' = harm + 1 /\ Finishes(h)
    /\ robots' \in IF hand[h] = "window" THEN {robots, robots - 1} ELSE {robots}
    /\ UNCHANGED <<runtime, rule, staged, unfenced>>

\* Somebody takes the rule away while no script has checked it.
RuleIsLost ==
    /\ harm < MaxFaults /\ rule # NoAddress /\ \A h \in Hands : hand[h] # "start"
    /\ harm' = harm + 1 /\ rule' = NoAddress
    /\ UNCHANGED <<hand, lock, runtime, staged, robots, unfenced>>

RobotNext ==
    \/ \E h \in Hands :
          \/ StageRobot(h) \/ Unrule(h) \/ Rule(h) \/ Check(h) \/ StartRobot(h) \/ RobotRuns(h)
          \/ RobotEnds(h) \/ Cut(h)
          \/ \E a \in Addresses : InstallRobot(h, a) \/ Move(h, a)
    \/ RuleIsLost

Next ==
    \/ LocalNext /\ UNCHANGED robotVars
    \/ RobotNext /\ UNCHANGED localVars

Spec == Init /\ [][Next]_vars

-----------------------------------------------------------------------------
(* What the scripts promise.                                               *)

\* Types; who waits for the end of its robot, or cleans up after it, holds the lock.
TypeOK ==
    /\ settings \in {"new", "account", "torn"} /\ pidFile \in Pids \cup {None}
    /\ place = Missing \/ (place.http \in HttpPorts /\ place.web \in WebPorts)
    /\ process \in [Pids -> {"none", "bot", "node", "other"}]
    /\ starting \subseteq Robots /\ logged \subseteq Robots
    /\ \A n \in Ports : listener[n] \in {None} \cup {p \in Pids : process[p] # "none"}
    /\ \A t \in Tools : op[t] = "console" /\ pc[t] \notin {"idle"} => runLock = t
    /\ runtime \in Addresses \cup {NoAddress} /\ staged \subseteq Hands

\* "No existing runtime is replaced": what was installed first stays, with its ports and tokens,
\* however many installations ran at the same time; and what is noted for AutoScriptor is an
\* installation whose account is remembered.
InstalledOnce ==
    /\ place \in {Missing, first}
    /\ noted => Installed /\ settings # "new"

\* A stop ends no program of somebody else's but by way of a pid whose process has ended, and
\* the node programs, which it takes for the robot.
StrangersLive == ~wronged

\* "not running" is the answer only if no robot has served all the while, save that netstat has
\* failed.
StopFindsTheRobot == ~missed

\* While scripts come one after another, are let finish and can kill, whatever crashes or
\* restarts, a robot can be found again: by its record, on its port, or by the script that has
\* just made it.
Found(p) ==
    \/ pidFile = p \/ listener[place.http] = p
    \/ \E t \in Tools : pid[t] = p /\ pc[t] \in {"record", "wait"}
NoRobotIsLost == disturbed \/ \A p \in Robots : Found(p)

\* The settings cannot be read only while somebody writes them, or after a script was ended
\* in its writing.
SettingsAreWhole == settings = "torn" => cut \/ \E t \in Tools : pc[t] = "write"

\* The standalone robot starts behind the rule for the computer it is installed for, however
\* an installation was cut short; and there is never a second one beside it.
RobotIsFenced == ~unfenced /\ robots <= 1

\* The robot's invariant.
BotIsSound ==
    /\ TypeOK /\ InstalledOnce /\ StrangersLive /\ StopFindsTheRobot /\ NoRobotIsLost
    /\ SettingsAreWhole /\ RobotIsFenced
=============================================================================
