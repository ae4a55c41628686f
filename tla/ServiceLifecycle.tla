-------------------------- MODULE ServiceLifecycle --------------------------
(***************************************************************************)
(* The agent daemon as a service of the operating system: the commands     *)
(* `agent service install | start | stop | uninstall`                      *)
(* (agent/portforge_agent/service_ops.py), the definitions they install    *)
(* (service_gen.py), the daemon's exits (runtime/agent.py) and the restart *)
(* it asks for after it has upgraded itself (upgrade/platform_restart.py). *)
(*                                                                         *)
(* A command is a sequence of calls of schtasks, launchctl or systemctl;   *)
(* each call may be refused, and the command may die after any of them     *)
(* (^C, or the TimeoutExpired that nothing catches).  The user runs one    *)
(* command at a time; the daemon, the service manager and the end of the   *)
(* session run beside it.  What the manager does with a definition is      *)
(* external: Task Scheduler starts the task at logon and never restarts    *)
(* it; launchd loads the plist at login; systemd starts an enabled unit    *)
(* with the user manager, at boot if the account lingers.                  *)
(***************************************************************************)
EXTENDS Naturals

CONSTANTS
    OS,         \* the platforms: "windows", "macos", "linux"
    Env,        \* installations (virtual environments) of the agent
    NoDef,      \* no definition
    MaxCrashes  \* bound: crashes of the daemon

ASSUME OSAssumption == OS \subseteq {"windows", "macos", "linux"}
ASSUME EnvAssumption == NoDef \notin Env /\ "removed" \notin Env /\ NoDef # "removed"
ASSUME MaxCrashesAssumption == MaxCrashes \in Nat

VARIABLES
    os,         \* the platform, and whether the agent is enrolled
    configured,
    file,       \* the environment named by the plist or unit file
    job,        \* the environment of the definition the manager has loaded
    enabled,    \* Linux: the unit is linked into default.target
    linger,     \* Linux: the user manager outlives the session
    session,    \* the user is logged in
    proc,       \* the manager's instance of the daemon
    orphan,     \* a daemon runs that no job of the manager stands for
    wheel,      \* the package installed in each environment
    cmd,        \* the command the user is running
    crashes,
    promise,    \* history: what the last install or uninstall reported
    since,      \* history: the user manager has ended since that report
    rest,       \* history: a stop reached the daemon, and nothing undid it
    wanted      \* history: the daemon was started, and nothing ended that

platform == <<os, configured>>
manager == <<job, enabled, linger, session>>
history == <<promise, since, rest, wanted>>
vars == <<os, configured, file, job, enabled, linger, session, proc, orphan,
          wheel, cmd, crashes, promise, since, rest, wanted>>

-----------------------------------------------------------------------------
(* told: the manager itself is ending the process.  again: it will start   *)
(* it anew.  self: where the daemon is in restarting itself.               *)
Process == [st: {"off", "crashed", "starting", "running", "stopping"},
            env: Env \cup {NoDef}, code: {"old", "new"},
            told: BOOLEAN, again: BOOLEAN,
            self: {"no", "restart", "rerun", "handed"}]

Off == [st |-> "off", env |-> NoDef, code |-> "old", told |-> FALSE,
        again |-> FALSE, self |-> "no"]

Up(p) == p.st \in {"starting", "running", "stopping"}

(* The definition runs `agent run` of the environment it was written from, *)
(* and with it the package that is installed there.                        *)
Launched(e) == [st |-> "starting", env |-> e, code |-> wheel[e],
                told |-> FALSE, again |-> FALSE, self |-> "no"]

LaunchedIf(e) == IF e = NoDef THEN Off ELSE Launched(e)

(* The manager ends the job's process.                                     *)
Stopped(p) == IF Up(p)
              THEN [p EXCEPT !.st = "stopping", !.told = TRUE, !.again = FALSE]
              ELSE Off

(* What a new user manager starts by itself.                               *)
AtLogin == CASE os = "windows" -> job
             [] os = "macos"   -> file
             [] os = "linux"   -> IF enabled THEN file ELSE NoDef

(* Mutants of RestartPolicy: KeepAlive = True; SuccessfulExit = True.      *)
KeepAliveAlways(how) == os # "windows"
KeepAliveOnSuccess(how) == how = "clean" /\ os # "windows"

(* KeepAlive.SuccessfulExit = False, Restart=on-failure; the task has no   *)
(* such setting.                                                           *)
RestartPolicy(how) == how = "failure" /\ os # "windows"

(* The instance after its process has exited.                              *)
Ended(how) ==
    IF proc.again THEN LaunchedIf(job)
    ELSE IF RestartPolicy(how) /\ ~proc.told /\ job # NoDef
         THEN [proc EXCEPT !.st = "crashed", !.self = "no"]
         ELSE Off

Idle == [op |-> "none", env |-> NoDef, at |-> "idle", existed |-> FALSE]

Command == [op: {"none", "install", "uninstall", "start", "stop"},
            env: Env \cup {NoDef},
            at: {"idle", "call", "write", "probe", "bootout", "bootstrap",
                 "retry", "reload", "enable", "linger", "release", "unlink",
                 "report"},
            existed: BOOLEAN]

TypeOK ==
    /\ os \in OS /\ configured \in BOOLEAN
    /\ file \in Env \cup {NoDef} /\ job \in Env \cup {NoDef}
    /\ enabled \in BOOLEAN /\ linger \in BOOLEAN /\ session \in BOOLEAN
    /\ proc \in Process /\ (proc.st # "off" => proc.env \in Env)
    /\ orphan \in BOOLEAN /\ wheel \in [Env -> {"old", "new"}]
    /\ cmd \in Command /\ crashes \in 0..MaxCrashes
    /\ promise \in Env \cup {NoDef, "removed"}
    /\ since \in BOOLEAN /\ rest \in BOOLEAN /\ wanted \in BOOLEAN

Init ==
    /\ os \in OS /\ configured \in BOOLEAN
    /\ file = NoDef /\ job = NoDef /\ enabled = FALSE
    /\ linger \in BOOLEAN /\ (linger => os = "linux")
    /\ session = TRUE
    /\ proc = Off /\ orphan = FALSE /\ wheel = [e \in Env |-> "old"]
    /\ cmd = Idle /\ crashes = 0
    /\ promise = NoDef /\ since = FALSE /\ rest = FALSE /\ wanted = FALSE

-----------------------------------------------------------------------------
(* Commands.                                                               *)

FirstCall(op) == IF os = "windows" \/ op \in {"start", "stop"} THEN "call"
                 ELSE IF op = "install" THEN "write" ELSE "release"

Begin(op, e) ==
    /\ session /\ cmd = Idle
    /\ cmd' = [op |-> op, env |-> e, at |-> FirstCall(op),
               existed |-> file # NoDef]
    /\ promise' = IF op \in {"install", "uninstall"} THEN NoDef ELSE promise
    /\ rest' = (rest /\ op \notin {"install", "start"})
    /\ wanted' = (wanted /\ op \notin {"stop", "uninstall"})
    /\ UNCHANGED <<platform, file, manager, proc, orphan, wheel, crashes, since>>

BeginAny == \/ \E e \in Env : Begin("install", e)
            \/ \E op \in {"uninstall", "start", "stop"} : Begin(op, NoDef)

At(op, place) == cmd.op = op /\ cmd.at = place
Goto(place) == cmd' = [cmd EXCEPT !.at = place]

(* A call is refused where the command gives up on it, or the command is   *)
(* killed: nothing is reported as done.                                    *)
Abandoned ==
    /\ cmd # Idle
    /\ cmd' = Idle
    /\ UNCHANGED <<platform, file, manager, proc, orphan, wheel, crashes, history>>

(* success = True.                                                         *)
Report ==
    /\ cmd.at = "report"
    /\ cmd' = Idle
    /\ promise' = IF cmd.op = "install" THEN cmd.env ELSE "removed"
    /\ since' = FALSE
    /\ UNCHANGED <<platform, file, manager, proc, orphan, wheel, crashes, rest,
                   wanted>>

(* schtasks /Create /F replaces the task; a running instance runs on.      *)
CreateTask ==
    /\ os = "windows" /\ At("install", "call")
    /\ job' = cmd.env
    /\ Goto("report")
    /\ UNCHANGED <<platform, file, enabled, linger, session, proc, orphan, wheel,
                   crashes, history>>

(* schtasks /Delete does not end the program the task is running, and an   *)
(* absent task counts as removed.                                          *)
DeleteTask ==
    /\ os = "windows" /\ At("uninstall", "call")
    /\ job' = NoDef
    /\ orphan' = (orphan \/ Up(proc))
    /\ proc' = Off
    /\ Goto("report")
    /\ UNCHANGED <<platform, file, enabled, linger, session, wheel, crashes, history>>

(* Mutant of WriteDefinition: a definition that is there is kept.          *)
WriteDefinitionOnce ==
    /\ At("install", "write")
    /\ file' = IF file = NoDef THEN cmd.env ELSE file
    /\ Goto(IF os = "macos" THEN "probe" ELSE "reload")
    /\ UNCHANGED <<platform, manager, proc, orphan, wheel, crashes, history>>

(* The plist or unit file, written in place.                               *)
WriteDefinition ==
    /\ At("install", "write")
    /\ file' = cmd.env
    /\ Goto(IF os = "macos" THEN "probe" ELSE "reload")
    /\ UNCHANGED <<platform, manager, proc, orphan, wheel, crashes, history>>

(* launchctl print.                                                        *)
Probe ==
    /\ At("install", "probe")
    /\ Goto(IF job # NoDef THEN "bootout" ELSE "bootstrap")
    /\ UNCHANGED <<platform, file, manager, proc, orphan, wheel, crashes, history>>

(* launchctl bootout; "could not find" is as good as done.                 *)
Bootout ==
    /\ At("install", "bootout")
    /\ job' = NoDef
    /\ proc' = IF job = NoDef THEN proc ELSE Stopped(proc)
    /\ wanted' = FALSE
    /\ Goto("bootstrap")
    /\ UNCHANGED <<platform, file, enabled, linger, session, orphan, wheel, crashes,
                   promise, since, rest>>

(* launchctl bootstrap of whatever plist is on disk: refused while the     *)
(* label is registered, and as a rule while its last process is draining.  *)
Bootstrapped ==
    /\ job = NoDef /\ file # NoDef
    /\ job' = file
    /\ proc' = Launched(file)
    /\ orphan' = (orphan \/ Up(proc))
    /\ wanted' = TRUE
    /\ rest' = FALSE

Bootstrap ==
    /\ cmd.op = "install" /\ cmd.at \in {"bootstrap", "retry"}
    /\ Bootstrapped
    /\ Goto("report")
    /\ UNCHANGED <<platform, file, enabled, linger, session, wheel, crashes,
                   promise, since>>

(* Error 5: one more attempt after two seconds.                            *)
BootstrapBusy ==
    /\ At("install", "bootstrap")
    /\ job # NoDef \/ Up(proc)
    /\ Goto("retry")
    /\ UNCHANGED <<platform, file, manager, proc, orphan, wheel, crashes, history>>

(* systemctl daemon-reload; uninstall does not look at its result.         *)
Reload ==
    /\ cmd.at = "reload"
    /\ job' \in (IF cmd.op = "install" THEN {file} ELSE {file, job})
    /\ Goto(IF cmd.op = "install" THEN "enable" ELSE "report")
    /\ UNCHANGED <<platform, file, enabled, linger, session, proc, orphan, wheel,
                   crashes, history>>

(* systemctl enable.                                                       *)
Enable ==
    /\ At("install", "enable")
    /\ enabled' = TRUE
    /\ Goto("linger")
    /\ UNCHANGED <<platform, file, job, linger, session, proc, orphan, wheel,
                   crashes, history>>

(* loginctl enable-linger, best effort.                                    *)
EnsureLinger ==
    /\ At("install", "linger")
    /\ linger' \in {linger, TRUE}
    /\ Goto("report")
    /\ UNCHANGED <<platform, file, job, enabled, session, proc, orphan, wheel,
                   crashes, history>>

(* launchctl bootout, systemctl disable --now: a failure is not looked at. *)
Release ==
    /\ At("uninstall", "release")
    /\ \/ /\ proc' = Stopped(proc)
          /\ job' = IF os = "macos" THEN NoDef ELSE job
          /\ enabled' = FALSE
       \/ UNCHANGED <<proc, job, enabled>>
    /\ wanted' = FALSE
    /\ Goto("unlink")
    /\ UNCHANGED <<platform, file, linger, session, orphan, wheel, crashes,
                   promise, since, rest>>

(* Mutant of Unlink: the file of a job that is still loaded is kept.       *)
UnlinkReleased ==
    /\ At("uninstall", "unlink")
    /\ file' = IF cmd.existed /\ job = NoDef THEN NoDef ELSE file
    /\ Goto(IF os = "linux" THEN "reload" ELSE "report")
    /\ UNCHANGED <<platform, manager, proc, orphan, wheel, crashes, history>>

Unlink ==
    /\ At("uninstall", "unlink")
    /\ file' = IF cmd.existed THEN NoDef ELSE file
    /\ Goto(IF os = "linux" THEN "reload" ELSE "report")
    /\ UNCHANGED <<platform, manager, proc, orphan, wheel, crashes, history>>

-----------------------------------------------------------------------------
(* start and stop are one call each.                                       *)

(* schtasks /Run leaves a running instance alone; kickstart -k replaces    *)
(* it; systemctl start reads the unit if it is not loaded.                 *)
Startable == IF os = "linux" /\ job = NoDef THEN file ELSE job

Start ==
    /\ At("start", "call") /\ Startable # NoDef
    /\ job' = Startable
    /\ proc' = CASE os = "macos" \/ ~Up(proc) -> Launched(Startable)
                 [] os = "linux" /\ Up(proc) /\ proc.told -> [proc EXCEPT !.again = TRUE]
                 [] OTHER -> proc
    /\ wanted' = TRUE
    /\ cmd' = Idle
    /\ UNCHANGED <<platform, file, enabled, linger, session, orphan, wheel, crashes,
                   promise, since, rest>>

(* /End kills, systemctl stop ends the unit; launchctl kill only delivers  *)
(* SIGTERM, which kills a daemon that has not installed its handler yet.   *)
Signalled == IF proc.st = "starting" THEN Ended("failure")
             ELSE [proc EXCEPT !.st = "stopping"]

Stop ==
    /\ At("stop", "call") /\ job # NoDef
    /\ Up(proc) \/ os = "linux"
    /\ proc' = CASE os = "windows" -> Off
                 [] os = "macos"   -> Signalled
                 [] os = "linux"   -> Stopped(proc)
    /\ rest' = (os # "macos" \/ proc.st # "starting")
    /\ cmd' = Idle
    /\ UNCHANGED <<platform, file, manager, orphan, wheel, crashes, promise, since,
                   wanted>>

-----------------------------------------------------------------------------
(* The daemon.                                                             *)

(* An agent that is not enrolled returns at once, with status 0.           *)
DaemonReady ==
    /\ proc.st = "starting"
    /\ proc' = IF configured THEN [proc EXCEPT !.st = "running"] ELSE Ended("clean")
    /\ wanted' = (wanted /\ configured)
    /\ UNCHANGED <<platform, file, manager, orphan, wheel, cmd, crashes, promise,
                   since, rest>>

(* Someone has asked the manager for another instance after this one.      *)
Succeeded == proc.again \/ proc.self = "handed"

(* The loop ends: the signal handler or an upgrade cleared _running.       *)
DaemonExit ==
    /\ proc.st = "stopping"
    /\ proc' = Ended("clean")
    /\ wanted' = (wanted /\ Succeeded)
    /\ UNCHANGED <<platform, file, manager, orphan, wheel, cmd, crashes, promise,
                   since, rest>>

DaemonCrash ==
    /\ Up(proc) /\ crashes < MaxCrashes
    /\ crashes' = crashes + 1
    /\ proc' = Ended("failure")
    /\ rest' = (rest /\ proc.told)
    /\ wanted' = (wanted /\ os # "windows" /\ (proc.told => Succeeded))
    /\ UNCHANGED <<platform, file, manager, orphan, wheel, cmd, promise, since>>

(* An orphan ends: on macOS it was on its way out.                         *)
OrphanExit ==
    /\ orphan
    /\ orphan' = FALSE
    /\ UNCHANGED <<platform, file, manager, proc, wheel, cmd, crashes, history>>

(* After ThrottleInterval or RestartSec.                                   *)
ManagerRestart ==
    /\ proc.st = "crashed"
    /\ proc' = LaunchedIf(job)
    /\ UNCHANGED <<platform, file, manager, orphan, wheel, cmd, crashes, history>>

-----------------------------------------------------------------------------
(* The daemon restarts itself when it has installed an upgrade.  A signal  *)
(* meanwhile is only noticed at the end of the loop.                       *)

(* pip of the interpreter that runs the daemon installs into its own       *)
(* environment.  (Bound: each environment is upgraded once.)               *)
InstallWheel ==
    /\ proc.st \in {"running", "stopping"} /\ proc.self = "no"
    /\ wheel[proc.env] = "old"
    /\ wheel' = [wheel EXCEPT ![proc.env] = "new"]
    /\ proc' = [proc EXCEPT !.self = "restart"]
    /\ UNCHANGED <<platform, file, manager, orphan, cmd, crashes, history>>

(* A refused call is reported to Central, and the loop goes on.            *)
SelfRestartFails ==
    /\ proc.self \in {"restart", "rerun"}
    /\ proc' = [proc EXCEPT !.self = "no"]
    /\ UNCHANGED <<platform, file, manager, orphan, wheel, cmd, crashes, history>>

(* Mutant of RestartViaSystemd: the unit is stopped, and the process that  *)
(* was to start it again is gone.                                          *)
StopViaSystemd ==
    /\ os = "linux" /\ proc.self = "restart" /\ job # NoDef
    /\ proc' = [Stopped(proc) EXCEPT !.self = "handed"]
    /\ rest' = FALSE
    /\ UNCHANGED <<platform, file, manager, orphan, wheel, cmd, crashes, promise,
                   since, wanted>>

(* systemctl restart: the manager carries it out, whatever becomes of the  *)
(* process that asked.                                                     *)
RestartViaSystemd ==
    /\ os = "linux" /\ proc.self = "restart" /\ job # NoDef
    /\ proc' = [proc EXCEPT !.st = "stopping", !.told = TRUE, !.again = TRUE,
                            !.self = "handed"]
    /\ rest' = FALSE
    /\ UNCHANGED <<platform, file, manager, orphan, wheel, cmd, crashes, promise,
                   since, wanted>>

(* launchctl bootout ends the daemon that calls it, before or after it     *)
(* gets to bootstrap.                                                      *)
RestartBootout ==
    /\ os = "macos" /\ proc.self = "restart"
    /\ job' = NoDef
    /\ \/ proc' = Off
       \/ proc' = [Stopped(proc) EXCEPT !.self = "rerun"]
    /\ wanted' = FALSE
    /\ UNCHANGED <<platform, file, enabled, linger, session, orphan, wheel, cmd,
                   crashes, promise, since, rest>>

RestartBootstrap ==
    /\ os = "macos" /\ proc.self = "rerun"
    /\ Bootstrapped
    /\ UNCHANGED <<platform, file, enabled, linger, session, wheel, cmd, crashes,
                   promise, since>>

(* schtasks /End ends the daemon that calls it; if it is refused, /Run     *)
(* finds the instance running and the loop ends all the same.              *)
RestartEnd ==
    /\ os = "windows" /\ proc.self = "restart"
    /\ \/ proc' = Off
       \/ proc' = [proc EXCEPT !.self = "rerun"]
    /\ wanted' = FALSE
    /\ UNCHANGED <<platform, file, manager, orphan, wheel, cmd, crashes, promise,
                   since, rest>>

RestartRun ==
    /\ os = "windows" /\ proc.self = "rerun" /\ job # NoDef
    /\ proc' = [proc EXCEPT !.st = "stopping", !.self = "no"]
    /\ UNCHANGED <<platform, file, manager, orphan, wheel, cmd, crashes, history>>

-----------------------------------------------------------------------------
(* Sessions.                                                               *)

Lingers == os = "linux" /\ linger

(* A new user manager: no process, the definitions on disk, and what they  *)
(* say is to be started.                                                   *)
FreshManager ==
    /\ job' = IF os = "windows" THEN job ELSE file
    /\ proc' = LaunchedIf(AtLogin)
    /\ wanted' = (AtLogin # NoDef)
    /\ rest' = FALSE

Login ==
    /\ ~session /\ session' = TRUE
    /\ IF Lingers THEN UNCHANGED <<job, proc, wanted, rest>> ELSE FreshManager
    /\ UNCHANGED <<platform, file, enabled, linger, orphan, wheel, cmd, crashes,
                   promise, since>>

NoManager ==
    /\ job' = IF os = "windows" THEN job ELSE NoDef
    /\ proc' = Off
    /\ wanted' = FALSE
    /\ UNCHANGED rest

Logout ==
    /\ session /\ session' = FALSE
    /\ cmd' = Idle
    /\ IF Lingers THEN UNCHANGED <<job, proc, orphan, since, wanted, rest>>
                  ELSE NoManager /\ orphan' = FALSE /\ since' = TRUE
    /\ UNCHANGED <<platform, file, enabled, linger, wheel, crashes, promise>>

Reboot ==
    /\ session' = FALSE
    /\ cmd' = Idle
    /\ IF Lingers THEN FreshManager ELSE NoManager
    /\ orphan' = FALSE /\ since' = TRUE
    /\ UNCHANGED <<platform, file, enabled, linger, wheel, crashes, promise>>

-----------------------------------------------------------------------------
Commands == \/ BeginAny \/ Abandoned \/ Report
            \/ CreateTask \/ DeleteTask
            \/ WriteDefinition \/ Probe \/ Bootout \/ Bootstrap \/ BootstrapBusy
            \/ Reload \/ Enable \/ EnsureLinger
            \/ Release \/ Unlink \/ Start \/ Stop

Upgrading == \/ InstallWheel \/ SelfRestartFails \/ RestartViaSystemd
             \/ RestartBootout \/ RestartBootstrap \/ RestartEnd \/ RestartRun

Next == \/ Commands \/ Upgrading
        \/ DaemonReady \/ DaemonExit \/ DaemonCrash \/ OrphanExit
        \/ ManagerRestart \/ Login \/ Logout \/ Reboot

(* A process that is starting gets to run, one that is told to end does    *)
(* (TimeoutStopSec, ExitTimeOut), and the manager restarts what its        *)
(* definition tells it to.                                                 *)
Spec == /\ Init /\ [][Next]_vars
        /\ WF_vars(DaemonReady) /\ WF_vars(DaemonExit) /\ WF_vars(ManagerRestart)

-----------------------------------------------------------------------------
(* After an install that reported success, whatever was left behind by     *)
(* earlier commands that failed half-way and whatever the daemon does to   *)
(* its own registration: the next login or boot starts the environment the *)
(* install was run from, and the manager has no other definition loaded.   *)
InstalledInForce ==
    promise \in Env => AtLogin = promise /\ job \in {promise, NoDef}

(* After an uninstall that reported success, though it overlooks the calls *)
(* that failed: no login or boot starts anything, and when the user        *)
(* manager has ended no daemon is left.                                    *)
RemovedStaysDown ==
    promise = "removed" =>
        /\ AtLogin = NoDef
        /\ since => proc = Off /\ ~orphan

(* A daemon that was running when `service stop` reached it is not brought *)
(* back by the manager (service_gen.py on KeepAlive and Restart), unless   *)
(* it crashes on its way out or was restarting itself for an upgrade.      *)
StopHolds == rest => proc.st \in {"stopping", "off"}

(* A daemon that was started, by a command, a login or a boot, gets to its *)
(* loop, over the crashes on the way, unless it is stopped, removed, ended *)
(* with its session or not enrolled - or crashes on Windows, where nothing *)
(* restarts it.                                                            *)
WantedRuns == wanted ~> (proc.st = "running" \/ ~wanted)

(* On Linux a daemon that has handed its restart to systemd is succeeded   *)
(* by one which runs the new version, as long as the definition systemd    *)
(* has is one of the environment the upgrade was installed in: after a     *)
(* service install from another one, which restarts nothing, that one's    *)
(* package is what runs.  On the other platforms the daemon ends itself    *)
(* with its own call, and there is no such promise.                        *)
UpgradeTakesOver ==
    \A e \in Env :
        (proc.self = "handed" /\ proc.env = e) ~>
            ((proc.st = "running" /\ proc.code = "new") \/ job # e \/ ~wanted)
=============================================================================
