----------------------- MODULE ServiceLifecycleProofs -----------------------
(***************************************************************************)
(* Proofs about ServiceLifecycle, for any set of platforms, installations  *)
(* and number of crashes: types, and that what install, uninstall and stop *)
(* have reported stays true.                                               *)
(***************************************************************************)
EXTENDS ServiceLifecycle, TLAPS

(* Where a command may be, by platform; an install or uninstall in         *)
(* progress has taken the last report back.                                *)
InstallPlaces ==
    CASE os = "windows" -> {"call", "report"}
      [] os = "macos"   -> {"write", "probe", "bootout", "bootstrap", "retry", "report"}
      [] os = "linux"   -> {"write", "reload", "enable", "linger", "report"}

UninstallPlaces ==
    CASE os = "windows" -> {"call", "report"}
      [] os = "macos"   -> {"release", "unlink", "report"}
      [] os = "linux"   -> {"release", "unlink", "reload", "report"}

Places ==
    /\ cmd.op = "none" => cmd.at = "idle"
    /\ cmd.op = "install" => cmd.env \in Env /\ cmd.at \in InstallPlaces
    /\ cmd.op = "uninstall" => cmd.at \in UninstallPlaces
    /\ cmd.op \in {"start", "stop"} => cmd.at = "call"
    /\ cmd.op \in {"install", "uninstall"} => promise = NoDef

(* How far an install has got.                                             *)
Installing ==
    cmd.op = "install" =>
        /\ os = "windows" /\ cmd.at = "report" => job = cmd.env
        /\ os # "windows" /\ cmd.at # "write" => file = cmd.env
        /\ os # "windows" /\ cmd.at \in {"bootstrap", "retry", "enable", "linger", "report"}
           => job \in {cmd.env, NoDef}
        /\ os = "linux" /\ cmd.at \in {"linger", "report"} => enabled

(* How far an uninstall has got.                                           *)
Uninstalling ==
    cmd.op = "uninstall" =>
        /\ os = "windows" /\ cmd.at = "report" => job = NoDef
        /\ os # "windows" /\ cmd.at \in {"release", "unlink"} =>
              (cmd.existed <=> file # NoDef)
        /\ os # "windows" /\ cmd.at \in {"reload", "report"} => file = NoDef

(* What an uninstall leaves is not only not started, but not there.        *)
Removed ==
    promise = "removed" =>
        /\ os = "windows" => job = NoDef
        /\ os # "windows" => file = NoDef
        /\ since => job = NoDef /\ proc = Off /\ ~orphan

(* While a stop holds nobody has asked for another instance.               *)
Resting ==
    /\ rest => ~proc.again /\ cmd.op \notin {"start", "install"}
    /\ proc.again => os = "linux"

(* Only a living process is restarting itself.                             *)
ProcOK(p) == /\ p \in Process
             /\ p.st # "off" => p.env \in Env
             /\ p.self # "no" => Up(p)

IInv == /\ TypeOK /\ Places /\ Installing /\ Uninstalling /\ Removed /\ Resting
        /\ ProcOK(proc) /\ InstalledInForce /\ StopHolds

-----------------------------------------------------------------------------
(* Types.                                                                  *)

States == {"off", "crashed", "starting", "running", "stopping"}

Living == {"starting", "running", "stopping"}

LEMMA OffTyped == ProcOK(Off) /\ Off.st = "off" /\ ~Off.again
BY DEF ProcOK, Off, Process, Up

LEMMA LaunchedTyped ==
    ASSUME wheel \in [Env -> {"old", "new"}], NEW e \in Env
    PROVE  ProcOK(Launched(e)) /\ ~Launched(e).again
BY DEF ProcOK, Launched, Process, Up

LEMMA LaunchedIfTyped ==
    ASSUME wheel \in [Env -> {"old", "new"}], NEW e \in Env \cup {NoDef}
    PROVE  ProcOK(LaunchedIf(e)) /\ ~LaunchedIf(e).again
BY OffTyped, LaunchedTyped DEF LaunchedIf

LEMMA StoppedTyped ==
    ASSUME NEW p, ProcOK(p)
    PROVE  /\ ProcOK(Stopped(p)) /\ ~Stopped(p).again
           /\ Stopped(p).st \in {"stopping", "off"}
           /\ p = Off => Stopped(p) = Off
BY OffTyped DEF ProcOK, Stopped, Process, Up

(* The changes of one field or two that actions make to a process.         *)
LEMMA ChangedTyped ==
    ASSUME NEW p, ProcOK(p), Up(p), NEW s \in Living,
           NEW f \in {"no", "restart", "rerun", "handed"}
    PROVE  /\ ProcOK([p EXCEPT !.st = s]) /\ [p EXCEPT !.st = s].again = p.again
           /\ [p EXCEPT !.st = s].st = s
           /\ ProcOK([p EXCEPT !.self = f]) /\ [p EXCEPT !.self = f].again = p.again
           /\ [p EXCEPT !.self = f].st = p.st
           /\ ProcOK([p EXCEPT !.st = s, !.self = f])
           /\ [p EXCEPT !.st = s, !.self = f].again = p.again
           /\ [p EXCEPT !.st = s, !.self = f].st = s
           /\ ProcOK([p EXCEPT !.again = TRUE])
           /\ [p EXCEPT !.again = TRUE].st = p.st
BY DEF ProcOK, Process, Living, Up

LEMMA CrashedTyped ==
    ASSUME NEW p, ProcOK(p), Up(p)
    PROVE  LET c == [p EXCEPT !.st = "crashed", !.self = "no"]
           IN  ProcOK(c) /\ c.again = p.again
BY DEF ProcOK, Process, Up

LEMMA EndedTyped ==
    ASSUME TypeOK, ProcOK(proc), Up(proc), NEW how \in {"clean", "failure"}
    PROVE  /\ ProcOK(Ended(how)) /\ ~Ended(how).again
           /\ ~proc.again /\ (how = "clean" \/ proc.told) => Ended(how) = Off
<1> DEFINE c == [proc EXCEPT !.st = "crashed", !.self = "no"]
<1>1. ProcOK(LaunchedIf(job)) /\ ~LaunchedIf(job).again
  BY LaunchedIfTyped DEF TypeOK
<1>2. ProcOK(c) /\ c.again = proc.again
  BY CrashedTyped
<1>3. \/ proc.again /\ Ended(how) = LaunchedIf(job)
      \/ ~proc.again /\ ~(how = "clean" \/ proc.told) /\ Ended(how) = c
      \/ ~proc.again /\ Ended(how) = Off
  BY DEF Ended, RestartPolicy
<1> HIDE DEF c
<1> QED
  BY <1>1, <1>2, <1>3, OffTyped

LEMMA CmdTyped ==
    ASSUME cmd \in Command,
           NEW p \in {"idle", "call", "write", "probe", "bootout", "bootstrap", "retry",
                      "reload", "enable", "linger", "release", "unlink", "report"}
    PROVE  /\ [cmd EXCEPT !.at = p] \in Command
           /\ [cmd EXCEPT !.at = p].at = p
           /\ [cmd EXCEPT !.at = p].op = cmd.op
           /\ [cmd EXCEPT !.at = p].env = cmd.env
           /\ [cmd EXCEPT !.at = p].existed = cmd.existed
BY DEF Command

LEMMA IdleTyped == Idle \in Command /\ Idle.op = "none" /\ Idle.at = "idle"
BY DEF Idle, Command

-----------------------------------------------------------------------------
(* Steps that change the process only, and perhaps end the command.        *)

Bystanding ==
    /\ UNCHANGED <<os, configured, file, job, enabled, linger, session, promise, since>>
    /\ cmd' \in {cmd, Idle}
    /\ ProcOK(proc') /\ (proc = Off => proc' = Off)
    /\ orphan' \in BOOLEAN /\ (orphan' => orphan)
    /\ wheel' \in [Env -> {"old", "new"}] /\ crashes' \in 0..MaxCrashes
    /\ rest' \in BOOLEAN /\ wanted' \in BOOLEAN
    /\ proc'.again => os = "linux"
    /\ rest' => /\ proc'.st \in {"stopping", "off"} /\ ~proc'.again
                /\ cmd'.op \notin {"start", "install"}

LEMMA BystandingInv == IInv /\ Bystanding => IInv'
<1> SUFFICES ASSUME IInv, Bystanding PROVE IInv'
  OBVIOUS
<1> USE DEF IInv, Bystanding
<1>1. TypeOK'
  BY IdleTyped DEF TypeOK, ProcOK
<1>2. Places' /\ Installing' /\ Uninstalling'
  BY IdleTyped DEF Places, Installing, Uninstalling, InstallPlaces, UninstallPlaces
<1>3. Removed' /\ Resting'
  BY DEF Removed, Resting
<1>4. InstalledInForce' /\ StopHolds'
  BY DEF InstalledInForce, AtLogin, StopHolds
<1> QED
  BY <1>1, <1>2, <1>3, <1>4

LEMMA Known ==
    ASSUME IInv
    PROVE  /\ ProcOK(proc) /\ proc.again \in BOOLEAN /\ proc.told \in BOOLEAN
           /\ proc.st \in States
           /\ (proc = Off => proc.st = "off" /\ ~proc.again /\ proc.self = "no")
           /\ wheel \in [Env -> {"old", "new"}] /\ orphan \in BOOLEAN
           /\ rest \in BOOLEAN /\ wanted \in BOOLEAN /\ configured \in BOOLEAN
           /\ crashes \in 0..MaxCrashes
           /\ file \in Env \cup {NoDef} /\ job \in Env \cup {NoDef}
           /\ cmd \in Command
           /\ rest => /\ proc.st \in {"stopping", "off"} /\ ~proc.again
                      /\ cmd.op \notin {"start", "install"}
           /\ proc.again => os = "linux"
           /\ TypeOK
BY DEF IInv, TypeOK, ProcOK, Process, States, Off, Resting, StopHolds

LEMMA AbandonedInv == IInv /\ Abandoned => IInv'
<1> SUFFICES ASSUME IInv, Abandoned PROVE IInv'
  OBVIOUS
<1>1. Bystanding
  BY Known, IdleTyped DEF Abandoned, Bystanding, platform, manager, history
<1> QED
  BY <1>1, BystandingInv

LEMMA DaemonInv ==
    IInv /\ (DaemonReady \/ DaemonExit \/ DaemonCrash) => IInv'
<1> SUFFICES ASSUME IInv, DaemonReady \/ DaemonExit \/ DaemonCrash PROVE IInv'
  OBVIOUS
<1>t. TypeOK
  BY DEF IInv
<1>1. UNCHANGED <<os, configured, file, job, enabled, linger, session, promise, since,
                  cmd, orphan, wheel>>
  BY DEF DaemonReady, DaemonExit, DaemonCrash, platform, manager
<1>2. Up(proc)
  BY DEF DaemonReady, DaemonExit, DaemonCrash, Up
<1>3. ASSUME NEW how \in {"clean", "failure"}
      PROVE  /\ ProcOK(Ended(how)) /\ ~Ended(how).again
             /\ ~proc.again /\ (how = "clean" \/ proc.told) => Ended(how) = Off
  BY <1>t, <1>2, Known, EndedTyped
<1>4. CASE DaemonReady
  <2> DEFINE x == [proc EXCEPT !.st = "running"]
  <2>1. ProcOK(x) /\ x.again = proc.again
    BY <1>2, Known, ChangedTyped DEF Living
  <2>2. proc' = x \/ proc' = Ended("clean")
    BY <1>4 DEF DaemonReady
  <2>3. ~rest /\ proc # Off
    BY <1>4, Known DEF DaemonReady
  <2> HIDE DEF x
  <2>4. Bystanding
    BY <1>1, <1>3, <1>4, <2>1, <2>2, <2>3, Known DEF Bystanding, DaemonReady
  <2> QED
    BY <2>4, BystandingInv
<1>5. CASE DaemonExit
  <2>1. proc # Off /\ wanted' \in BOOLEAN
    BY <1>5, Known DEF DaemonExit
  <2>2. rest => Ended("clean") = Off
    BY <1>3, Known
  <2>3. Bystanding
    BY <1>1, <1>3, <1>5, <2>1, <2>2, OffTyped, Known DEF Bystanding, DaemonExit
  <2> QED
    BY <2>3, BystandingInv
<1>6. CASE DaemonCrash
  <2>1. proc # Off /\ wanted' \in BOOLEAN /\ rest' \in BOOLEAN
    BY <1>2, <1>6, Known DEF DaemonCrash, Up
  <2>2. rest' => rest /\ Ended("failure") = Off
    BY <1>3, <1>6, Known DEF DaemonCrash
  <2>3. crashes' \in 0..MaxCrashes
    BY <1>6, Known, MaxCrashesAssumption DEF DaemonCrash
  <2>4. Bystanding
    BY <1>1, <1>3, <1>6, <2>1, <2>2, <2>3, OffTyped, Known DEF Bystanding, DaemonCrash
  <2> QED
    BY <2>4, BystandingInv
<1> QED
  BY <1>4, <1>5, <1>6

LEMMA RestartInv ==
    IInv /\ (OrphanExit \/ ManagerRestart) => IInv'
<1> SUFFICES ASSUME IInv, OrphanExit \/ ManagerRestart PROVE IInv'
  OBVIOUS
<1>1. CASE OrphanExit
  <2>1. Bystanding
    BY <1>1, Known DEF OrphanExit, Bystanding, platform, manager, history
  <2> QED
    BY <2>1, BystandingInv
<1>2. CASE ManagerRestart
  <2>1. proc # Off /\ ~rest
    BY <1>2, Known DEF ManagerRestart
  <2>2. ProcOK(LaunchedIf(job)) /\ ~LaunchedIf(job).again
    BY Known, LaunchedIfTyped
  <2>3. Bystanding
    BY <1>2, <2>1, <2>2, Known DEF ManagerRestart, Bystanding, platform, manager, history
  <2> QED
    BY <2>3, BystandingInv
<1> QED
  BY <1>1, <1>2

LEMMA StopInv == IInv /\ Stop => IInv'
<1> SUFFICES ASSUME IInv, Stop PROVE IInv'
  OBVIOUS
<1>1. UNCHANGED <<os, configured, file, job, enabled, linger, session, promise, since,
                  orphan, wheel, crashes, wanted>> /\ cmd' = Idle
  BY DEF Stop, platform, manager
<1>2. rest' \in BOOLEAN /\ os \in {"windows", "macos", "linux"}
  BY OSAssumption DEF Stop, IInv, TypeOK
<1>3. /\ ProcOK(proc') /\ (proc'.again => os = "linux")
      /\ proc = Off => proc' = Off
      /\ rest' => proc'.st \in {"stopping", "off"} /\ ~proc'.again
  <2>1. CASE os = "windows"
    BY <2>1, OffTyped DEF Stop
  <2>2. CASE os = "linux"
    BY <2>2, Known, StoppedTyped DEF Stop
  <2>3. CASE os = "macos"
    <3>1. Up(proc) /\ proc # Off /\ proc' = Signalled /\ ~proc.again
          /\ (rest' <=> proc.st # "starting")
      BY <2>3, Known DEF Stop, Up
    <3>2. TypeOK
      BY DEF IInv
    <3>3. CASE proc.st = "starting"
      <4>1. ProcOK(Ended("failure")) /\ ~Ended("failure").again
        BY <3>1, <3>2, Known, EndedTyped
      <4> QED
        BY <3>1, <3>3, <4>1 DEF Signalled
    <3>4. CASE proc.st # "starting"
      <4> DEFINE x == [proc EXCEPT !.st = "stopping"]
      <4>1. ProcOK(x) /\ x.again = proc.again /\ x.st = "stopping"
        BY <3>1, Known, ChangedTyped DEF Living
      <4>2. proc' = x
        BY <3>1, <3>4 DEF Signalled
      <4> HIDE DEF x
      <4> QED
        BY <3>1, <4>1, <4>2
    <3> QED
      BY <3>3, <3>4
  <2> QED
    BY <1>2, <2>1, <2>2, <2>3
<1>4. Bystanding
  BY <1>1, <1>2, <1>3, IdleTyped, Known DEF Bystanding
<1> QED
  BY <1>4, BystandingInv

(* The daemon's restart of itself, but for what launchd is asked to do.    *)
LEMMA SelfInv ==
    IInv /\ (InstallWheel \/ SelfRestartFails \/ RestartViaSystemd \/ RestartEnd
             \/ RestartRun) => IInv'
<1> SUFFICES ASSUME IInv, InstallWheel \/ SelfRestartFails \/ RestartViaSystemd
                          \/ RestartEnd \/ RestartRun
             PROVE  IInv'
  OBVIOUS
<1>0. UNCHANGED <<os, configured, file, job, enabled, linger, session, promise, since,
                  cmd, orphan, crashes>>
  BY DEF InstallWheel, SelfRestartFails, RestartViaSystemd, RestartEnd, RestartRun,
         platform, manager, history
<1>1. Up(proc) /\ proc # Off
  <2>1. proc.self # "no" => Up(proc)
    BY Known DEF ProcOK
  <2>2. Up(proc)
    BY <2>1 DEF InstallWheel, SelfRestartFails, RestartViaSystemd, RestartEnd,
                RestartRun, Up
  <2> QED
    BY <2>2, Known DEF Up
<1>2. ASSUME NEW x, ProcOK(x), proc' = x, x.again => os = "linux",
             wheel' \in [Env -> {"old", "new"}], rest' \in BOOLEAN, wanted' \in BOOLEAN,
             rest' => rest /\ x.st \in {"stopping", "off"} /\ ~x.again
      PROVE  IInv'
  <2>1. /\ crashes' \in 0..MaxCrashes /\ orphan' \in BOOLEAN /\ (orphan' => orphan)
        /\ (rest => cmd.op \notin {"start", "install"})
    BY <1>0, Known
  <2>2. Bystanding
    BY <1>0, <1>1, <1>2, <2>1 DEF Bystanding
  <2> QED
    BY <2>2, BystandingInv
<1>3. CASE InstallWheel
  <2> DEFINE x == [proc EXCEPT !.self = "restart"]
  <2>1. ProcOK(x) /\ x.again = proc.again /\ x.st = proc.st
    BY <1>1, Known, ChangedTyped DEF Living
  <2>2. /\ proc' = x /\ UNCHANGED <<rest, wanted>>
        /\ wheel' = [wheel EXCEPT ![proc.env] = "new"]
    BY <1>3 DEF InstallWheel, history
  <2> HIDE DEF x
  <2> QED
    BY <1>2, <2>1, <2>2, Known
<1>4. CASE SelfRestartFails
  <2> DEFINE x == [proc EXCEPT !.self = "no"]
  <2>1. proc' = x /\ UNCHANGED <<wheel, rest, wanted>>
    BY <1>4 DEF SelfRestartFails, history
  <2>2. ProcOK(x) /\ x.again = proc.again /\ x.st = proc.st
    BY <1>1, Known, ChangedTyped DEF Living
  <2> HIDE DEF x
  <2> QED
    BY <1>2, <2>1, <2>2, Known
<1>5. CASE RestartViaSystemd
  <2> DEFINE x == [proc EXCEPT !.st = "stopping", !.told = TRUE, !.again = TRUE,
                               !.self = "handed"]
  <2>1. /\ proc' = x /\ UNCHANGED <<wheel, wanted>>
        /\ rest' = FALSE /\ os = "linux"
    BY <1>5 DEF RestartViaSystemd
  <2>2. ProcOK(x)
    BY <1>1, Known DEF ProcOK, Process, Up
  <2> HIDE DEF x
  <2> QED
    BY <1>2, <2>1, <2>2, Known
<1>6. CASE RestartEnd
  <2> DEFINE x == [proc EXCEPT !.self = "rerun"]
  <2>1. /\ (proc' = Off \/ proc' = x) /\ UNCHANGED <<wheel, rest>>
        /\ wanted' = FALSE
    BY <1>6 DEF RestartEnd
  <2>2. ProcOK(x) /\ x.again = proc.again /\ x.st = proc.st
    BY <1>1, Known, ChangedTyped DEF Living
  <2> HIDE DEF x
  <2>3. CASE proc' = Off
    BY <1>2, <2>1, <2>3, OffTyped, Known
  <2>4. CASE proc' = x
    BY <1>2, <2>1, <2>2, <2>4, Known
  <2> QED
    BY <2>1, <2>3, <2>4
<1>7. CASE RestartRun
  <2> DEFINE x == [proc EXCEPT !.st = "stopping", !.self = "no"]
  <2>1. proc' = x /\ UNCHANGED <<wheel, rest, wanted>>
    BY <1>7 DEF RestartRun, history
  <2>2. ProcOK(x) /\ x.again = proc.again /\ x.st = "stopping"
    BY <1>1, Known DEF ProcOK, Process, Up
  <2> HIDE DEF x
  <2> QED
    BY <1>2, <2>1, <2>2, Known
<1> QED
  BY <1>3, <1>4, <1>5, <1>6, <1>7

-----------------------------------------------------------------------------
(* Steps of an install or an uninstall: the last report has been taken     *)
(* back, so what remains to show is how far the command has got.           *)

CommandPlaces == {"idle", "call", "write", "probe", "bootout", "bootstrap", "retry",
                  "reload", "enable", "linger", "release", "unlink", "report"}

Proceeding ==
    /\ cmd.op \in {"install", "uninstall"}
    /\ \E p \in CommandPlaces : cmd' = [cmd EXCEPT !.at = p]
    /\ UNCHANGED <<os, configured, session, wheel, crashes, promise, since>>
    /\ file' \in Env \cup {NoDef} /\ job' \in Env \cup {NoDef}
    /\ enabled' \in BOOLEAN /\ linger' \in BOOLEAN /\ orphan' \in BOOLEAN
    /\ rest' \in BOOLEAN /\ wanted' \in BOOLEAN
    /\ ProcOK(proc') /\ (proc'.again => os = "linux")
    /\ rest' => rest /\ proc'.st \in {"stopping", "off"} /\ ~proc'.again

LEMMA ProceedingInv ==
    IInv /\ Proceeding /\ cmd'.at \in (IF cmd.op = "install" THEN InstallPlaces
                                                             ELSE UninstallPlaces)
         /\ Installing' /\ Uninstalling' => IInv'
<1> SUFFICES ASSUME IInv, Proceeding, Installing', Uninstalling',
                    cmd'.at \in (IF cmd.op = "install" THEN InstallPlaces
                                                       ELSE UninstallPlaces)
             PROVE  IInv'
  OBVIOUS
<1>1. cmd' \in Command /\ cmd'.op = cmd.op /\ cmd'.env = cmd.env
  BY CmdTyped, Known DEF Proceeding, CommandPlaces
<1>2. promise = NoDef /\ (cmd.op = "install" => cmd.env \in Env)
  BY DEF IInv, Places, Proceeding
<1>3. TypeOK'
  BY <1>1, Known DEF TypeOK, Proceeding, ProcOK
<1>4. Places'
  BY <1>1, <1>2 DEF Proceeding, Places, InstallPlaces, UninstallPlaces
<1>5. Removed' /\ InstalledInForce'
  BY <1>2, EnvAssumption DEF Proceeding, Removed, InstalledInForce
<1>6. Resting' /\ StopHolds' /\ ProcOK(proc)'
  BY <1>1, Known DEF Proceeding, Resting, StopHolds
<1> QED
  BY <1>3, <1>4, <1>5, <1>6 DEF IInv

(* The steps that leave the process alone.                                 *)
LEMMA QuietInv ==
    ASSUME IInv, cmd.op \in {"install", "uninstall"}, NEW p \in CommandPlaces,
           cmd' = [cmd EXCEPT !.at = p],
           UNCHANGED <<os, configured, session, wheel, crashes, promise, since, proc,
                       orphan, rest, wanted>>,
           file' \in Env \cup {NoDef}, job' \in Env \cup {NoDef},
           enabled' \in BOOLEAN, linger' \in BOOLEAN,
           p \in (IF cmd.op = "install" THEN InstallPlaces ELSE UninstallPlaces),
           Installing', Uninstalling'
    PROVE  IInv'
<1>1. Proceeding
  BY Known DEF Proceeding
<1>2. cmd'.at = p
  BY Known, CmdTyped DEF CommandPlaces
<1> QED
  BY <1>1, <1>2, ProceedingInv

LEMMA WindowsInv == IInv /\ (CreateTask \/ DeleteTask) => IInv'
<1> SUFFICES ASSUME IInv, CreateTask \/ DeleteTask PROVE IInv'
  OBVIOUS
<1>1. /\ os = "windows" /\ cmd.op \in {"install", "uninstall"}
      /\ cmd' = [cmd EXCEPT !.at = "report"]
      /\ UNCHANGED <<os, configured, file, enabled, linger, session, wheel, crashes,
                     promise, since, rest, wanted>>
  BY DEF CreateTask, DeleteTask, At, Goto, platform, history
<1>2. cmd'.op = cmd.op /\ cmd'.env = cmd.env /\ cmd'.at = "report"
  BY <1>1, CmdTyped, Known
<1>3. (cmd.op = "install" => job' = cmd.env /\ cmd.env \in Env)
      /\ (cmd.op = "uninstall" => job' = NoDef)
  BY DEF CreateTask, DeleteTask, At, IInv, Places
<1>4. Installing' /\ Uninstalling'
  BY <1>1, <1>2, <1>3 DEF Installing, Uninstalling
<1>5. ProcOK(proc') /\ (proc'.again => os = "linux") /\ orphan' \in BOOLEAN
      /\ (rest => proc'.st \in {"stopping", "off"} /\ ~proc'.again)
  BY Known, OffTyped DEF CreateTask, DeleteTask, Up
<1>6. Proceeding
  BY <1>1, <1>3, <1>5, Known DEF Proceeding, CommandPlaces, IInv, TypeOK
<1> QED
  BY <1>1, <1>2, <1>4, <1>6, ProceedingInv DEF InstallPlaces, UninstallPlaces

LEMMA InstallQuietInv ==
    IInv /\ (WriteDefinition \/ Probe \/ BootstrapBusy \/ Enable \/ EnsureLinger)
    => IInv'
<1> SUFFICES ASSUME IInv, WriteDefinition \/ Probe \/ BootstrapBusy \/ Enable
                          \/ EnsureLinger
             PROVE  IInv'
  OBVIOUS
<1> USE DEF At, Goto
<1>1. /\ cmd.op = "install" /\ cmd.env \in Env /\ cmd.at \in InstallPlaces
      /\ Installing /\ os \in {"windows", "macos", "linux"}
  BY OSAssumption DEF IInv, Places, TypeOK, WriteDefinition, Probe, BootstrapBusy, Enable,
                      EnsureLinger
<1>2. UNCHANGED <<os, configured, job, session, wheel, crashes, promise, since, proc,
                  orphan, rest, wanted>>
  BY DEF WriteDefinition, Probe, BootstrapBusy, Enable, EnsureLinger, platform,
         manager, history
<1>3. ASSUME NEW q \in CommandPlaces, cmd' = [cmd EXCEPT !.at = q]
      PROVE  cmd'.op = "install" /\ cmd'.env = cmd.env /\ cmd'.at = q
  BY <1>1, <1>3, CmdTyped, Known DEF CommandPlaces
<1>4. CASE WriteDefinition
  <2> DEFINE q == IF os = "macos" THEN "probe" ELSE "reload"
  <2>1. /\ cmd' = [cmd EXCEPT !.at = q] /\ file' = cmd.env
        /\ UNCHANGED <<enabled, linger>> /\ os # "windows"
    BY <1>1, <1>4 DEF WriteDefinition, InstallPlaces, manager
  <2>2. q \in CommandPlaces /\ q \in InstallPlaces
    BY <1>1, <2>1 DEF CommandPlaces, InstallPlaces
  <2>3. Installing' /\ Uninstalling'
    BY <1>2, <1>3, <2>1, <2>2 DEF Installing, Uninstalling
  <2> HIDE DEF q
  <2> QED
    BY <1>1, <1>2, <2>1, <2>2, <2>3, QuietInv, Known DEF TypeOK
<1>5. CASE Probe
  <2> DEFINE q == IF job # NoDef THEN "bootout" ELSE "bootstrap"
  <2>1. /\ cmd' = [cmd EXCEPT !.at = q] /\ os = "macos"
        /\ UNCHANGED <<file, enabled, linger>>
    BY <1>1, <1>5 DEF Probe, InstallPlaces, manager
  <2>2. q \in CommandPlaces /\ q \in InstallPlaces
    BY <2>1 DEF CommandPlaces, InstallPlaces
  <2>3. Installing' /\ Uninstalling'
    BY <1>1, <1>2, <1>3, <1>5, <2>1, <2>2 DEF Probe, Installing, Uninstalling
  <2> HIDE DEF q
  <2> QED
    BY <1>1, <1>2, <2>1, <2>2, <2>3, QuietInv, Known DEF TypeOK
<1>6. CASE BootstrapBusy
  <2>1. /\ cmd' = [cmd EXCEPT !.at = "retry"] /\ os = "macos"
        /\ UNCHANGED <<file, enabled, linger>>
    BY <1>1, <1>6 DEF BootstrapBusy, InstallPlaces, manager
  <2>2. "retry" \in CommandPlaces /\ "retry" \in InstallPlaces
    BY <2>1 DEF CommandPlaces, InstallPlaces
  <2>3. Installing' /\ Uninstalling'
    BY <1>1, <1>2, <1>3, <1>6, <2>1, <2>2 DEF BootstrapBusy, Installing, Uninstalling
  <2> QED
    BY <1>1, <1>2, <2>1, <2>2, <2>3, QuietInv, Known DEF TypeOK
<1>7. CASE Enable
  <2>1. /\ cmd' = [cmd EXCEPT !.at = "linger"] /\ os = "linux"
        /\ UNCHANGED <<file, linger>> /\ enabled' = TRUE
    BY <1>1, <1>7 DEF Enable, InstallPlaces
  <2>2. "linger" \in CommandPlaces /\ "linger" \in InstallPlaces
    BY <2>1 DEF CommandPlaces, InstallPlaces
  <2>3. Installing' /\ Uninstalling'
    BY <1>1, <1>2, <1>3, <1>7, <2>1, <2>2 DEF Enable, Installing, Uninstalling
  <2> QED
    BY <1>1, <1>2, <2>1, <2>2, <2>3, QuietInv, Known DEF TypeOK
<1>8. CASE EnsureLinger
  <2>1. /\ cmd' = [cmd EXCEPT !.at = "report"] /\ os = "linux"
        /\ UNCHANGED <<file, enabled>> /\ linger' \in {linger, TRUE}
    BY <1>1, <1>8 DEF EnsureLinger, InstallPlaces
  <2>2. "report" \in CommandPlaces /\ "report" \in InstallPlaces
    BY <2>1 DEF CommandPlaces, InstallPlaces
  <2>3. Installing' /\ Uninstalling'
    BY <1>1, <1>2, <1>3, <1>8, <2>1, <2>2 DEF EnsureLinger, Installing, Uninstalling
  <2>4. enabled' \in BOOLEAN /\ linger' \in BOOLEAN
    BY <2>1, Known DEF TypeOK
  <2> QED
    BY <1>1, <1>2, <2>1, <2>2, <2>3, <2>4, QuietInv, Known
<1> QED
  BY <1>4, <1>5, <1>6, <1>7, <1>8

LEMMA ReloadInv == IInv /\ Reload => IInv'
<1> SUFFICES ASSUME IInv, Reload PROVE IInv'
  OBVIOUS
<1> DEFINE q == IF cmd.op = "install" THEN "enable" ELSE "report"
<1>1. /\ cmd.op \in {"install", "uninstall"} /\ os = "linux"
      /\ cmd.op = "install" => cmd.env \in Env
  BY OSAssumption DEF Reload, IInv, TypeOK, Command, Places, InstallPlaces, UninstallPlaces
<1>2. /\ cmd' = [cmd EXCEPT !.at = q]
      /\ job' \in (IF cmd.op = "install" THEN {file} ELSE {file, job})
      /\ UNCHANGED <<os, configured, file, enabled, linger, session, wheel, crashes,
                     promise, since, proc, orphan, rest, wanted>>
  BY DEF Reload, Goto, platform, history
<1>3. q \in CommandPlaces
      /\ q \in (IF cmd.op = "install" THEN InstallPlaces ELSE UninstallPlaces)
  BY <1>1 DEF CommandPlaces, InstallPlaces, UninstallPlaces
<1>4. cmd'.op = cmd.op /\ cmd'.env = cmd.env /\ cmd'.at = q
  BY <1>2, <1>3, CmdTyped, Known DEF CommandPlaces
<1>5. Installing' /\ Uninstalling'
  BY <1>1, <1>2, <1>4 DEF Reload, IInv, Installing, Uninstalling
<1>6. job' \in Env \cup {NoDef}
  BY <1>2, Known
<1> HIDE DEF q
<1> QED
  BY <1>1, <1>2, <1>3, <1>5, <1>6, QuietInv, Known DEF TypeOK

LEMMA UnlinkInv == IInv /\ Unlink => IInv'
<1> SUFFICES ASSUME IInv, Unlink PROVE IInv'
  OBVIOUS
<1> DEFINE q == IF os = "linux" THEN "reload" ELSE "report"
<1>1. cmd.op = "uninstall" /\ os # "windows" /\ os \in {"windows", "macos", "linux"}
  BY OSAssumption DEF Unlink, At, IInv, TypeOK, Places, UninstallPlaces
<1>2. /\ cmd' = [cmd EXCEPT !.at = q]
      /\ file' = (IF cmd.existed THEN NoDef ELSE file)
      /\ UNCHANGED <<os, configured, job, enabled, linger, session, wheel, crashes,
                     promise, since, proc, orphan, rest, wanted>>
  BY DEF Unlink, At, Goto, platform, manager, history
<1>3. q \in CommandPlaces /\ q \in UninstallPlaces
  BY <1>1 DEF CommandPlaces, UninstallPlaces
<1>4. cmd'.op = cmd.op /\ cmd'.at = q
  BY <1>2, <1>3, CmdTyped, Known DEF CommandPlaces
<1>5. file' = NoDef
  BY <1>1, <1>2 DEF Unlink, At, IInv, Uninstalling
<1>6. Installing' /\ Uninstalling'
  BY <1>1, <1>2, <1>3, <1>4, <1>5 DEF Installing, Uninstalling
<1> HIDE DEF q
<1> QED
  BY <1>1, <1>2, <1>3, <1>5, <1>6, QuietInv, Known DEF TypeOK

LEMMA ReleaseInv == IInv /\ (Release \/ Bootout) => IInv'
<1> SUFFICES ASSUME IInv, Release \/ Bootout PROVE IInv'
  OBVIOUS
<1>1. /\ proc' \in {proc, Stopped(proc)} /\ wanted' = FALSE
      /\ UNCHANGED <<os, configured, file, linger, session, wheel, crashes, promise,
                     since, orphan, rest>>
  BY DEF Release, Bootout, platform
<1>2. /\ ProcOK(proc') /\ (proc'.again => os = "linux")
      /\ rest => proc'.st \in {"stopping", "off"} /\ ~proc'.again
  BY <1>1, StoppedTyped, Known
<1>3. CASE Release
  <2>1. /\ cmd.op = "uninstall" /\ os # "windows" /\ cmd.at = "release"
        /\ cmd' = [cmd EXCEPT !.at = "unlink"]
        /\ job' \in {job, NoDef} /\ enabled' \in {enabled, FALSE}
    BY <1>3 DEF Release, At, Goto, IInv, Places, UninstallPlaces
  <2>2. /\ cmd'.op = cmd.op /\ cmd'.at = "unlink" /\ cmd'.existed = cmd.existed
        /\ "unlink" \in UninstallPlaces
    BY <2>1, CmdTyped, Known, OSAssumption DEF UninstallPlaces, TypeOK
  <2>3. Installing' /\ Uninstalling'
    BY <1>1, <2>1, <2>2 DEF IInv, Installing, Uninstalling
  <2>4. Proceeding
    BY <1>1, <1>2, <2>1, Known DEF Proceeding, CommandPlaces, TypeOK
  <2> QED
    BY <2>1, <2>2, <2>3, <2>4, ProceedingInv
<1>4. CASE Bootout
  <2>1. /\ cmd.op = "install" /\ cmd.env \in Env /\ cmd.at = "bootout"
        /\ os = "macos" /\ cmd' = [cmd EXCEPT !.at = "bootstrap"]
        /\ job' = NoDef /\ enabled' = enabled
    BY <1>4, OSAssumption DEF Bootout, At, Goto, IInv, TypeOK, Places, InstallPlaces
  <2>2. /\ cmd'.op = cmd.op /\ cmd'.at = "bootstrap" /\ cmd'.env = cmd.env
        /\ "bootstrap" \in InstallPlaces
    BY <2>1, CmdTyped, Known DEF InstallPlaces
  <2>3. Installing' /\ Uninstalling'
    BY <1>1, <2>1, <2>2 DEF IInv, Installing, Uninstalling
  <2>4. Proceeding
    BY <1>1, <1>2, <2>1, Known DEF Proceeding, CommandPlaces, TypeOK
  <2> QED
    BY <2>1, <2>2, <2>3, <2>4, ProceedingInv
<1> QED
  BY <1>3, <1>4

LEMMA BootstrapInv == IInv /\ Bootstrap => IInv'
<1> SUFFICES ASSUME IInv, Bootstrap PROVE IInv'
  OBVIOUS
<1>1. /\ cmd.op = "install" /\ cmd.env \in Env /\ cmd.at \in {"bootstrap", "retry"}
      /\ os = "macos" /\ file = cmd.env
  BY OSAssumption DEF Bootstrap, IInv, TypeOK, Places, Installing, InstallPlaces
<1>2. /\ cmd' = [cmd EXCEPT !.at = "report"] /\ job' = file
      /\ proc' = Launched(file) /\ orphan' = (orphan \/ Up(proc))
      /\ wanted' = TRUE /\ rest' = FALSE
      /\ UNCHANGED <<os, configured, file, enabled, linger, session, wheel, crashes,
                     promise, since>>
  BY DEF Bootstrap, Bootstrapped, Goto, platform
<1>3. cmd'.op = cmd.op /\ cmd'.at = "report" /\ cmd'.env = cmd.env
  BY <1>2, CmdTyped, Known
<1>4. ProcOK(proc') /\ ~proc'.again /\ orphan' \in BOOLEAN
  BY <1>1, <1>2, LaunchedTyped, Known DEF Up
<1>5. Installing' /\ Uninstalling'
  BY <1>1, <1>2, <1>3 DEF Installing, Uninstalling
<1>6. Proceeding
  BY <1>1, <1>2, <1>4, Known DEF Proceeding, CommandPlaces, TypeOK
<1> QED
  BY <1>1, <1>3, <1>5, <1>6, ProceedingInv DEF InstallPlaces

-----------------------------------------------------------------------------
(* The ends of a command.                                                  *)

LEMMA BeginInv == IInv /\ BeginAny => IInv'
<1> SUFFICES ASSUME IInv, BeginAny PROVE IInv'
  OBVIOUS
<1>1. PICK op \in {"install", "uninstall", "start", "stop"}, e \in Env \cup {NoDef} :
        Begin(op, e) /\ (op = "install" => e \in Env)
  BY DEF BeginAny
<1>2. /\ UNCHANGED <<os, configured, file, job, enabled, linger, session, proc,
                     orphan, wheel, crashes, since>>
      /\ promise' = (IF op \in {"install", "uninstall"} THEN NoDef ELSE promise)
      /\ rest' = (rest /\ op \notin {"install", "start"})
      /\ wanted' = (wanted /\ op \notin {"stop", "uninstall"})
  BY <1>1 DEF Begin, platform, manager
<1>3. /\ cmd' \in Command /\ cmd'.op = op /\ cmd'.env = e /\ cmd'.at = FirstCall(op)
      /\ cmd'.existed = (file # NoDef)
      /\ os \in {"windows", "macos", "linux"}
  BY <1>1, Known, OSAssumption DEF Begin, Command, FirstCall, TypeOK
<1>4. TypeOK' /\ ProcOK(proc)'
  BY <1>2, <1>3, Known DEF TypeOK, ProcOK
<1>5. Places' /\ Installing' /\ Uninstalling'
  <2>1. Places'
    BY <1>1, <1>2, <1>3 DEF Places, InstallPlaces, UninstallPlaces, FirstCall
  <2>2. Installing'
    BY <1>1, <1>2, <1>3 DEF Installing, FirstCall
  <2>3. Uninstalling'
    <3>1. cmd'.existed <=> file' # NoDef
      BY <1>2, <1>3
    <3>2. op = "uninstall" => cmd'.at \in {"call", "release"}
                              /\ (os = "windows" => cmd'.at = "call")
      BY <1>3 DEF FirstCall
    <3> QED
      BY <1>2, <1>3, <3>1, <3>2 DEF Uninstalling
  <2> QED
    BY <2>1, <2>2, <2>3
<1>6. Removed' /\ InstalledInForce'
  BY <1>2, EnvAssumption DEF IInv, Removed, InstalledInForce, AtLogin
<1>7. Resting' /\ StopHolds'
  BY <1>2, <1>3, Known DEF Resting, StopHolds
<1> QED
  BY <1>4, <1>5, <1>6, <1>7 DEF IInv

LEMMA ReportInv == IInv /\ Report => IInv'
<1> SUFFICES ASSUME IInv, Report PROVE IInv'
  OBVIOUS
<1>1. /\ UNCHANGED <<os, configured, file, job, enabled, linger, session, proc,
                     orphan, wheel, crashes, rest, wanted>>
      /\ cmd.at = "report" /\ cmd' = Idle /\ since' = FALSE
      /\ promise' = (IF cmd.op = "install" THEN cmd.env ELSE "removed")
  BY DEF Report, platform, manager
<1>2. /\ cmd.op \in {"install", "uninstall"} /\ (cmd.op = "install" => cmd.env \in Env)
      /\ os \in {"windows", "macos", "linux"}
  BY <1>1, OSAssumption DEF IInv, TypeOK, Command, Places
<1>3. TypeOK' /\ ProcOK(proc)'
  <2>1. promise' \in Env \cup {NoDef, "removed"}
    BY <1>1, <1>2
  <2>2. TypeOK'
    BY <1>1, <2>1, IdleTyped, Known DEF TypeOK
  <2> QED
    BY <1>1, <2>2, Known
<1>4. Places' /\ Installing' /\ Uninstalling'
  BY <1>1, IdleTyped DEF Places, Installing, Uninstalling
<1>5. Removed'
  BY <1>1, <1>2, EnvAssumption DEF IInv, Uninstalling, Removed
<1>6. InstalledInForce'
  BY <1>1, <1>2, EnvAssumption DEF IInv, Installing, InstalledInForce, AtLogin
<1>7. Resting' /\ StopHolds'
  BY <1>1, IdleTyped, Known DEF Resting, StopHolds
<1> QED
  BY <1>3, <1>4, <1>5, <1>6, <1>7 DEF IInv

(* A start loads, at most, what is on disk, and there is something.        *)
LEMMA StartInv == IInv /\ Start => IInv'
<1> SUFFICES ASSUME IInv, Start PROVE IInv'
  OBVIOUS
<1>1. /\ UNCHANGED <<os, configured, file, enabled, linger, session, orphan, wheel,
                     crashes, promise, since, rest>>
      /\ cmd.op = "start" /\ cmd' = Idle /\ wanted' = TRUE
      /\ Startable # NoDef /\ job' = Startable
      /\ job = job' \/ (os = "linux" /\ job = NoDef /\ job' = file)
  BY DEF Start, At, Startable, platform
<1>2. ~rest /\ job' \in Env /\ os \in {"windows", "macos", "linux"}
  BY <1>1, Known, OSAssumption DEF TypeOK
<1>3. ProcOK(proc') /\ (proc'.again => os = "linux")
  <2>1. ProcOK(Launched(Startable)) /\ ~Launched(Startable).again
    BY <1>1, <1>2, Known, LaunchedTyped
  <2>2. \/ proc' = Launched(Startable) \/ proc' = proc
        \/ os = "linux" /\ Up(proc) /\ proc' = [proc EXCEPT !.again = TRUE]
    <3>1. CASE os = "macos" \/ ~Up(proc)
      BY <3>1 DEF Start
    <3>2. CASE ~(os = "macos" \/ ~Up(proc)) /\ os = "linux" /\ proc.told
      BY <3>2 DEF Start
    <3>3. CASE ~(os = "macos" \/ ~Up(proc)) /\ ~(os = "linux" /\ proc.told)
      BY <3>3 DEF Start
    <3> QED
      BY <3>1, <3>2, <3>3
  <2> DEFINE x == [proc EXCEPT !.again = TRUE]
  <2>3. Up(proc) => ProcOK(x)
    BY Known, ChangedTyped DEF Living
  <2> HIDE DEF x
  <2>4. CASE proc' = Launched(Startable)
    BY <2>1, <2>4
  <2>5. CASE proc' = proc
    BY <2>5, Known
  <2>6. CASE os = "linux" /\ Up(proc) /\ proc' = x
    BY <2>3, <2>6
  <2> QED
    BY <2>2, <2>4, <2>5, <2>6 DEF x
<1>4. TypeOK'
  BY <1>1, <1>2, <1>3, IdleTyped, Known DEF TypeOK, ProcOK
<1>5. Places' /\ Installing' /\ Uninstalling'
  BY <1>1, IdleTyped DEF Places, Installing, Uninstalling
<1>6. Removed'
  BY <1>1, <1>2, EnvAssumption DEF IInv, Removed
<1>7. InstalledInForce'
  BY <1>1, <1>2, EnvAssumption DEF IInv, InstalledInForce, AtLogin
<1>8. Resting' /\ StopHolds'
  BY <1>1, <1>2, <1>3, IdleTyped DEF Resting, StopHolds
<1> QED
  BY <1>3, <1>4, <1>5, <1>6, <1>7, <1>8 DEF IInv

-----------------------------------------------------------------------------
(* The daemon at launchd's, and the ends and beginnings of user managers.  *)

LEMMA LaunchdInv == IInv /\ (RestartBootout \/ RestartBootstrap) => IInv'
<1> SUFFICES ASSUME IInv, RestartBootout \/ RestartBootstrap PROVE IInv'
  OBVIOUS
<1>1. /\ UNCHANGED <<os, configured, file, enabled, linger, session, wheel, cmd,
                     crashes, promise, since>>
      /\ os = "macos" /\ wanted' \in BOOLEAN
      /\ job' = NoDef \/ (job' = file /\ file # NoDef)
      /\ rest' = rest \/ rest' = FALSE
  BY DEF RestartBootout, RestartBootstrap, Bootstrapped, platform
<1>2. Up(proc) /\ proc # Off
  BY Known DEF RestartBootout, RestartBootstrap, ProcOK, Up
<1>3. /\ ProcOK(proc') /\ ~proc'.again /\ orphan' \in BOOLEAN
      /\ (rest' => rest /\ proc'.st \in {"stopping", "off"})
  <2>1. CASE RestartBootout
    <3> DEFINE x == [Stopped(proc) EXCEPT !.self = "rerun"]
    <3>1. ProcOK(Stopped(proc)) /\ Up(Stopped(proc)) /\ ~Stopped(proc).again
          /\ Stopped(proc).st \in {"stopping", "off"}
      BY <1>2, StoppedTyped, Known DEF Stopped, Up, ProcOK, Process
    <3>2. ProcOK(x) /\ ~x.again /\ x.st \in {"stopping", "off"}
      BY <3>1, ChangedTyped DEF Living
    <3>3. (proc' = Off \/ proc' = x) /\ UNCHANGED <<orphan, rest>>
      BY <2>1 DEF RestartBootout
    <3> HIDE DEF x
    <3> QED
      BY <3>2, <3>3, OffTyped, Known
  <2>2. CASE RestartBootstrap
    <3>1. /\ file \in Env /\ proc' = Launched(file) /\ rest' = FALSE
          /\ orphan' = (orphan \/ Up(proc))
      BY <2>2, Known DEF RestartBootstrap, Bootstrapped
    <3> QED
      BY <1>2, <3>1, LaunchedTyped, Known
  <2> QED
    BY <2>1, <2>2
<1>4. TypeOK'
  BY <1>1, <1>3, Known DEF TypeOK, ProcOK
<1>5. Places' /\ Installing' /\ Uninstalling'
  BY <1>1 DEF IInv, Places, Installing, Uninstalling, InstallPlaces, UninstallPlaces
<1>6. Removed' /\ InstalledInForce'
  BY <1>1, <1>2 DEF IInv, Removed, InstalledInForce, AtLogin
<1>7. Resting' /\ StopHolds'
  BY <1>1, <1>3, Known DEF Resting, StopHolds
<1> QED
  BY <1>3, <1>4, <1>5, <1>6, <1>7 DEF IInv

(* What a new user manager loads and starts is right for the last report   *)
(* and for a command in progress.                                          *)
LEMMA FreshTyped ==
    ASSUME IInv, FreshManager
    PROVE  /\ ProcOK(proc') /\ ~proc'.again /\ rest' = FALSE /\ wanted' \in BOOLEAN
           /\ job' \in Env \cup {NoDef}
           /\ job' = (IF os = "windows" THEN job ELSE file)
           /\ promise = "removed" => proc' = Off /\ job' = NoDef
<1>1. AtLogin \in Env \cup {NoDef} /\ os \in {"windows", "macos", "linux"}
  BY Known, OSAssumption DEF AtLogin, TypeOK
<1>2. promise = "removed" => AtLogin = NoDef
  BY <1>1 DEF IInv, Removed, AtLogin
<1>3. ProcOK(LaunchedIf(AtLogin)) /\ ~LaunchedIf(AtLogin).again
  BY <1>1, LaunchedIfTyped, Known
<1> QED
  BY <1>1, <1>2, <1>3, Known DEF FreshManager, LaunchedIf, IInv, Removed

LEMMA LoginInv == IInv /\ Login => IInv'
<1> SUFFICES ASSUME IInv, Login PROVE IInv'
  OBVIOUS
<1>1. /\ UNCHANGED <<os, configured, file, enabled, linger, orphan, wheel, cmd,
                     crashes, promise, since>> /\ session' = TRUE
      /\ os \in {"windows", "macos", "linux"}
  BY OSAssumption DEF Login, platform, IInv, TypeOK
<1>2. \/ UNCHANGED <<job, proc, wanted, rest>>
      \/ FreshManager
  BY DEF Login
<1>3. /\ ProcOK(proc') /\ (proc'.again => os = "linux") /\ wanted' \in BOOLEAN
      /\ job' \in Env \cup {NoDef} /\ rest' \in BOOLEAN
      /\ job' = job \/ (os # "windows" /\ job' = file)
      /\ promise = "removed" /\ since => proc' = Off /\ job' = NoDef
      /\ promise = "removed" /\ os = "windows" => job' = NoDef
      /\ rest' => rest /\ proc' = proc
  <2>1. CASE UNCHANGED <<job, proc, wanted, rest>>
    BY <2>1, Known DEF IInv, Removed
  <2>2. CASE FreshManager
    BY <2>2, FreshTyped, Known DEF IInv, Removed
  <2> QED
    BY <1>2, <2>1, <2>2
<1>4. TypeOK'
  BY <1>1, <1>3, Known DEF TypeOK, ProcOK
<1>5. Places' /\ Installing' /\ Uninstalling'
  BY <1>1, <1>3 DEF IInv, Places, Installing, Uninstalling, InstallPlaces,
                    UninstallPlaces
<1>6. Removed'
  BY <1>1, <1>3 DEF IInv, Removed
<1>7. InstalledInForce'
  BY <1>1, <1>3, EnvAssumption DEF IInv, InstalledInForce, AtLogin
<1>8. Resting' /\ StopHolds'
  BY <1>1, <1>3, Known DEF Resting, StopHolds
<1> QED
  BY <1>3, <1>4, <1>5, <1>6, <1>7, <1>8 DEF IInv

LEMMA SessionEndInv == IInv /\ (Logout \/ Reboot) => IInv'
<1> SUFFICES ASSUME IInv, Logout \/ Reboot PROVE IInv'
  OBVIOUS
<1>1. /\ UNCHANGED <<os, configured, file, enabled, linger, wheel, crashes, promise>>
      /\ session' = FALSE /\ cmd' = Idle
      /\ os \in {"windows", "macos", "linux"}
  BY OSAssumption DEF Logout, Reboot, platform, IInv, TypeOK
<1>2. \/ UNCHANGED <<job, proc, orphan, since, wanted, rest>>
      \/ (NoManager \/ FreshManager) /\ orphan' = FALSE /\ since' = TRUE
  BY DEF Logout, Reboot
<1>3. /\ ProcOK(proc') /\ (proc'.again => os = "linux") /\ wanted' \in BOOLEAN
      /\ job' \in Env \cup {NoDef} /\ rest' \in BOOLEAN
      /\ job' \in {job, NoDef} \/ (os # "windows" /\ job' = file)
      /\ promise = "removed" /\ since' => proc' = Off /\ job' = NoDef /\ ~orphan'
      /\ promise = "removed" /\ os = "windows" => job' = NoDef
      /\ rest' => rest /\ (proc' = proc \/ proc' = Off)
      /\ orphan' \in BOOLEAN /\ since' \in BOOLEAN
      /\ os = "windows" => job' = job
  <2>1. CASE UNCHANGED <<job, proc, orphan, since, wanted, rest>>
    BY <2>1, Known DEF IInv, Removed, TypeOK
  <2>2. CASE NoManager /\ orphan' = FALSE /\ since' = TRUE
    BY <2>2, OffTyped, Known DEF NoManager, IInv, Removed
  <2>3. CASE FreshManager /\ orphan' = FALSE /\ since' = TRUE
    BY <2>3, FreshTyped, Known DEF IInv, Removed
  <2> QED
    BY <1>2, <2>1, <2>2, <2>3
<1>4. TypeOK'
  BY <1>1, <1>3, IdleTyped, Known DEF TypeOK, ProcOK
<1>5. Places' /\ Installing' /\ Uninstalling'
  BY <1>1, IdleTyped DEF Places, Installing, Uninstalling
<1>6. Removed'
  BY <1>1, <1>3 DEF IInv, Removed
<1>7. InstalledInForce'
  BY <1>1, <1>3, EnvAssumption DEF IInv, InstalledInForce, AtLogin
<1>8. Resting' /\ StopHolds'
  BY <1>1, <1>3, IdleTyped, OffTyped, Known DEF Resting, StopHolds
<1> QED
  BY <1>3, <1>4, <1>5, <1>6, <1>7, <1>8 DEF IInv

-----------------------------------------------------------------------------
LEMMA InitInv == Init => IInv
<1> SUFFICES ASSUME Init PROVE IInv
  OBVIOUS
<1>1. TypeOK
  <2>1. proc \in Process /\ proc.st = "off" /\ cmd \in Command
    BY OffTyped, IdleTyped DEF Init, ProcOK
  <2>2. crashes \in 0..MaxCrashes
    BY MaxCrashesAssumption DEF Init
  <2> QED
    BY <2>1, <2>2 DEF Init, TypeOK
<1> QED
  BY <1>1, OffTyped, IdleTyped, EnvAssumption
  DEF Init, IInv, Places, Installing, Uninstalling, Removed, Resting,
      InstalledInForce, StopHolds

LEMMA StepInv == IInv /\ [Next]_vars => IInv'
<1> SUFFICES ASSUME IInv, [Next]_vars PROVE IInv'
  OBVIOUS
<1>1. CASE UNCHANGED vars
  <2>1. UNCHANGED <<os, configured, file, job, enabled, linger, session, proc, orphan,
                    wheel, cmd, crashes, promise, since, rest, wanted>>
    BY <1>1 DEF vars
  <2>2. TypeOK' /\ Places' /\ ProcOK(proc)'
    <3>1. TypeOK'
      BY <2>1, Known DEF TypeOK
    <3>2. InstallPlaces' = InstallPlaces /\ UninstallPlaces' = UninstallPlaces
      BY <2>1 DEF InstallPlaces, UninstallPlaces
    <3>3. Places'
      BY <2>1, <3>2 DEF IInv, Places
    <3> QED
      BY <2>1, <3>1, <3>3, Known
  <2>3. Installing' /\ Uninstalling' /\ Removed' /\ Resting'
    BY <2>1 DEF IInv, Installing, Uninstalling, Removed, Resting
  <2>4. InstalledInForce' /\ StopHolds'
    BY <2>1 DEF IInv, InstalledInForce, StopHolds, AtLogin
  <2> QED
    BY <2>2, <2>3, <2>4 DEF IInv
<1>2. CASE Commands
  BY <1>2, BeginInv, AbandonedInv, ReportInv, WindowsInv, InstallQuietInv, ReleaseInv,
     BootstrapInv, ReloadInv, UnlinkInv, StartInv, StopInv DEF Commands
<1>3. CASE Upgrading
  BY <1>3, SelfInv, LaunchdInv DEF Upgrading
<1>4. CASE DaemonReady \/ DaemonExit \/ DaemonCrash \/ OrphanExit \/ ManagerRestart
  BY <1>4, DaemonInv, RestartInv
<1>5. CASE Login \/ Logout \/ Reboot
  BY <1>5, LoginInv, SessionEndInv
<1> QED
  BY <1>1, <1>2, <1>3, <1>4, <1>5 DEF Next

LEMMA Invariance == Spec => []IInv
BY InitInv, StepInv, PTL DEF Spec

(* The state has its type: service_ops.py and the service managers.        *)
THEOREM Types == Spec => []TypeOK
BY Invariance, PTL DEF IInv

(* An install that reported success stays in force (service_ops.py         *)
(* install), over every failure of earlier commands and every upgrade.     *)
THEOREM InstallsStay == Spec => []InstalledInForce
BY Invariance, PTL DEF IInv

(* After an uninstall that reported success nothing is started again, and  *)
(* nothing outlives the user manager (service_ops.py uninstall).           *)
THEOREM RemovalsStay == Spec => []RemovedStaysDown
<1>1. IInv => RemovedStaysDown
  BY OSAssumption DEF IInv, TypeOK, Removed, RemovedStaysDown, AtLogin
<1> QED
  BY <1>1, Invariance, PTL

(* A stop is not undone by the manager (service_ops.py stop,               *)
(* service_gen.py KeepAlive and Restart).                                  *)
THEOREM StopsStay == Spec => []StopHolds
BY Invariance, PTL DEF IInv
=============================================================================
