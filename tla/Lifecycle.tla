----------------------------- MODULE Lifecycle -----------------------------
(***************************************************************************)
(* The daemon as a process (daemon/src/cli.ts, pid.ts, port.ts,            *)
(* shutdown.ts, server.ts) and what starts, restarts and stops it          *)
(* (lib/service.mjs, lib/reset.mjs).                                       *)
(*                                                                         *)
(* All daemons of one home share a database; the pid file is to keep a     *)
(* second one out.  It is read, then written, then the port is listened    *)
(* on, by processes that may run side by side, end at any point and leave  *)
(* pids behind that other processes get.                                   *)
(*                                                                         *)
(* The supervisor stands for systemd and launchd, which start the unit     *)
(* again whenever it ends.  The loopback companion is part of listening.   *)
(***************************************************************************)
EXTENDS Naturals, FiniteSets

CONSTANTS
  Pids,     \* pids processes may get
  MaxSteps  \* bound: steps of persons and faults

ASSUME StepsAssumption == MaxSteps \in Nat
ASSUME PidsAssumption == 0 \notin Pids

VARIABLES
  pc,       \* pid -> stage of the daemon with that pid, or "none"
  port,     \* pid -> port it has chosen
  foreign,  \* pids of other programs
  taken,    \* ports other programs listen on
  file,     \* the pid file: [pid, port], or NoFile
  enabled,  \* is the unit enabled?
  unit,     \* the unit's process, 0: none
  raced,    \* history: did a daemon pass the check while another was about to write?
  steps

lifecycleVars == <<pc, port, foreign, taken, file, enabled, unit, raced, steps>>

Ports == 1..3
NoFile == [pid |-> 0, port |-> 0]
Step == steps < MaxSteps /\ steps' = steps + 1

Daemons == {i \in Pids : pc[i] # "none"}
Unused == Pids \ (Daemons \cup foreign)
Using(stages) == {i \in Pids : pc[i] \in stages}

\* mutant: the file counts, not the process
AliveIfNamed(i) == TRUE

\* process.kill(pid, 0): some process has the pid.
Alive(i) == i \in Daemons \cup foreign

Becomes(i, stage) == pc' = [pc EXCEPT ![i] = stage]

\* The process is gone, and its listener.
Ends(i) ==
  Becomes(i, "none") /\ port' = [port EXCEPT ![i] = 0] /\ unit' = IF unit = i THEN 0 ELSE unit

-----------------------------------------------------------------------------
(* Starting *)

Spawn(i) == i \in Unused /\ Becomes(i, "selecting")

\* The unit is started, at first or again.
Supervise ==
  /\ enabled /\ unit = 0
  /\ \E i \in Pids : Spawn(i) /\ unit' = i
  /\ UNCHANGED <<port, foreign, taken, file, enabled, raced, steps>>

\* startNow: detached, without a supervisor
StartNow(i) ==
  /\ Step /\ Spawn(i)
  /\ UNCHANGED <<port, foreign, taken, file, enabled, unit, raced>>

\* Nobody listens on it.
Free(p) == p \notin taken /\ \A i \in Using({"serving"}) : port[i] # p

\* The first port that can be bound, which is then let go again.
SelectPort(i) ==
  /\ pc[i] = "selecting"
  /\ IF \E p \in Ports : Free(p)
       THEN /\ port' = [port EXCEPT ![i] = CHOOSE p \in Ports : Free(p) /\ \A q \in 1..(p - 1) : ~Free(q)]
            /\ Becomes(i, "checking") /\ unit' = unit
       ELSE Ends(i)
  /\ UNCHANGED <<foreign, taken, file, enabled, raced, steps>>

\* mutant: one that may not start removes the file as it ends
RefusedWithRelease(i) == Ends(i) /\ file' = NoFile

\* Another daemon runs: this one ends.
Refused(i) == Ends(i) /\ file' = file

\* acquirePidFile reads the file, which may name the pid this process has got.
Check(i) ==
  /\ pc[i] = "checking"
  /\ IF file # NoFile /\ file.pid # i /\ Alive(file.pid)
       THEN Refused(i) /\ raced' = raced
       ELSE /\ Becomes(i, "writing") /\ UNCHANGED <<port, unit, file>>
            /\ raced' = (raced \/ Using({"writing"}) # {})
  /\ UNCHANGED <<foreign, taken, enabled, steps>>

\* ... and writes it.
Write(i) ==
  /\ pc[i] = "writing"
  /\ file' = [pid |-> i, port |-> port[i]] /\ Becomes(i, "opening")
  /\ UNCHANGED <<port, foreign, taken, enabled, unit, raced, steps>>

\* The database is opened and the port listened on, unless it was taken meanwhile.
Listen(i) ==
  /\ pc[i] = "opening"
  /\ IF Free(port[i]) THEN Becomes(i, "serving") /\ UNCHANGED <<port, unit>> ELSE Ends(i)
  /\ UNCHANGED <<foreign, taken, file, enabled, raced, steps>>

\* The database or the companion's port cannot be had; the pid file stays.
OpenFails(i) ==
  /\ Step /\ pc[i] = "opening" /\ Ends(i)
  /\ UNCHANGED <<foreign, taken, file, enabled, raced>>

-----------------------------------------------------------------------------
(* Ending *)

\* What n signals make of a daemon: the first has it drain, its listener closed and
\* requests under way going on; one more ends it, as does any before the handler is wired.
After(stage, n) ==
  IF n = 0 THEN stage ELSE IF stage = "serving" /\ n = 1 THEN "draining" ELSE "none"

\* mutant: the pid file is released when the drain begins
ReleasesAtOnce(stage, n) == n > 0 /\ stage \in {"serving", "draining"}

\* A drain that is cut short releases the pid file, whoever wrote it.
Releases(stage, n) == n > 0 /\ stage \in {"serving", "draining"} /\ After(stage, n) = "none"

\* Each process gets so many signals, and new ones are spawned.
Signalled(hits, new) ==
  /\ pc' = [i \in Pids |-> IF i \in new THEN "selecting" ELSE After(pc[i], hits[i])]
  /\ port' = [i \in Pids |-> IF pc'[i] = "none" THEN 0 ELSE port[i]]
  /\ file' = IF \E i \in Pids : Releases(pc[i], hits[i]) THEN NoFile ELSE file
  /\ unit' = IF \E i \in Pids : i = unit /\ pc'[i] # "none" THEN unit ELSE 0
  /\ foreign' = {i \in foreign : hits[i] = 0}

Once(i) == [j \in Pids |-> IF j = i THEN 1 ELSE 0]

\* A person signals the process: Ctrl-C, or systemctl restart, which waits for its end.
SignalDaemon(i) ==
  /\ Step /\ i \in Daemons /\ Signalled(Once(i), {})
  /\ UNCHANGED <<taken, enabled, raced>>

\* Requests have ended or, after the grace period, were cut off.
Drained(i) == pc[i] = "draining"

Drain(i) ==
  /\ Drained(i) /\ Ends(i) /\ file' = NoFile
  /\ UNCHANGED <<foreign, taken, enabled, raced, steps>>

\* A crash or SIGKILL
Kill(i) ==
  /\ Step /\ i \in Daemons /\ Ends(i)
  /\ UNCHANGED <<foreign, taken, file, enabled, raced>>

\* Where nothing supervises: SIGTERM to the pid in the file, whatever has it by now,
\* and a new daemon at once.
RestartByPid(i) ==
  /\ Step /\ ~enabled /\ i \in Unused /\ Signalled(Once(file.pid), {i})
  /\ UNCHANGED <<taken, enabled, raced>>

\* installService
Install ==
  /\ Step /\ ~enabled /\ enabled' = TRUE
  /\ UNCHANGED <<pc, port, foreign, taken, file, unit, raced>>

\* stopService: SIGTERM to the pid in the file, then to the process of the unit.
StopService ==
  /\ Step /\ enabled /\ enabled' = FALSE
  /\ Signalled([i \in Pids |-> Once(file.pid)[i] + Once(unit)[i]], {})
  /\ UNCHANGED <<taken, raced>>

-----------------------------------------------------------------------------
(* Other programs *)

\* One of them gets a pid that may be in the file (bound: one at a time).
GetsPid(i) ==
  /\ Step /\ foreign = {} /\ i \in Unused /\ foreign' = foreign \cup {i}
  /\ UNCHANGED <<pc, port, taken, file, enabled, unit, raced>>

TakesPort(p) ==
  /\ Step /\ Free(p) /\ taken' = taken \cup {p}
  /\ UNCHANGED <<pc, port, foreign, file, enabled, unit, raced>>

-----------------------------------------------------------------------------
LifecycleInit ==
  /\ pc = [i \in Pids |-> "none"] /\ port = [i \in Pids |-> 0]
  /\ foreign = {} /\ taken = {} /\ file = NoFile
  /\ enabled \in BOOLEAN /\ unit = 0 /\ raced = FALSE /\ steps = 0

Runs(i) == SelectPort(i) \/ Check(i) \/ Write(i) \/ Listen(i) \/ Drain(i)

LifecycleNext ==
  \/ Supervise \/ Install \/ StopService
  \/ \E p \in Ports : TakesPort(p)
  \/ \E i \in Pids :
       \/ StartNow(i) \/ Runs(i) \/ OpenFails(i) \/ Kill(i) \/ SignalDaemon(i)
       \/ RestartByPid(i) \/ GetsPid(i)

\* The supervisor and the processes run; drains have a deadline.
LifecycleSpec ==
  /\ LifecycleInit /\ [][LifecycleNext]_lifecycleVars
  /\ WF_lifecycleVars(Supervise) /\ \A i \in Pids : WF_lifecycleVars(Runs(i))

-----------------------------------------------------------------------------
(* Properties. *)

Stages == {"none", "selecting", "checking", "writing", "opening", "serving", "draining"}

\* Types; a port has one listener, the unit is a daemon, and no pid is used twice.
TypeOK ==
  /\ pc \in [Pids -> Stages] /\ port \in [Pids -> Ports \cup {0}]
  /\ \A i \in Pids : port[i] = 0 <=> pc[i] \in {"none", "selecting"}
  /\ \A i, j \in Using({"serving"}) : port[i] = port[j] => i = j
  /\ foreign \subseteq Pids \ Daemons /\ taken \subseteq Ports
  /\ file \in [pid : Pids \cup {0}, port : Ports \cup {0}]
  /\ {enabled, raced} \subseteq BOOLEAN
  /\ unit \in Daemons \cup {0}
  /\ steps \in 0..MaxSteps

\* Two daemons use the database only after both had passed the check before either
\* wrote the file: crashes, restarts, reused pids and signals while one drains do not
\* let a second one in ("already_running").
OneDaemon == ~raced => Cardinality(Using({"opening", "serving", "draining"})) <= 1

\* Clients find the daemon by the pid file: it names the one that serves, and its port.
FileNamesDaemon ==
  ~raced => \A i \in Using({"serving"}) : file = [pid |-> i, port |-> port[i]]

\* While the unit is enabled some daemon serves again and again, unless every port
\* is taken or another program has the pid in the file.
ServesAgain ==
  enabled ~> (\/ ~enabled \/ Using({"serving"}) # {}
              \/ taken = Ports \/ file.pid \in foreign)
=============================================================================
