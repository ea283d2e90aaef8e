---------------------------- MODULE Daemon_proofs ----------------------------
(***************************************************************************)
(* Theorems about the daemon: its processes and pid file (Lifecycle), for  *)
(* any pids and number of steps, and the MCP sessions it serves            *)
(* (Sessions), for any number of sessions, of moves and of orphans it      *)
(* allows.                                                                 *)
(*                                                                         *)
(* That the file names the serving daemon is not inductive: it must name a *)
(* daemon from when that has written it until its drain is over, and while *)
(* one is about to write, nobody else may be past the check.               *)
(*                                                                         *)
(* SessionsInv adds to the properties what makes them inductive: what each *)
(* map of the daemon may name (a name or a sink only a session that acts   *)
(* for an agent, the Claude agent only one that was bound, the wake        *)
(* subscription only an open one), and that a session that is not open is  *)
(* blank.  The id the next initialize takes is then named nowhere.         *)
(***************************************************************************)
EXTENDS Lifecycle, Sessions, TLAPS, FiniteSetTheorems

-----------------------------------------------------------------------------
(* The processes and the pid file *)

Holding == {"opening", "serving", "draining"}

\* The file names whoever uses the database.
FileNamesHolder ==
  ~raced => \A i \in Using(Holding) : file = [pid |-> i, port |-> port[i]]

\* Who is about to write the file is alone past the check.
WritesAlone ==
  ~raced => \A i \in Using({"writing"}), j \in Using(Holding \cup {"writing"}) : i = j

LifeInv == TypeOK /\ FileNamesHolder /\ WritesAlone

-----------------------------------------------------------------------------
(* Starting. *)

\* A process that is spawned gets a pid that nobody has.
LEMMA SpawnStep ==
  ASSUME LifeInv, NEW i \in Pids, Spawn(i),
         UNCHANGED <<port, foreign, taken, file, enabled, raced>>,
         unit' \in {unit, i}, steps' \in 0..MaxSteps
  PROVE  LifeInv'
<1>1. /\ pc \in [Pids -> Stages] /\ pc' = [pc EXCEPT ![i] = "selecting"]
      /\ pc[i] = "none" /\ i \notin foreign
  BY DEF LifeInv, TypeOK, Spawn, Unused, Becomes, Daemons
<1>2. Daemons' = Daemons \cup {i} /\ i \notin Daemons
  BY <1>1 DEF Daemons, Stages
<1>3. \A stages : "selecting" \notin stages /\ "none" \notin stages => Using(stages)' = Using(stages)
  BY <1>1 DEF Using
<1>4. pc' \in [Pids -> Stages]
  BY <1>1 DEF Stages
<1>5. TypeOK'
  BY <1>1, <1>2, <1>3, <1>4 DEF LifeInv, TypeOK
<1>6. FileNamesHolder' /\ WritesAlone'
  BY <1>3 DEF LifeInv, FileNamesHolder, WritesAlone, Holding
<1>7. QED BY <1>5, <1>6 DEF LifeInv

\* A process that ends uses nothing any more; the file may be left as it is,
\* or released by a daemon whose drain is over.
LEMMA EndStep ==
  ASSUME LifeInv, NEW i \in Daemons, Ends(i),
         UNCHANGED <<foreign, taken, enabled, raced>>, steps' \in 0..MaxSteps,
         file' = file \/ (file' = NoFile /\ pc[i] = "draining")
  PROVE  LifeInv'
<1>1. /\ pc \in [Pids -> Stages] /\ pc' = [pc EXCEPT ![i] = "none"]
      /\ port \in [Pids -> Ports \cup {0}] /\ port' = [port EXCEPT ![i] = 0]
      /\ unit' = IF unit = i THEN 0 ELSE unit
      /\ i \in Pids /\ pc[i] # "none"
  BY DEF LifeInv, TypeOK, Ends, Becomes, Daemons
<1>2. Daemons' = Daemons \ {i}
  BY <1>1 DEF Daemons
<1>3. \A stages : "none" \notin stages => Using(stages)' = Using(stages) \ {i}
  BY <1>1 DEF Using
<1>4. pc' \in [Pids -> Stages] /\ port' \in [Pids -> Ports \cup {0}]
  BY <1>1 DEF Stages
<1>5. \A j \in Pids : port'[j] = 0 <=> pc'[j] \in {"none", "selecting"}
  BY <1>1 DEF LifeInv, TypeOK
<1>6. \A j, k \in Using({"serving"})' : port'[j] = port'[k] => j = k
  BY <1>1, <1>3 DEF LifeInv, TypeOK, Using
<1>7. file' \in [pid : Pids \cup {0}, port : Ports \cup {0}]
  BY DEF LifeInv, TypeOK, NoFile
<1>8. unit' \in Daemons' \cup {0} /\ foreign' \subseteq Pids \ Daemons'
  BY <1>1, <1>2 DEF LifeInv, TypeOK
<1>9. TypeOK'
  BY <1>4, <1>5, <1>6, <1>7, <1>8 DEF LifeInv, TypeOK
<1>10. FileNamesHolder'
  <2>1. SUFFICES ASSUME ~raced, NEW j \in Using(Holding) \ {i}
                 PROVE  file' = [pid |-> j, port |-> port'[j]]
    BY <1>3 DEF FileNamesHolder, Holding
  <2>2. j \in Pids /\ port'[j] = port[j] /\ file = [pid |-> j, port |-> port[j]]
    BY <1>1, <2>1 DEF LifeInv, FileNamesHolder, Using
  <2>3. CASE file' = file
    BY <2>2, <2>3
  <2>4. CASE file' = NoFile /\ pc[i] = "draining"
    <3>1. file = [pid |-> i, port |-> port[i]]
      BY <1>1, <2>1, <2>4 DEF LifeInv, FileNamesHolder, Using, Holding
    <3>2. file.pid = i /\ file.pid = j
      BY <2>2, <3>1
    <3>3. QED BY <2>1, <3>2
  <2>5. QED BY <2>3, <2>4
<1>11. WritesAlone'
  BY <1>3 DEF LifeInv, WritesAlone, Holding
<1>12. QED BY <1>9, <1>10, <1>11 DEF LifeInv

\* The port that is chosen is one that nobody listens on.
LEMMA SelectPortStep ==
  ASSUME LifeInv, NEW i \in Pids, SelectPort(i)
  PROVE  LifeInv'
<1>1. /\ pc \in [Pids -> Stages] /\ port \in [Pids -> Ports \cup {0}] /\ pc[i] = "selecting"
      /\ UNCHANGED <<foreign, taken, file, enabled, raced, steps>>
  BY DEF LifeInv, TypeOK, SelectPort
<1>2. CASE \E p \in Ports : Free(p)
  <2> DEFINE First(p) == Free(p) /\ \A q \in 1..(p - 1) : ~Free(q)
  <2>1. \E p \in Ports : First(p)
    <3>1. CASE Free(1)
      BY <3>1 DEF Ports
    <3>2. CASE ~Free(1) /\ Free(2)
      BY <3>2 DEF Ports
    <3>3. CASE ~Free(1) /\ ~Free(2) /\ Free(3)
      BY <3>3 DEF Ports
    <3>4. QED BY <1>2, <3>1, <3>2, <3>3 DEF Ports
  <2>2. PICK p \in Ports : port' = [port EXCEPT ![i] = p]
    BY <1>2, <2>1 DEF SelectPort
  <2>3. pc' = [pc EXCEPT ![i] = "checking"] /\ unit' = unit
    BY <1>2 DEF SelectPort, Becomes
  <2>4. \A stages : {"selecting", "checking"} \cap stages = {} => Using(stages)' = Using(stages)
    BY <1>1, <2>3 DEF Using
  <2>5. Daemons' = Daemons
    BY <1>1, <2>3 DEF Daemons
  <2>6. pc' \in [Pids -> Stages] /\ port' \in [Pids -> Ports \cup {0}]
    BY <1>1, <2>2, <2>3 DEF Stages
  <2>7. \A j \in Pids : port'[j] = 0 <=> pc'[j] \in {"none", "selecting"}
    BY <1>1, <2>2, <2>3 DEF LifeInv, TypeOK, Ports
  <2>8. \A stages : {"selecting", "checking"} \cap stages = {} =>
          \A j \in Using(stages) : port'[j] = port[j]
    BY <1>1, <2>2 DEF Using
  <2>9. \A j, k \in Using({"serving"})' : port'[j] = port'[k] => j = k
    BY <2>4, <2>8 DEF LifeInv, TypeOK
  <2>10. TypeOK'
    BY <1>1, <2>3, <2>5, <2>6, <2>7, <2>9 DEF LifeInv, TypeOK
  <2>11. FileNamesHolder'
    BY <1>1, <2>4, <2>8 DEF LifeInv, FileNamesHolder, Holding
  <2>12. WritesAlone'
    BY <1>1, <2>4 DEF LifeInv, WritesAlone, Holding
  <2>13. QED BY <2>10, <2>11, <2>12 DEF LifeInv
<1>3. CASE ~\E p \in Ports : Free(p)
  <2>1. Ends(i) /\ i \in Daemons /\ steps' \in 0..MaxSteps
    BY <1>1, <1>3 DEF SelectPort, Daemons, LifeInv, TypeOK
  <2>2. QED BY <1>1, <2>1, EndStep
<1>4. QED BY <1>2, <1>3

\* A process that keeps its port goes one stage on; its place in the file and
\* its being alone are for the caller to show.
LEMMA StageStep ==
  ASSUME LifeInv, NEW i \in Pids, NEW stage \in Stages,
         pc' = [pc EXCEPT ![i] = stage], pc[i] \notin {"none", "selecting"},
         stage \notin {"none", "selecting"},
         stage = "serving" => \A j \in Using({"serving"}) : port[j] # port[i],
         UNCHANGED <<port, unit, foreign, taken, enabled, steps>>,
         raced' \in BOOLEAN, file' \in [pid : Pids \cup {0}, port : Ports \cup {0}]
  PROVE  TypeOK'
<1>1. pc \in [Pids -> Stages] /\ pc' \in [Pids -> Stages]
  BY DEF LifeInv, TypeOK
<1>2. Daemons' = Daemons
  BY <1>1 DEF Daemons
<1>3. \A j \in Pids : port'[j] = 0 <=> pc'[j] \in {"none", "selecting"}
  BY <1>1 DEF LifeInv, TypeOK
<1>4. \A j \in Using({"serving"})' : j \in Using({"serving"}) \/ (j = i /\ stage = "serving")
  BY <1>1 DEF Using
<1>5. \A j, k \in Using({"serving"})' : port'[j] = port'[k] => j = k
  BY <1>4 DEF LifeInv, TypeOK
<1>6. QED BY <1>1, <1>2, <1>3, <1>5 DEF LifeInv, TypeOK

\* The check lets nobody past while the file names a daemon.
LEMMA CheckStep ==
  ASSUME LifeInv, NEW i \in Pids, Check(i)
  PROVE  LifeInv'
<1>1. pc \in [Pids -> Stages] /\ pc[i] = "checking" /\ i \in Daemons
  BY DEF LifeInv, TypeOK, Check, Daemons
<1>2. CASE file # NoFile /\ file.pid # i /\ Alive(file.pid)
  <2>1. Ends(i) /\ UNCHANGED <<file, raced, foreign, taken, enabled, steps>>
    BY <1>2 DEF Check, Refused
  <2>2. steps' \in 0..MaxSteps
    BY <2>1 DEF LifeInv, TypeOK
  <2>3. QED BY <1>1, <2>1, <2>2, EndStep
<1>3. CASE ~(file # NoFile /\ file.pid # i /\ Alive(file.pid))
  <2>1. /\ pc' = [pc EXCEPT ![i] = "writing"]
        /\ UNCHANGED <<port, unit, file, foreign, taken, enabled, steps>>
        /\ raced' = (raced \/ Using({"writing"}) # {})
    BY <1>3 DEF Check, Becomes
  <2>2. TypeOK'
    <3>1. raced' \in BOOLEAN /\ file' \in [pid : Pids \cup {0}, port : Ports \cup {0}]
      BY <2>1 DEF LifeInv, TypeOK
    <3>2. QED BY <1>1, <2>1, <3>1, StageStep DEF Stages
  <2>3. Using(Holding)' = Using(Holding) /\ Using({"writing"})' = Using({"writing"}) \cup {i}
    BY <1>1, <2>1 DEF Using, Holding
  <2>4. FileNamesHolder'
    BY <2>1, <2>3 DEF LifeInv, FileNamesHolder
  <2>5. ~raced => Using(Holding) = {}
    <3>1. SUFFICES ASSUME ~raced, NEW j \in Using(Holding) PROVE FALSE
      OBVIOUS
    <3>2. file = [pid |-> j, port |-> port[j]] /\ j \in Pids /\ pc[j] \in Holding
      BY <3>1 DEF LifeInv, FileNamesHolder, Using
    <3>3. file.pid = j /\ j # 0 /\ j # i /\ Alive(j)
      BY <1>1, <3>2, PidsAssumption DEF Holding, Alive, Daemons
    <3>4. file # NoFile
      <4>1. NoFile.pid = 0
        BY DEF NoFile
      <4>2. QED BY <3>3, <4>1
    <3>5. QED BY <1>3, <3>3, <3>4
  <2>6. ~raced' => Using(Holding \cup {"writing"})' = {i}
    <3>1. Using(Holding \cup {"writing"})' = Using(Holding)' \cup Using({"writing"})'
      BY DEF Using
    <3>2. QED BY <2>1, <2>3, <2>5, <3>1
  <2>7. WritesAlone'
    BY <2>3, <2>6 DEF WritesAlone, Using
  <2>8. QED BY <2>2, <2>4, <2>7 DEF LifeInv
<1>4. QED BY <1>2, <1>3

\* Who writes the file was alone.
LEMMA WriteStep ==
  ASSUME LifeInv, NEW i \in Pids, Write(i)
  PROVE  LifeInv'
<1>1. /\ pc \in [Pids -> Stages] /\ pc[i] = "writing" /\ pc' = [pc EXCEPT ![i] = "opening"]
      /\ file' = [pid |-> i, port |-> port[i]]
      /\ UNCHANGED <<port, unit, foreign, taken, enabled, raced, steps>>
      /\ port[i] \in Ports \cup {0}
  BY DEF LifeInv, TypeOK, Write, Becomes
<1>2. TypeOK'
  <2>1. file' \in [pid : Pids \cup {0}, port : Ports \cup {0}] /\ raced' \in BOOLEAN
    BY <1>1 DEF LifeInv, TypeOK
  <2>2. QED BY <1>1, <2>1, StageStep DEF Stages
<1>3. ~raced => \A j \in Using(Holding \cup {"writing"}) : i = j
  BY <1>1 DEF LifeInv, WritesAlone, Using
<1>4. Using(Holding)' \subseteq Using(Holding \cup {"writing"})
  BY <1>1 DEF Using, Holding
<1>5. FileNamesHolder'
  BY <1>1, <1>3, <1>4 DEF FileNamesHolder
<1>6. ~raced => Using({"writing"})' = {}
  BY <1>1, <1>3 DEF Using
<1>7. WritesAlone'
  BY <1>1, <1>6 DEF WritesAlone
<1>8. QED BY <1>2, <1>5, <1>7 DEF LifeInv

LEMMA ListenStep ==
  ASSUME LifeInv, NEW i \in Pids, Listen(i)
  PROVE  LifeInv'
<1>1. pc \in [Pids -> Stages] /\ pc[i] = "opening" /\ i \in Daemons
      /\ UNCHANGED <<foreign, taken, file, enabled, raced, steps>>
  BY DEF LifeInv, TypeOK, Listen, Daemons
<1>2. CASE Free(port[i])
  <2>1. pc' = [pc EXCEPT ![i] = "serving"] /\ UNCHANGED <<port, unit>>
    BY <1>2 DEF Listen, Becomes
  <2>2. TypeOK'
    <3>1. \A j \in Using({"serving"}) : port[j] # port[i]
      BY <1>2 DEF Free
    <3>2. file' \in [pid : Pids \cup {0}, port : Ports \cup {0}] /\ raced' \in BOOLEAN
      BY <1>1 DEF LifeInv, TypeOK
    <3>3. QED BY <1>1, <2>1, <3>1, <3>2, StageStep DEF Stages
  <2>3. Using(Holding)' = Using(Holding) /\ Using({"writing"})' = Using({"writing"})
        /\ Using(Holding \cup {"writing"})' = Using(Holding \cup {"writing"})
    BY <1>1, <2>1 DEF Using, Holding
  <2>4. FileNamesHolder' /\ WritesAlone'
    BY <1>1, <2>1, <2>3 DEF LifeInv, FileNamesHolder, WritesAlone
  <2>5. QED BY <2>2, <2>4 DEF LifeInv
<1>3. CASE ~Free(port[i])
  <2>1. Ends(i) /\ steps' \in 0..MaxSteps
    BY <1>1, <1>3 DEF Listen, LifeInv, TypeOK
  <2>2. QED BY <1>1, <2>1, EndStep
<1>4. QED BY <1>2, <1>3

-----------------------------------------------------------------------------
(* Ending. *)

\* However many processes are signalled at once: those that remain go no
\* further than draining, and the file is released only by the one it names.
LEMMA SignalledStep ==
  ASSUME LifeInv, NEW hits \in [Pids -> Nat], NEW new \in SUBSET Unused, Signalled(hits, new),
         UNCHANGED <<taken, raced>>, enabled' \in BOOLEAN, steps' \in 0..MaxSteps
  PROVE  LifeInv'
<1>1. /\ pc \in [Pids -> Stages] /\ port \in [Pids -> Ports \cup {0}]
      /\ \A i \in Pids : port[i] = 0 <=> pc[i] \in {"none", "selecting"}
  BY DEF LifeInv, TypeOK
<1>2. /\ pc' = [i \in Pids |-> IF i \in new THEN "selecting" ELSE After(pc[i], hits[i])]
      /\ port' = [i \in Pids |-> IF pc'[i] = "none" THEN 0 ELSE port[i]]
      /\ file' = IF \E i \in Pids : Releases(pc[i], hits[i]) THEN NoFile ELSE file
      /\ unit' = IF \E i \in Pids : i = unit /\ pc'[i] # "none" THEN unit ELSE 0
      /\ foreign' \subseteq foreign
  BY DEF Signalled
<1>3. \A i \in new : i \in Pids /\ pc[i] = "none" /\ i \notin foreign
  BY DEF Unused, Daemons
<1>4. \A i \in Pids : \/ i \in new /\ pc'[i] = "selecting"
                      \/ i \notin new /\ pc'[i] = "none"
                      \/ i \notin new /\ pc'[i] = pc[i]
                      \/ i \notin new /\ pc[i] = "serving" /\ pc'[i] = "draining"
  BY <1>2 DEF After
<1>5. pc' \in [Pids -> Stages] /\ port' \in [Pids -> Ports \cup {0}]
  BY <1>1, <1>2, <1>4 DEF Stages
<1>6. \A i \in Pids : port'[i] = 0 <=> pc'[i] \in {"none", "selecting"}
  BY <1>1, <1>2, <1>3, <1>4
<1>7. \A i \in Pids : pc'[i] \notin {"none", "selecting"} => port'[i] = port[i]
  BY <1>2
<1>8. /\ Using({"serving"})' \subseteq Using({"serving"})
      /\ Using({"writing"})' \subseteq Using({"writing"})
      /\ Using(Holding)' \subseteq Using(Holding)
      /\ Using(Holding \cup {"writing"})' \subseteq Using(Holding \cup {"writing"})
  BY <1>4 DEF Using, Holding
<1>9. Daemons' \subseteq Daemons \cup new
  BY <1>4 DEF Daemons
<1>10. TypeOK'
  <2>1. \A i, j \in Using({"serving"})' : port'[i] = port'[j] => i = j
    BY <1>7, <1>8 DEF LifeInv, TypeOK, Using
  <2>2. foreign' \subseteq Pids \ Daemons'
    BY <1>2, <1>3, <1>9 DEF LifeInv, TypeOK
  <2>3. unit' \in Daemons' \cup {0}
    BY <1>2 DEF Daemons
  <2>4. file' \in [pid : Pids \cup {0}, port : Ports \cup {0}]
    BY <1>2 DEF LifeInv, TypeOK, NoFile
  <2>5. QED BY <1>5, <1>6, <2>1, <2>2, <2>3, <2>4 DEF LifeInv, TypeOK
<1>11. FileNamesHolder'
  <2>1. SUFFICES ASSUME ~raced, NEW i \in Using(Holding)'
                 PROVE  file' = [pid |-> i, port |-> port'[i]]
    BY DEF FileNamesHolder
  <2>2. i \in Pids /\ i \in Using(Holding) /\ pc'[i] \in Holding
    BY <1>8, <2>1 DEF Using
  <2>3. file = [pid |-> i, port |-> port'[i]]
    BY <1>7, <2>1, <2>2 DEF LifeInv, FileNamesHolder, Holding
  <2>4. ASSUME NEW k \in Pids, Releases(pc[k], hits[k]) PROVE FALSE
    <3>1. pc[k] \in Holding /\ After(pc[k], hits[k]) = "none"
      BY <2>4 DEF Releases, Holding
    <3>2. file = [pid |-> k, port |-> port[k]]
      BY <2>1, <3>1 DEF LifeInv, FileNamesHolder, Using
    <3>3. file.pid = k /\ file.pid = i
      BY <2>3, <3>2
    <3>4. pc'[k] \in {"none", "selecting"}
      BY <1>2, <3>1
    <3>5. QED BY <2>2, <3>3, <3>4 DEF Holding
  <2>5. QED BY <1>2, <2>3, <2>4
<1>12. WritesAlone'
  BY <1>8 DEF LifeInv, WritesAlone
<1>13. QED BY <1>10, <1>11, <1>12 DEF LifeInv

\* Signals are counted.
LEMMA OnceCounts == \A i : Once(i) \in [Pids -> 0..1]
BY DEF Once

-----------------------------------------------------------------------------
(* The theorems. *)

LEMMA LifeInit == LifecycleInit => LifeInv
<1> SUFFICES ASSUME LifecycleInit PROVE LifeInv
  OBVIOUS
<1>1. \A stages : "none" \notin stages => Using(stages) = {}
  BY DEF LifecycleInit, Using
<1>2. Daemons = {}
  BY DEF LifecycleInit, Daemons
<1>3. TypeOK
  <2>1. pc \in [Pids -> Stages] /\ port \in [Pids -> Ports \cup {0}]
    BY DEF LifecycleInit, Stages
  <2>2. \A i \in Pids : port[i] = 0 /\ pc[i] = "none"
    BY DEF LifecycleInit
  <2>3. file \in [pid : Pids \cup {0}, port : Ports \cup {0}]
    BY DEF LifecycleInit, NoFile
  <2>4. steps \in 0..MaxSteps
    BY StepsAssumption DEF LifecycleInit
  <2>5. foreign = {} /\ taken = {} /\ unit = 0 /\ {enabled, raced} \subseteq BOOLEAN
    BY DEF LifecycleInit
  <2>6. QED BY <1>1, <1>2, <2>1, <2>2, <2>3, <2>4, <2>5 DEF TypeOK
<1>4. QED BY <1>1, <1>3 DEF LifeInv, FileNamesHolder, WritesAlone, Holding

LEMMA LifeStep == LifeInv /\ [LifecycleNext]_lifecycleVars => LifeInv'
<1> SUFFICES ASSUME LifeInv, [LifecycleNext]_lifecycleVars PROVE LifeInv'
  OBVIOUS
<1>1. ASSUME Step PROVE steps' \in 0..MaxSteps
  BY <1>1, StepsAssumption DEF Step, LifeInv, TypeOK
<1>2. steps \in 0..MaxSteps /\ enabled \in BOOLEAN
  BY DEF LifeInv, TypeOK
<1>3. CASE Supervise
  BY <1>2, <1>3, SpawnStep DEF Supervise
<1>4. ASSUME NEW i \in Pids, StartNow(i) PROVE LifeInv'
  BY <1>1, <1>4, SpawnStep DEF StartNow
<1>5. ASSUME NEW i \in Pids, Runs(i) PROVE LifeInv'
  <2>1. CASE Drain(i)
    <3>1. i \in Daemons /\ pc[i] = "draining"
      BY <2>1 DEF Drain, Drained, Daemons
    <3>2. Ends(i) /\ file' = NoFile /\ UNCHANGED <<foreign, taken, enabled, raced, steps>>
      BY <2>1 DEF Drain
    <3>3. QED BY <1>2, <3>1, <3>2, EndStep
  <2>2. QED
    BY <1>5, <2>1, SelectPortStep, CheckStep, WriteStep, ListenStep DEF Runs
<1>6. ASSUME NEW i \in Pids, OpenFails(i) \/ Kill(i) PROVE LifeInv'
  <2>1. i \in Daemons
    BY <1>6 DEF OpenFails, Kill, Daemons
  <2>2. Ends(i) /\ Step /\ UNCHANGED <<foreign, taken, file, enabled, raced>>
    BY <1>6 DEF OpenFails, Kill
  <2>3. QED BY <1>1, <2>1, <2>2, EndStep
<1>7. ASSUME NEW i \in Pids, SignalDaemon(i) PROVE LifeInv'
  <2>1. Once(i) \in [Pids -> Nat]
    BY OnceCounts
  <2>2. Signalled(Once(i), {}) /\ Step /\ UNCHANGED <<taken, enabled, raced>>
    BY <1>7 DEF SignalDaemon
  <2>3. QED BY <1>1, <1>2, <2>1, <2>2, SignalledStep
<1>8. ASSUME NEW i \in Pids, RestartByPid(i) PROVE LifeInv'
  <2>1. Once(file.pid) \in [Pids -> Nat]
    BY OnceCounts
  <2>2. {i} \in SUBSET Unused /\ Signalled(Once(file.pid), {i}) /\ Step /\ UNCHANGED <<taken, enabled, raced>>
    BY <1>8 DEF RestartByPid
  <2>3. QED BY <1>1, <1>2, <2>1, <2>2, SignalledStep
<1>9. CASE StopService
  <2> DEFINE hits == [i \in Pids |-> Once(file.pid)[i] + Once(unit)[i]]
  <2>1. hits \in [Pids -> Nat]
    <3>1. Once(file.pid) \in [Pids -> 0..1] /\ Once(unit) \in [Pids -> 0..1]
      BY OnceCounts
    <3>2. QED BY <3>1
  <2>2. Signalled(hits, {}) /\ Step /\ enabled' = FALSE /\ UNCHANGED <<taken, raced>>
    BY <1>9 DEF StopService
  <2> HIDE DEF hits
  <2>3. QED BY <1>1, <2>1, <2>2, SignalledStep
<1>10. CASE Install
  <2>1. steps' \in 0..MaxSteps /\ enabled' \in BOOLEAN
    BY <1>1, <1>10 DEF Install
  <2>2. QED
    BY <1>10, <2>1 DEF Install, LifeInv, TypeOK, FileNamesHolder, WritesAlone, Using, Daemons
<1>11. ASSUME NEW p \in Ports, TakesPort(p) PROVE LifeInv'
  <2>1. steps' \in 0..MaxSteps
    BY <1>1, <1>11 DEF TakesPort
  <2>2. QED
    BY <1>11, <2>1 DEF TakesPort, LifeInv, TypeOK, FileNamesHolder, WritesAlone, Using, Daemons
<1>12. ASSUME NEW i \in Pids, GetsPid(i) PROVE LifeInv'
  <2>1. steps' \in 0..MaxSteps /\ i \notin Daemons
    BY <1>1, <1>12 DEF GetsPid, Unused
  <2>2. QED
    BY <1>12, <2>1 DEF GetsPid, LifeInv, TypeOK, FileNamesHolder, WritesAlone, Using, Daemons
<1>13. CASE UNCHANGED lifecycleVars
  BY <1>13 DEF lifecycleVars, LifeInv, TypeOK, FileNamesHolder, WritesAlone, Using, Daemons
<1>14. QED
  BY <1>3, <1>4, <1>5, <1>6, <1>7, <1>8, <1>9, <1>10, <1>11, <1>12, <1>13 DEF LifecycleNext

\* The strengthened invariant of acquirePidFile, startServer, wireShutdown and
\* stopService holds for any number of processes, restarts and signals.
THEOREM LifeInvariant == LifecycleSpec => []LifeInv
<1>1. QED BY LifeInit, LifeStep, PTL DEF LifecycleSpec

\* Stages, ports, pid file and unit are well formed; a port has one listener.
THEOREM LifeTypeCorrect == LifecycleSpec => []TypeOK
<1>1. LifeInv => TypeOK
  BY DEF LifeInv
<1>2. QED BY <1>1, LifeInvariant, PTL

\* The pid file names the daemon that serves, and its port, unless two daemons
\* were between reading and writing it.
THEOREM LifeFileNamesDaemon == LifecycleSpec => []FileNamesDaemon
<1>1. LifeInv => FileNamesDaemon
  BY DEF LifeInv, FileNamesHolder, FileNamesDaemon, Using, Holding
<1>2. QED BY <1>1, LifeInvariant, PTL

\* One daemon at most uses the database, unless two were between reading and
\* writing the pid file.
THEOREM LifeOneDaemon == LifecycleSpec => []OneDaemon
<1>1. LifeInv => OneDaemon
  <2>1. SUFFICES ASSUME LifeInv, ~raced PROVE Cardinality(Using(Holding)) <= 1
    BY DEF OneDaemon, Holding
  <2>2. CASE Using(Holding) = {}
    BY <2>2, FS_EmptySet
  <2>3. CASE Using(Holding) # {}
    <3>1. PICK i : i \in Using(Holding)
      BY <2>3
    <3>2. \A j \in Using(Holding) : file.pid = j
      BY <2>1 DEF LifeInv, FileNamesHolder
    <3>3. Using(Holding) = {i}
      BY <3>1, <3>2
    <3>4. Cardinality({i}) = 1
      BY FS_Singleton
    <3>5. QED BY <3>3, <3>4
  <2>4. QED BY <2>2, <2>3
<1>2. QED BY <1>1, LifeInvariant, PTL

-----------------------------------------------------------------------------
(* The sessions *)

Session ==
  [open : BOOLEAN, by : Nat, agent : {0} \cup Agents, cap : Nat, asks : SUBSET Agents]

\* The daemon's memory is well formed.
MemoryOK(m) ==
  m \in [sess : [Ids -> Session], connections : [Names -> {0} \cup Ids],
         active : {0} \cup Ids, fan : [Agents -> {0} \cup Ids], wake : {0} \cup Ids,
         late : SUBSET Ids]

NumbersOK ==
  /\ created \in Nat /\ created <= MaxSessions
  /\ moves \in Nat /\ moves <= MaxMoves
  /\ issued \in Nat /\ cap \in Nat /\ cap <= issued
  /\ answer \in Nat /\ bindFile \in Nat
  /\ up \in Nat /\ launches \in Nat

RowsOK ==
  /\ row \in [offline : BOOLEAN, stale : BOOLEAN]
  /\ rows \in [Names \ {Claude} -> [id : {0} \cup Agents, stale : BOOLEAN, proxy : BOOLEAN]]

\* What a session is when it is named by a map of the memory; sessions X are left out.
ClosedIsUnbound(m) == \A s \in Ids : ~m.sess[s].open => m.sess[s].cap = 0

NamedActs(m, X) ==
  \A n \in Names : m.connections[n] \in Ids \ X =>
    m.sess[m.connections[n]].open /\ m.sess[m.connections[n]].agent # 0

SinkIsOfItsAgent(m, X) ==
  \A a \in Agents : m.fan[a] \in Ids \ X =>
    m.sess[m.fan[a]].open /\ m.sess[m.fan[a]].agent = a

HolderIsBound(m) == m.active # 0 => m.sess[m.active].cap # 0

SubscriberIsOpen(m) == m.wake # 0 => m.sess[m.wake].open

\* The maps are in order, but for the names of sessions X and the sinks of sessions Y.
SoundBut(m, X, Y) ==
  /\ ClosedIsUnbound(m)
  /\ NamedActs(m, X)
  /\ SinkIsOfItsAgent(m, Y)
  /\ HolderIsBound(m)
  /\ SubscriberIsOpen(m)

\* Only what a session registered after its end is left out.
Sound(m) == SoundBut(m, m.late, m.late)

\* The sessions that the memory has anything of.
Known(m) == {s \in Ids : m.sess[s].open \/ m.sess[s].asks # {}} \cup m.late

\* The holder of the conversation's agent was bound with the capability in force.
HolderIsCurrent == mem.active # 0 /\ cap # 0 => mem.sess[mem.active].cap = cap

KnownWereCreated == \A s \in Known(mem) : s <= created

SessionsInv ==
  /\ MemoryOK(mem)
  /\ NumbersOK
  /\ RowsOK
  /\ conn \in {0} \cup Ids
  /\ Sound(mem)
  /\ HolderIsCurrent
  /\ KnownWereCreated

-----------------------------------------------------------------------------
(* The maps of the daemon *)

LEMMA BoundsAreNaturals ==
  /\ MaxSessions \in Nat /\ MaxMoves \in Nat
  /\ Ids \subseteq Nat /\ 0 \notin Ids
  /\ Agents \subseteq Nat /\ 0 \notin Agents /\ Claude \in Agents /\ Claude \in Names
BY BoundsAssumption DEF BoundsAssumption, Ids, Agents, Claude, Names

\* What a step does to the holder of the conversation's agent: it stays, with
\* the capability it was bound with, or its session was closed.
HolderKept(m, k) ==
  IF m.active = 0 THEN k.active = 0
  ELSE \/ k.active = m.active /\ k.sess[m.active].cap = m.sess[m.active].cap
       \/ k.active = 0 /\ ~k.sess[m.active].open

LEMMA ClosedIsSession ==
  Closed \in Session /\ ~Closed.open /\ Closed.agent = 0 /\ Closed.cap = 0 /\ Closed.asks = {}
BY DEF Closed, Session

LEMMA GoneIsClosed ==
  ASSUME NEW b \in Session
  PROVE  Gone(b) \in Session /\ ~Gone(b).open /\ Gone(b).cap = 0 /\ Gone(b).asks = b.asks
BY DEF Gone, Closed, Session

\* Closing sessions, any at once, keeps the maps well formed ...
LEMMA ShutIsMemory ==
  ASSUME NEW m, MemoryOK(m), NEW S \in SUBSET Ids
  PROVE  MemoryOK(Shut(m, S))
<1> USE DEF MemoryOK, Shut
<1>1. [s \in Ids |-> IF s \in S THEN Gone(m.sess[s]) ELSE m.sess[s]] \in [Ids -> Session]
  BY GoneIsClosed
<1>2. ASSUME NEW R PROVE Released(m, R) \in [Names -> {0} \cup Ids]
  BY DEF Released
<1>3. ActiveReleased(m, S) \in {0} \cup Ids
  BY DEF ActiveReleased
<1>4. [a \in Agents |-> IF \E s \in S : m.sess[s].agent = a THEN 0 ELSE m.fan[a]]
        \in [Agents -> {0} \cup Ids]
  OBVIOUS
<1>5. DetachedBySession(m, S) \in {0} \cup Ids
  BY DEF DetachedBySession
<1>6. QED BY <1>1, <1>2, <1>3, <1>4, <1>5

\* ... and in order: whatever the sessions closed are named by is released.
LEMMA ShutIsSound ==
  ASSUME NEW m, MemoryOK(m), NEW S \in SUBSET Ids, NEW X, NEW Y, SoundBut(m, X, Y)
  PROVE  SoundBut(Shut(m, S), X, Y)
<1> DEFINE k == Shut(m, S)
<1> USE BoundsAreNaturals
<1>0. \A s \in Ids : /\ s \in S => ~k.sess[s].open /\ k.sess[s].cap = 0
                     /\ s \notin S => k.sess[s] = m.sess[s]
  BY GoneIsClosed DEF Shut, MemoryOK
<1>1. ClosedIsUnbound(k)
  BY <1>0 DEF SoundBut, ClosedIsUnbound
<1>2. NamedActs(k, X)
  <2> SUFFICES ASSUME NEW n \in Names, k.connections[n] \in Ids \ X
               PROVE  k.sess[k.connections[n]].open /\ k.sess[k.connections[n]].agent # 0
    BY DEF NamedActs
  <2>1. k.connections[n] = m.connections[n]
    BY DEF Shut, Released
  <2>2. m.sess[m.connections[n]].open /\ m.sess[m.connections[n]].agent # 0
    BY <2>1 DEF SoundBut, NamedActs
  <2>3. m.connections[n] \notin S
    BY <2>1, <2>2 DEF Shut, Released
  <2>4. QED BY <1>0, <2>1, <2>2, <2>3
<1>3. SinkIsOfItsAgent(k, Y)
  <2> SUFFICES ASSUME NEW a \in Agents, k.fan[a] \in Ids \ Y
               PROVE  k.sess[k.fan[a]].open /\ k.sess[k.fan[a]].agent = a
    BY DEF SinkIsOfItsAgent
  <2>1. k.fan[a] = m.fan[a] /\ \A s \in S : m.sess[s].agent # a
    BY DEF Shut
  <2>2. m.fan[a] \in Ids /\ m.sess[m.fan[a]].open /\ m.sess[m.fan[a]].agent = a
    BY <2>1 DEF SoundBut, SinkIsOfItsAgent
  <2>3. QED BY <1>0, <2>1, <2>2
<1>4. HolderIsBound(k)
  <2> SUFFICES ASSUME k.active # 0
               PROVE  k.sess[k.active].cap # 0
    BY DEF HolderIsBound
  <2>1. k.active = m.active /\ m.active \notin {s \in S : m.sess[s].cap # 0}
    BY DEF Shut, ActiveReleased
  <2>2. m.active \in Ids /\ m.sess[m.active].cap # 0
    BY <2>1 DEF SoundBut, HolderIsBound, MemoryOK
  <2>3. QED BY <1>0, <2>1, <2>2
<1>5. SubscriberIsOpen(k)
  <2> SUFFICES ASSUME k.wake # 0
               PROVE  k.sess[k.wake].open
    BY DEF SubscriberIsOpen
  <2>1. k.wake = m.wake /\ m.wake \notin S
    BY DEF Shut, DetachedBySession
  <2>2. m.wake \in Ids /\ m.sess[m.wake].open
    BY <2>1 DEF SoundBut, SubscriberIsOpen, MemoryOK
  <2>3. QED BY <1>0, <2>1, <2>2
<1>6. QED BY <1>1, <1>2, <1>3, <1>4, <1>5 DEF SoundBut

\* The holder goes only with its own session.
LEMMA ShutKeepsHolder ==
  ASSUME NEW m, MemoryOK(m), NEW S \in SUBSET Ids, HolderIsBound(m)
  PROVE  HolderKept(m, Shut(m, S))
<1> DEFINE k == Shut(m, S)
<1>0. \A s \in Ids : /\ s \in S => ~k.sess[s].open
                     /\ s \notin S => k.sess[s] = m.sess[s]
  BY GoneIsClosed DEF Shut, MemoryOK
<1>1. CASE m.active = 0
  BY <1>1 DEF HolderKept, Shut, ActiveReleased
<1>2. CASE m.active # 0
  <2>1. m.active \in Ids /\ m.sess[m.active].cap # 0
    BY <1>2 DEF HolderIsBound, MemoryOK
  <2>2. CASE m.active \in S
    <3>1. k.active = 0 BY <2>1, <2>2 DEF Shut, ActiveReleased
    <3>2. ~k.sess[m.active].open BY <1>0, <2>1, <2>2
    <3>3. QED BY <1>2, <3>1, <3>2 DEF HolderKept
  <2>3. CASE m.active \notin S
    <3>1. k.active = m.active BY <2>3 DEF Shut, ActiveReleased
    <3>2. k.sess[m.active] = m.sess[m.active] BY <1>0, <2>1, <2>3
    <3>3. QED BY <1>2, <3>1, <3>2 DEF HolderKept
  <2>4. QED BY <2>2, <2>3
<1>3. QED BY <1>1, <1>2

\* Sessions open, and known, no other than those that were.
NoneOpened(m, k) ==
  /\ \A s \in Ids : k.sess[s].open => m.sess[s].open
  /\ Known(k) \subseteq Known(m)

LEMMA ShutOpensNone ==
  ASSUME NEW m, MemoryOK(m), NEW S \in SUBSET Ids
  PROVE  NoneOpened(m, Shut(m, S)) /\ Shut(m, S).late = m.late
<1> DEFINE k == Shut(m, S)
<1>1. \A s \in Ids : k.sess[s].open => m.sess[s].open
  BY GoneIsClosed DEF Shut, MemoryOK
<1>2. \A s \in Ids : k.sess[s].asks = m.sess[s].asks
  BY GoneIsClosed DEF Shut, MemoryOK
<1>3. k.late = m.late
  BY DEF Shut
<1>4. QED BY <1>1, <1>2, <1>3 DEF NoneOpened, Known

\* Closing sessions, all of it.
LEMMA ShutInOrder ==
  ASSUME NEW m, MemoryOK(m), Sound(m), NEW S \in SUBSET Ids
  PROVE  /\ MemoryOK(Shut(m, S)) /\ Sound(Shut(m, S))
         /\ HolderKept(m, Shut(m, S)) /\ NoneOpened(m, Shut(m, S))
<1>1. SoundBut(m, m.late, m.late) /\ HolderIsBound(m)
  BY DEF Sound, SoundBut
<1>2. SoundBut(Shut(m, S), m.late, m.late)
  BY <1>1, ShutIsSound
<1>3. QED BY <1>1, <1>2, ShutIsMemory, ShutKeepsHolder, ShutOpensNone DEF Sound

LEMMA HolderKeptTwice ==
  ASSUME NEW m, NEW k, NEW l, MemoryOK(m), HolderKept(m, k), HolderKept(k, l), NoneOpened(k, l)
  PROVE  HolderKept(m, l)
<1>1. m.active \in {0} \cup Ids
  BY DEF MemoryOK
<1>2. QED BY <1>1 DEF HolderKept, NoneOpened

\* A new session has an id that is named nowhere.
LEMMA CreatedIsSound ==
  ASSUME NEW m, MemoryOK(m), Sound(m), NEW s \in Ids, s \notin Known(m), NEW client \in Nat
  PROVE  /\ MemoryOK(Created(m, s, client))
         /\ Sound(Created(m, s, client))
         /\ HolderKept(m, Created(m, s, client))
         /\ Known(Created(m, s, client)) \subseteq Known(m) \cup {s}
<1> DEFINE new == [Closed EXCEPT !.open = TRUE, !.by = client]
<1> DEFINE k == Created(m, s, client)
<1> USE BoundsAreNaturals
<1>1. new \in Session /\ new.open /\ new.agent = 0 /\ new.asks = {}
  BY DEF Session, Closed
<1>2. MemoryOK(k)
  BY <1>1 DEF MemoryOK, Created
<1>3. /\ k.connections = m.connections /\ k.fan = m.fan
      /\ k.active = m.active /\ k.wake = m.wake /\ k.late = m.late
      /\ \A r \in Ids : k.sess[r] = IF r = s THEN new ELSE m.sess[r]
  BY DEF MemoryOK, Created
<1> HIDE DEF new, k
<1>4. ~m.sess[s].open /\ s \notin m.late /\ m.sess[s].cap = 0
  BY DEF Known, Sound, SoundBut, ClosedIsUnbound
<1>5. ClosedIsUnbound(k)
  BY <1>1, <1>3 DEF Sound, SoundBut, ClosedIsUnbound
<1>6. NamedActs(k, k.late)
  BY <1>3, <1>4 DEF Sound, SoundBut, NamedActs
<1>7. SinkIsOfItsAgent(k, k.late)
  <2> SUFFICES ASSUME NEW a \in Agents, k.fan[a] \in Ids \ k.late
               PROVE  k.sess[k.fan[a]].open /\ k.sess[k.fan[a]].agent = a
    BY DEF SinkIsOfItsAgent
  <2>1. m.fan[a] \in Ids \ m.late /\ k.fan[a] = m.fan[a]
    BY <1>3
  <2>2. m.sess[m.fan[a]].open /\ m.sess[m.fan[a]].agent = a
    BY <2>1 DEF Sound, SoundBut, SinkIsOfItsAgent
  <2>3. QED BY <1>3, <1>4, <2>1, <2>2
<1>8. m.active # 0 => m.active \in Ids \ {s}
  BY <1>4 DEF MemoryOK, Sound, SoundBut, HolderIsBound
<1>9. HolderIsBound(k) /\ HolderKept(m, k)
  BY <1>3, <1>8 DEF Sound, SoundBut, HolderIsBound, HolderKept
<1>10. SubscriberIsOpen(k)
  BY <1>1, <1>3 DEF MemoryOK, Sound, SoundBut, SubscriberIsOpen
<1>11. Known(k) \subseteq Known(m) \cup {s}
  BY <1>3 DEF Known
<1>12. QED BY <1>2, <1>5, <1>6, <1>7, <1>9, <1>10, <1>11 DEF Sound, SoundBut, k

\* A session that registers or binds gets the sink of its agent, leaves that of
\* the agent it had, and acts for an agent if it is named by a name.  One that is
\* closed by then is named all the same.
LEMMA AttachedIsSound ==
  ASSUME NEW m, MemoryOK(m), NEW s \in Ids, SoundBut(m, m.late \cup {s}, m.late), NEW a \in Agents
  PROVE  LET k == Attached(m, s, a)
         IN  /\ MemoryOK(k)
             /\ m.sess[s].open => Sound(k)
             /\ ~m.sess[s].open => SoundBut(k, m.late \cup {s}, m.late \cup {s})
             /\ HolderKept(m, k)
             /\ NoneOpened(m, k)
             /\ k.late = m.late
             /\ k.sess[s].open = m.sess[s].open /\ k.sess[s].asks = m.sess[s].asks
<1> DEFINE old == m.sess[s]
<1> DEFINE k == Attached(m, s, a)
<1> DEFINE X == IF old.open THEN m.late ELSE m.late \cup {s}
<1> USE BoundsAreNaturals
<1>1. old \in Session
  BY DEF MemoryOK
<1>2. /\ k.connections = m.connections /\ k.active = m.active /\ k.wake = m.wake
      /\ k.late = m.late
      /\ k.sess = [m.sess EXCEPT ![s].agent = a]
      /\ k.fan = [b \in Agents |-> IF b = a THEN s ELSE IF b = old.agent THEN 0 ELSE m.fan[b]]
  BY DEF MemoryOK, Attached
<1>3. [old EXCEPT !.agent = a] \in Session
  BY <1>1 DEF Session
<1>4. \A r \in Ids : k.sess[r] = IF r = s THEN [old EXCEPT !.agent = a] ELSE m.sess[r]
  BY <1>2 DEF MemoryOK
<1>5. k.sess \in [Ids -> Session]
  BY <1>2, <1>3 DEF MemoryOK
<1>6. k.fan \in [Agents -> {0} \cup Ids]
  BY <1>2 DEF MemoryOK
<1>7. MemoryOK(k)
  BY <1>5, <1>6 DEF MemoryOK, Attached
<1>8. /\ k.sess[s].open = old.open /\ k.sess[s].cap = old.cap /\ k.sess[s].agent = a
      /\ k.sess[s].asks = old.asks /\ k.sess[s] = [old EXCEPT !.agent = a]
  BY <1>1, <1>4 DEF Session
<1> HIDE DEF k
<1>9. ClosedIsUnbound(k)
  BY <1>4, <1>8 DEF SoundBut, ClosedIsUnbound
<1>10. NamedActs(k, X)
  BY <1>2, <1>4, <1>8 DEF SoundBut, NamedActs
<1>11. SinkIsOfItsAgent(k, X)
  <2> SUFFICES ASSUME NEW b \in Agents, k.fan[b] \in Ids \ X
               PROVE  k.sess[k.fan[b]].open /\ k.sess[k.fan[b]].agent = b
    BY DEF SinkIsOfItsAgent
  <2>1. CASE b = a
    BY <1>2, <1>8, <2>1
  <2>2. CASE b # a
    <3>1. k.fan[b] = m.fan[b] /\ b # old.agent
      BY <1>2, <2>2
    <3>2. m.fan[b] \in Ids /\ m.sess[m.fan[b]].open /\ m.sess[m.fan[b]].agent = b
      BY <3>1 DEF SoundBut, SinkIsOfItsAgent
    <3>3. QED BY <1>4, <3>1, <3>2
  <2>3. QED BY <2>1, <2>2
<1>12. \A r \in Ids : /\ k.sess[r].cap = m.sess[r].cap /\ k.sess[r].open = m.sess[r].open
                      /\ k.sess[r].asks = m.sess[r].asks
  BY <1>4, <1>8
<1>13. HolderIsBound(k) /\ HolderKept(m, k)
  BY <1>2, <1>12 DEF MemoryOK, SoundBut, HolderIsBound, HolderKept
<1>14. SubscriberIsOpen(k)
  BY <1>2, <1>12 DEF MemoryOK, SoundBut, SubscriberIsOpen
<1>15. NoneOpened(m, k)
  BY <1>2, <1>12 DEF NoneOpened, Known
<1>16. SoundBut(k, X, X)
  BY <1>9, <1>10, <1>11, <1>13, <1>14 DEF SoundBut
<1>17. CASE old.open
  BY <1>2, <1>7, <1>8, <1>13, <1>15, <1>16, <1>17 DEF k, Sound
<1>18. CASE ~old.open
  BY <1>2, <1>7, <1>8, <1>13, <1>15, <1>16, <1>18 DEF k
<1>19. QED BY <1>17, <1>18

\* Taking a name over closes the session that had it and no other.
LEMMA TakenOverIsSound ==
  ASSUME NEW m, MemoryOK(m), Sound(m), NEW s \in Ids, NEW n \in Names
  PROVE  LET k == TakenOver(m, s, n)
         IN  /\ MemoryOK(k)
             /\ SoundBut(k, k.late \cup {s}, k.late)
             /\ HolderKept(m, k)
             /\ NoneOpened(m, k)
             /\ k.late = m.late
             /\ k.sess[s] = m.sess[s]
<1> DEFINE old == m.connections[n]
<1> DEFINE left == IF old \notin {0, s} /\ m.sess[old].open THEN Shut(m, {old}) ELSE m
<1> DEFINE k == TakenOver(m, s, n)
<1> USE BoundsAreNaturals
<1>1. old \in {0} \cup Ids
  BY DEF MemoryOK
<1>2. /\ MemoryOK(left) /\ Sound(left) /\ HolderKept(m, left)
      /\ NoneOpened(m, left) /\ left.sess[s] = m.sess[s] /\ left.late = m.late
  <2>1. CASE old \notin {0, s} /\ m.sess[old].open
    <3>1. {old} \in SUBSET Ids
      BY <1>1, <2>1
    <3>2. /\ MemoryOK(Shut(m, {old})) /\ Sound(Shut(m, {old}))
          /\ HolderKept(m, Shut(m, {old})) /\ NoneOpened(m, Shut(m, {old}))
      BY <3>1, ShutInOrder
    <3>3. Shut(m, {old}).sess[s] = m.sess[s] /\ Shut(m, {old}).late = m.late
      BY <2>1 DEF Shut
    <3>4. QED BY <2>1, <3>2, <3>3
  <2>2. CASE ~(old \notin {0, s} /\ m.sess[old].open)
    BY <2>2 DEF HolderKept, NoneOpened
  <2>3. QED BY <2>1, <2>2
<1>3. k = [left EXCEPT !.connections[n] = s]
  BY DEF TakenOver
<1> HIDE DEF left, k
<1>4. /\ k.sess = left.sess /\ k.active = left.active /\ k.fan = left.fan /\ k.wake = left.wake
      /\ k.connections = [left.connections EXCEPT ![n] = s] /\ k.late = left.late
      /\ MemoryOK(k)
  BY <1>2, <1>3 DEF MemoryOK
<1>5. NamedActs(k, k.late \cup {s})
  BY <1>2, <1>4 DEF Sound, SoundBut, NamedActs, MemoryOK
<1>6. SoundBut(k, k.late \cup {s}, k.late)
  <2>1. SoundBut(left, left.late, left.late)
    BY <1>2 DEF Sound
  <2>2. ClosedIsUnbound(k) /\ SinkIsOfItsAgent(k, k.late)
    BY <1>4, <2>1 DEF SoundBut, ClosedIsUnbound, SinkIsOfItsAgent
  <2>3. HolderIsBound(k) /\ SubscriberIsOpen(k)
    BY <1>4, <2>1 DEF SoundBut, HolderIsBound, SubscriberIsOpen
  <2>4. QED BY <1>5, <2>2, <2>3 DEF SoundBut
<1>7. HolderKept(m, k) /\ NoneOpened(m, k)
  BY <1>2, <1>4 DEF HolderKept, NoneOpened, Known
<1>8. QED BY <1>2, <1>4, <1>6, <1>7 DEF k

\* The end of a call leaves what it registered; a session that is closed by then
\* is one of those that registered late.
LEMMA EndedIsSound ==
  ASSUME NEW m, MemoryOK(m), NEW s \in Ids, s \in Known(m), NEW r,
         m.sess[s].open => Sound(m),
         ~m.sess[s].open => SoundBut(m, m.late \cup {s}, m.late \cup {s})
  PROVE  LET k == Ended(m, s, r)
         IN  MemoryOK(k) /\ Sound(k) /\ HolderKept(m, k) /\ NoneOpened(m, k)
<1> DEFINE old == m.sess[s]
<1> DEFINE k == Ended(m, s, r)
<1> DEFINE left == IF old.open THEN Without(old, r) ELSE Gone(Without(old, r))
<1> USE BoundsAreNaturals
<1>1. old \in Session /\ m.late \in SUBSET Ids
  BY DEF MemoryOK
<1>2. Without(old, r) \in Session /\ Without(old, r).open = old.open
      /\ Without(old, r).cap = old.cap /\ Without(old, r).agent = old.agent
  BY <1>1 DEF Without, Session
<1>3. /\ left \in Session /\ left.open = old.open
      /\ old.open => left.cap = old.cap /\ left.agent = old.agent
      /\ ~old.open => left.cap = 0
  BY <1>1, <1>2, GoneIsClosed DEF Session
<1>4. Without(old, r).open = old.open
  BY <1>2
<1>5. /\ k.connections = m.connections /\ k.active = m.active /\ k.wake = m.wake /\ k.fan = m.fan
      /\ k.late = IF old.open THEN m.late ELSE m.late \cup {s}
      /\ k.sess = [m.sess EXCEPT ![s] = left]
  BY <1>4 DEF MemoryOK, Ended
<1>6. MemoryOK(k)
  <2>1. k.sess \in [Ids -> Session] /\ k.late \in SUBSET Ids
    BY <1>1, <1>3, <1>5 DEF MemoryOK
  <2>2. QED BY <2>1, <1>5 DEF MemoryOK, Ended
<1> HIDE DEF left, k
<1>7. \A q \in Ids : k.sess[q] = IF q = s THEN left ELSE m.sess[q]
  BY <1>5 DEF MemoryOK
<1>8. SoundBut(m, k.late, k.late)
  BY <1>5 DEF Sound
<1>9. ClosedIsUnbound(k)
  BY <1>3, <1>7, <1>8 DEF SoundBut, ClosedIsUnbound
<1>10. NamedActs(k, k.late) /\ SinkIsOfItsAgent(k, k.late)
  BY <1>3, <1>5, <1>7, <1>8 DEF SoundBut, NamedActs, SinkIsOfItsAgent
<1>11. m.active # 0 => m.active \in Ids /\ k.sess[m.active].cap = m.sess[m.active].cap
  BY <1>3, <1>7, <1>8 DEF MemoryOK, SoundBut, ClosedIsUnbound, HolderIsBound
<1>12. HolderIsBound(k) /\ HolderKept(m, k)
  BY <1>5, <1>8, <1>11 DEF SoundBut, HolderIsBound, HolderKept
<1>13. SubscriberIsOpen(k)
  BY <1>3, <1>5, <1>7, <1>8 DEF MemoryOK, SoundBut, SubscriberIsOpen
<1>14. NoneOpened(m, k)
  BY <1>3, <1>5, <1>7 DEF NoneOpened, Known
<1>15. QED BY <1>6, <1>9, <1>10, <1>12, <1>13, <1>14 DEF Sound, SoundBut, k

-----------------------------------------------------------------------------
(* The steps, by what they do to the memory *)

\* What StandingKept says of a step.
StandingStep ==
  mem.active # 0 /\ cap # 0 /\ mem'.active # mem.active
    => cap' # cap \/ ~mem'.sess[mem.active].open

\* The memory after a step is in order, and the holder stays or is closed.
MemoryKept ==
  /\ MemoryOK(mem') /\ Sound(mem')
  /\ \A s \in Known(mem') : s <= created'

StepOK == SessionsInv' /\ StandingStep

LEMMA InOrder ==
  ASSUME MemoryKept, NumbersOK', RowsOK', conn' \in {0} \cup Ids, HolderIsCurrent', StandingStep
  PROVE  StepOK
BY DEF StepOK, MemoryKept, SessionsInv, MemoryOK, KnownWereCreated, Known, Sound, SoundBut,
       ClosedIsUnbound, NamedActs, SinkIsOfItsAgent, HolderIsBound, SubscriberIsOpen

LEMMA KeptHolderIsCurrent ==
  ASSUME SessionsInv, HolderKept(mem, mem'), cap' \in {0, cap}
  PROVE  HolderIsCurrent' /\ StandingStep
BY DEF SessionsInv, HolderIsCurrent, HolderKept, StandingStep

LEMMA FreedHolderIsCurrent ==
  ASSUME mem'.active = 0, cap' # cap
  PROVE  HolderIsCurrent' /\ StandingStep
BY DEF HolderIsCurrent, StandingStep

LEMMA MemoryUnchanged ==
  ASSUME SessionsInv, UNCHANGED <<mem, created>>
  PROVE  MemoryKept /\ HolderKept(mem, mem')
BY DEF SessionsInv, MemoryKept, HolderKept, KnownWereCreated

LEMMA MemoryShut ==
  ASSUME SessionsInv, NEW S \in SUBSET Ids, mem' = Shut(mem, S), created' = created
  PROVE  MemoryKept /\ HolderKept(mem, mem')
<1>1. MemoryOK(mem) /\ Sound(mem) /\ KnownWereCreated
  BY DEF SessionsInv
<1>2. MemoryOK(mem') /\ Sound(mem') /\ HolderKept(mem, mem') /\ NoneOpened(mem, mem')
  BY <1>1, ShutInOrder
<1>3. QED BY <1>1, <1>2 DEF MemoryKept, NoneOpened, KnownWereCreated

LEMMA MemoryFreed ==
  ASSUME SessionsInv, mem' = [mem EXCEPT !.active = 0], created' = created
  PROVE  MemoryKept /\ mem'.active = 0
<1>1. MemoryOK(mem) /\ Sound(mem) /\ KnownWereCreated
  BY DEF SessionsInv
<1>2. /\ MemoryOK(mem') /\ mem'.active = 0
      /\ mem'.sess = mem.sess /\ mem'.connections = mem.connections
      /\ mem'.fan = mem.fan /\ mem'.wake = mem.wake /\ mem'.late = mem.late
  BY <1>1 DEF MemoryOK
<1>3. Sound(mem')
  BY <1>1, <1>2 DEF Sound, SoundBut, ClosedIsUnbound, NamedActs, SinkIsOfItsAgent, HolderIsBound,
                    SubscriberIsOpen
<1>4. QED BY <1>1, <1>2, <1>3 DEF MemoryKept, KnownWereCreated, Known

LEMMA MemoryInitialized ==
  ASSUME SessionsInv, NEW client \in Nat, Initialize(client)
  PROVE  /\ MemoryKept /\ HolderKept(mem, mem')
         /\ created' = created + 1 /\ created' \in Ids
<1> DEFINE m == Created(mem, created + 1, client)
<1> DEFINE S == OverLimit(m)
<1>1. MemoryOK(mem) /\ Sound(mem) /\ KnownWereCreated /\ created \in Nat
  BY DEF SessionsInv, NumbersOK
<1>2. created + 1 \in Ids /\ created' = created + 1 /\ mem' = Shut(m, S)
  BY <1>1, BoundsAreNaturals DEF Initialize, Ids
<1>3. created + 1 \notin Known(mem)
  BY <1>1, <1>2 DEF KnownWereCreated
<1>4. /\ MemoryOK(m) /\ Sound(m) /\ HolderKept(mem, m)
      /\ Known(m) \subseteq Known(mem) \cup {created + 1}
  BY <1>1, <1>2, <1>3, CreatedIsSound
<1>5. S \in SUBSET Ids
  BY DEF OverLimit
<1>6. \A s \in Known(m) : s <= created + 1
  <2> SUFFICES ASSUME NEW s \in Known(m) PROVE s <= created + 1
    OBVIOUS
  <2>1. s = created + 1 \/ s <= created
    BY <1>1, <1>4 DEF KnownWereCreated
  <2>2. s \in Nat
    BY <1>4, BoundsAreNaturals DEF Known, MemoryOK
  <2>3. QED BY <1>1, <2>1, <2>2
<1> HIDE DEF m, S
<1>7. MemoryOK(mem') /\ Sound(mem') /\ HolderKept(m, mem') /\ NoneOpened(m, mem')
  BY <1>2, <1>4, <1>5, ShutInOrder
<1>8. HolderKept(mem, mem')
  BY <1>1, <1>4, <1>7, HolderKeptTwice
<1>9. QED BY <1>2, <1>6, <1>7, <1>8 DEF MemoryKept, NoneOpened

LEMMA MemoryRegistered ==
  ASSUME SessionsInv, NEW s \in Ids, NEW r \in mem.sess[s].asks, NEW n \in Names, NEW a \in Agents,
         mem' = Ended(Attached(TakenOver(mem, s, n), s, a), s, r), created' = created
  PROVE  MemoryKept /\ HolderKept(mem, mem')
<1> DEFINE m == TakenOver(mem, s, n)
<1> DEFINE k == Attached(m, s, a)
<1>1. MemoryOK(mem) /\ Sound(mem) /\ KnownWereCreated
  BY DEF SessionsInv
<1>2. /\ MemoryOK(m) /\ SoundBut(m, m.late \cup {s}, m.late) /\ HolderKept(mem, m)
      /\ NoneOpened(mem, m) /\ m.sess[s] = mem.sess[s]
  BY <1>1, TakenOverIsSound
<1> HIDE DEF m
<1>3. /\ MemoryOK(k) /\ HolderKept(m, k) /\ NoneOpened(m, k)
      /\ m.sess[s].open => Sound(k)
      /\ ~m.sess[s].open => SoundBut(k, m.late \cup {s}, m.late \cup {s})
      /\ k.late = m.late
      /\ k.sess[s].open = m.sess[s].open /\ k.sess[s].asks = m.sess[s].asks
  BY <1>2, AttachedIsSound
<1>4. s \in Known(k)
  BY <1>2, <1>3 DEF Known
<1>5. mem' = Ended(k, s, r)
  BY DEF m
<1> HIDE DEF k
<1>6. /\ MemoryOK(k)
      /\ k.sess[s].open => Sound(k)
      /\ ~k.sess[s].open => SoundBut(k, k.late \cup {s}, k.late \cup {s})
  BY <1>3
<1>7. MemoryOK(mem') /\ Sound(mem') /\ HolderKept(k, mem') /\ NoneOpened(k, mem')
  BY <1>4, <1>5, <1>6, EndedIsSound
<1>8. HolderKept(mem, k)
  BY <1>1, <1>2, <1>3, HolderKeptTwice
<1>9. HolderKept(mem, mem')
  BY <1>1, <1>7, <1>8, HolderKeptTwice
<1>10. QED BY <1>1, <1>2, <1>3, <1>7, <1>9 DEF MemoryKept, NoneOpened, KnownWereCreated

\* A call of register_agent that begins.
LEMMA MemoryAsked ==
  ASSUME SessionsInv, NEW s \in Open, NEW r \in Agents, created' = created,
         mem' = [mem EXCEPT !.sess[s].asks = @ \cup {r}]
  PROVE  MemoryKept /\ HolderKept(mem, mem')
<1>1. /\ MemoryOK(mem) /\ Sound(mem) /\ KnownWereCreated
      /\ s \in Ids /\ mem.sess[s].open /\ mem.sess[s] \in Session
  BY DEF SessionsInv, MemoryOK, Open
<1> DEFINE new == [mem.sess[s] EXCEPT !.asks = @ \cup {r}]
<1>2. /\ new \in Session /\ new.open = mem.sess[s].open /\ new.cap = mem.sess[s].cap
      /\ new.agent = mem.sess[s].agent
  BY <1>1 DEF Session
<1>3. /\ mem'.sess = [mem.sess EXCEPT ![s] = new]
      /\ mem'.connections = mem.connections /\ mem'.fan = mem.fan
      /\ mem'.active = mem.active /\ mem'.wake = mem.wake /\ mem'.late = mem.late
  BY <1>1 DEF MemoryOK
<1>4. MemoryOK(mem')
  <2>1. mem'.sess \in [Ids -> Session]
    BY <1>1, <1>2, <1>3 DEF MemoryOK
  <2>2. QED BY <1>1, <1>3, <2>1 DEF MemoryOK
<1> HIDE DEF new
<1>5. \A q \in Ids : mem'.sess[q] = IF q = s THEN new ELSE mem.sess[q]
  BY <1>1, <1>3 DEF MemoryOK
<1>6. \A q \in Ids : /\ mem'.sess[q].open = mem.sess[q].open /\ mem'.sess[q].cap = mem.sess[q].cap
                     /\ mem'.sess[q].agent = mem.sess[q].agent
  BY <1>2, <1>5
<1>7. ClosedIsUnbound(mem') /\ NamedActs(mem', mem'.late) /\ SinkIsOfItsAgent(mem', mem'.late)
  BY <1>1, <1>3, <1>6 DEF Sound, SoundBut, ClosedIsUnbound, NamedActs, SinkIsOfItsAgent
<1>8. HolderIsBound(mem') /\ SubscriberIsOpen(mem') /\ HolderKept(mem, mem')
  BY <1>1, <1>3, <1>6 DEF MemoryOK, Sound, SoundBut, HolderIsBound, SubscriberIsOpen, HolderKept
<1>9. Known(mem') \subseteq Known(mem)
  BY <1>1, <1>3, <1>5 DEF Known
<1>10. QED BY <1>1, <1>4, <1>7, <1>8, <1>9 DEF MemoryKept, Sound, SoundBut, KnownWereCreated

\* A session that binds holds the agent, with the capability in force.
BoundTo(m, k, s, token) ==
  /\ k.connections = m.connections /\ k.fan = m.fan /\ k.wake = m.wake
  /\ k.active = s /\ k.sess = [m.sess EXCEPT ![s].cap = token] /\ k.late = m.late

LEMMA BoundIsSound ==
  ASSUME NEW m, MemoryOK(m), Sound(m), NEW s \in Ids, m.sess[s].open, NEW token \in Nat \ {0},
         NEW k, BoundTo(m, k, s, token)
  PROVE  Sound(k) /\ NoneOpened(m, k) /\ k.sess[s].cap = token
<1> USE BoundsAreNaturals DEF BoundTo
<1>1. m.sess[s] \in Session
  BY DEF MemoryOK
<1>2. \A r \in Ids : k.sess[r] = IF r = s THEN [m.sess[s] EXCEPT !.cap = token] ELSE m.sess[r]
  BY DEF MemoryOK
<1>3. /\ k.sess[s].cap = token
      /\ \A r \in Ids : /\ k.sess[r].open = m.sess[r].open /\ k.sess[r].agent = m.sess[r].agent
                       /\ k.sess[r].asks = m.sess[r].asks
      /\ \A r \in Ids : r # s => k.sess[r].cap = m.sess[r].cap
  BY <1>1, <1>2 DEF Session
<1>4. ClosedIsUnbound(k)
  BY <1>3 DEF Sound, SoundBut, ClosedIsUnbound
<1>5. NamedActs(k, k.late) /\ SinkIsOfItsAgent(k, k.late)
  BY <1>3 DEF Sound, SoundBut, NamedActs, SinkIsOfItsAgent
<1>6. HolderIsBound(k)
  BY <1>3 DEF HolderIsBound
<1>7. SubscriberIsOpen(k)
  BY <1>3 DEF MemoryOK, Sound, SoundBut, SubscriberIsOpen
<1>8. QED BY <1>3, <1>4, <1>5, <1>6, <1>7 DEF Sound, SoundBut, NoneOpened, Known

LEMMA MemoryBound ==
  ASSUME SessionsInv, NEW s \in Open, NEW token \in Nat, Admitted(token, s),
         mem' = BoundBy(token, s), UNCHANGED <<created, cap>>
  PROVE  MemoryKept /\ HolderIsCurrent' /\ StandingStep
<1>1. /\ MemoryOK(mem) /\ Sound(mem) /\ KnownWereCreated /\ HolderIsCurrent
      /\ s \in Ids /\ mem.sess[s].open /\ Claude \in Agents
  BY BoundsAreNaturals DEF SessionsInv, Open
<1>2. CASE token = 0
  <2>1. mem' = mem
    BY <1>2 DEF BoundBy
  <2>2. QED BY <2>1, MemoryUnchanged, KeptHolderIsCurrent
<1>3. CASE token # 0
  <2> DEFINE m == IF mem.sess[s].cap = 0 THEN Attached(mem, s, Claude) ELSE mem
  <2>1. MemoryOK(m) /\ Sound(m) /\ NoneOpened(mem, m) /\ m.sess[s].open
    <3>1. SoundBut(mem, mem.late \cup {s}, mem.late)
      BY <1>1 DEF Sound, SoundBut, NamedActs
    <3>2. CASE mem.sess[s].cap = 0
      <4>1. m = Attached(mem, s, Claude)
        BY <3>2
      <4> DEFINE k == Attached(mem, s, Claude)
      <4>2. MemoryOK(k) /\ Sound(k) /\ NoneOpened(mem, k) /\ k.sess[s].open
        BY <1>1, <3>1, AttachedIsSound
      <4>3. QED BY <4>1, <4>2
    <3>3. CASE mem.sess[s].cap # 0
      BY <1>1, <3>3 DEF NoneOpened
    <3>4. QED BY <3>2, <3>3
  <2>2. mem' = [m EXCEPT !.active = s, !.sess[s].cap = token]
    BY <1>3 DEF BoundBy
  <2> HIDE DEF m
  <2>3. /\ MemoryOK(mem') /\ Sound(mem') /\ NoneOpened(m, mem')
        /\ mem'.active = s /\ mem'.sess[s].cap = token
    <3>1. token \in Nat \ {0}
      BY <1>3
    <3>2. /\ mem'.connections = m.connections /\ mem'.fan = m.fan /\ mem'.wake = m.wake
          /\ mem'.active = s /\ mem'.sess = [m.sess EXCEPT ![s].cap = token] /\ mem'.late = m.late
      BY <2>1, <2>2 DEF MemoryOK
    <3>3. [m.sess[s] EXCEPT !.cap = token] \in Session
      BY <1>1, <2>1, <3>1 DEF MemoryOK, Session
    <3>4. mem'.sess \in [Ids -> Session]
      BY <1>1, <2>1, <3>2, <3>3 DEF MemoryOK
    <3>5. MemoryOK(mem')
      BY <1>1, <2>1, <2>2, <3>4 DEF MemoryOK
    <3>6. BoundTo(m, mem', s, token)
      BY <3>2 DEF BoundTo
    <3>7. Sound(mem') /\ NoneOpened(m, mem') /\ mem'.sess[s].cap = token
      BY <1>1, <2>1, <3>1, <3>6, BoundIsSound
    <3>8. QED BY <3>2, <3>5, <3>7
  <2>4. token = cap /\ mem.active \in {0, s}
    BY <1>3 DEF Admitted, Binds
  <2>5. MemoryKept
    BY <1>1, <2>1, <2>3 DEF MemoryKept, NoneOpened, KnownWereCreated
  <2>6. HolderIsCurrent' /\ StandingStep
    BY <2>3, <2>4 DEF HolderIsCurrent, StandingStep
  <2>7. QED BY <2>5, <2>6
<1>4. QED BY <1>2, <1>3

\* unregister_self releases the session's names, its sink and its subscription.
LEMMA MemoryUnregistered ==
  ASSUME SessionsInv, NEW s \in Open, mem.sess[s].agent \in Agents, created' = created,
         mem' = [mem EXCEPT !.connections = Released(mem, {s}),
                            !.fan[mem.sess[s].agent] = 0,
                            !.wake = DetachedBySession(mem, {s}),
                            !.sess[s].agent = 0]
  PROVE  MemoryKept /\ HolderKept(mem, mem')
<1> DEFINE a == mem.sess[s].agent
<1> USE BoundsAreNaturals
<1>1. /\ MemoryOK(mem) /\ Sound(mem) /\ KnownWereCreated
      /\ s \in Ids /\ mem.sess[s].open /\ mem.sess[s] \in Session
  BY DEF SessionsInv, MemoryOK, Open
<1>2. /\ mem'.sess = [mem.sess EXCEPT ![s].agent = 0]
      /\ mem'.connections = Released(mem, {s})
      /\ mem'.fan = [mem.fan EXCEPT ![a] = 0]
      /\ mem'.wake = DetachedBySession(mem, {s}) /\ mem'.active = mem.active
      /\ mem'.late = mem.late
  BY <1>1 DEF MemoryOK
<1>3. /\ [mem.sess[s] EXCEPT !.agent = 0] \in Session
      /\ Released(mem, {s}) \in [Names -> {0} \cup Ids]
      /\ DetachedBySession(mem, {s}) \in {0} \cup Ids
  BY <1>1 DEF Session, MemoryOK, Released, DetachedBySession
<1>4. MemoryOK(mem')
  <2>1. mem'.sess \in [Ids -> Session] /\ mem'.fan \in [Agents -> {0} \cup Ids]
    BY <1>1, <1>2, <1>3 DEF MemoryOK
  <2>2. QED BY <1>1, <1>2, <1>3, <2>1 DEF MemoryOK
<1>5. \A r \in Ids : mem'.sess[r] = IF r = s THEN [mem.sess[s] EXCEPT !.agent = 0] ELSE mem.sess[r]
  BY <1>1, <1>2 DEF MemoryOK
<1>6. \A r \in Ids : /\ mem'.sess[r].open = mem.sess[r].open /\ mem'.sess[r].cap = mem.sess[r].cap
                     /\ mem'.sess[r].agent = IF r = s THEN 0 ELSE mem.sess[r].agent
                     /\ mem'.sess[r].asks = mem.sess[r].asks
  BY <1>1, <1>5 DEF Session
<1>7. ClosedIsUnbound(mem')
  BY <1>1, <1>6 DEF Sound, SoundBut, ClosedIsUnbound
<1>8. NamedActs(mem', mem'.late)
  BY <1>1, <1>2, <1>6 DEF Sound, SoundBut, NamedActs, Released
<1>9. SinkIsOfItsAgent(mem', mem'.late)
  <2> SUFFICES ASSUME NEW b \in Agents, mem'.fan[b] \in Ids \ mem'.late
               PROVE  mem'.sess[mem'.fan[b]].open /\ mem'.sess[mem'.fan[b]].agent = b
    BY DEF SinkIsOfItsAgent
  <2>1. b # a /\ mem'.fan[b] = mem.fan[b]
    BY <1>1, <1>2 DEF MemoryOK
  <2>2. mem.fan[b] \in Ids /\ mem.sess[mem.fan[b]].open /\ mem.sess[mem.fan[b]].agent = b
    BY <1>1, <1>2, <2>1 DEF Sound, SoundBut, SinkIsOfItsAgent
  <2>3. QED BY <1>6, <2>1, <2>2
<1>10. HolderIsBound(mem') /\ HolderKept(mem, mem')
  BY <1>1, <1>2, <1>6 DEF MemoryOK, Sound, SoundBut, HolderIsBound, HolderKept
<1>11. SubscriberIsOpen(mem')
  BY <1>1, <1>2, <1>6 DEF MemoryOK, Sound, SoundBut, SubscriberIsOpen, DetachedBySession
<1>12. Known(mem') = Known(mem)
  BY <1>2, <1>6 DEF Known
<1>13. QED
  BY <1>1, <1>4, <1>7, <1>8, <1>9, <1>10, <1>11, <1>12 DEF MemoryKept, Sound, SoundBut, KnownWereCreated

LEMMA MemorySubscribed ==
  ASSUME SessionsInv, NEW s \in Open, mem' = [mem EXCEPT !.wake = s], created' = created
  PROVE  MemoryKept /\ HolderKept(mem, mem')
<1>1. MemoryOK(mem) /\ Sound(mem) /\ KnownWereCreated /\ s \in Ids /\ mem.sess[s].open
  BY DEF SessionsInv, Open
<1>2. /\ MemoryOK(mem') /\ mem'.wake = s
      /\ mem'.sess = mem.sess /\ mem'.connections = mem.connections
      /\ mem'.fan = mem.fan /\ mem'.active = mem.active /\ mem'.late = mem.late
  BY <1>1 DEF MemoryOK
<1>3. Sound(mem') /\ HolderKept(mem, mem')
  BY <1>1, <1>2 DEF Sound, SoundBut, ClosedIsUnbound, NamedActs, SinkIsOfItsAgent, HolderIsBound,
                    SubscriberIsOpen, HolderKept
<1>4. QED BY <1>1, <1>2, <1>3 DEF MemoryKept, KnownWereCreated, Known

\* A daemon that starts again knows no session.
LEMMA EmptyIsSound == MemoryOK(EmptyMemory) /\ Sound(EmptyMemory) /\ Known(EmptyMemory) = {}
BY BoundsAreNaturals, ClosedIsSession
DEF EmptyMemory, MemoryOK, Sound, SoundBut, ClosedIsUnbound, NamedActs, SinkIsOfItsAgent,
    HolderIsBound, SubscriberIsOpen, Known

LEMMA MemoryLost ==
  ASSUME SessionsInv, mem' = EmptyMemory, created' = created
  PROVE  MemoryKept /\ HolderKept(mem, mem')
<1>1. \A s \in Ids : mem'.sess[s] = Closed
  BY DEF EmptyMemory
<1>2. HolderKept(mem, mem')
  BY <1>1, ClosedIsSession DEF SessionsInv, MemoryOK, HolderKept, EmptyMemory
<1>3. QED BY <1>2, EmptyIsSound DEF MemoryKept

-----------------------------------------------------------------------------
(* Every step keeps the invariant *)

\* The numbers, the rows and conn after a step.
DataOK == NumbersOK' /\ RowsOK' /\ conn' \in {0} \cup Ids

LEMMA KeepsHolder ==
  ASSUME SessionsInv, MemoryKept, HolderKept(mem, mem'), cap' \in {0, cap}, DataOK
  PROVE  StepOK
BY KeptHolderIsCurrent, InOrder DEF DataOK

LEMMA KeepsMemory ==
  ASSUME SessionsInv, UNCHANGED <<mem, created>>, cap' \in {0, cap}, DataOK
  PROVE  StepOK
BY MemoryUnchanged, KeepsHolder

LEMMA MoveIsBounded == SessionsInv /\ Move => moves' \in Nat /\ moves' <= MaxMoves
BY BoundsAreNaturals DEF SessionsInv, NumbersOK, Move

LEMMA GrantedIsFree ==
  ASSUME NEW n \in Names, CanGrant(n)
  PROVE  Granted(n) \in Names \ {Claude}
<1>1. CASE n # Claude
  BY <1>1 DEF Granted
<1>2. CASE n = Claude
  <2> DEFINE Avail(k) == rows[k].id = 0 \/ rows[k].stale
  <2> DEFINE Lowest(k) == Avail(k) /\ \A j \in Names \ {Claude} : j < k => ~Avail(j)
  <2>1. Names \ {Claude} = {2, 3}
    BY DEF Names, Claude
  <2>2. \E k \in Names \ {Claude} : Avail(k)
    BY <1>2 DEF CanGrant
  <2>3. \E k \in Names \ {Claude} : Lowest(k)
    BY <2>1, <2>2
  <2>4. Granted(n) = CHOOSE k \in Names \ {Claude} :
                       /\ rows[k].id = 0 \/ rows[k].stale
                       /\ \A j \in Names \ {Claude} : j < k => rows[j].id # 0 /\ ~rows[j].stale
    BY <1>2 DEF Granted
  <2>5. QED BY <2>3, <2>4
<1>3. QED BY <1>1, <1>2

\* The steps that leave the memory alone.
LEMMA BesideStep ==
  ASSUME SessionsInv,
         \/ Launch \/ Refire \/ (Quit /\ mem' = mem) \/ StartWrite \/ StartFails
         \/ EndRead \/ EndFails \/ Abandon \/ Age \/ ReapRows \/ Heartbeat
  PROVE  StepOK
<1> USE DEF SessionsInv, NumbersOK, RowsOK, DataOK
<1>1. CASE Launch
  BY <1>1, MoveIsBounded, KeepsMemory DEF Launch, daemon
<1>2. CASE Refire
  BY <1>2, MoveIsBounded, KeepsMemory DEF Refire, daemon
<1>3. CASE Quit /\ mem' = mem
  BY <1>3, MoveIsBounded, KeepsMemory DEF Quit
<1>4. CASE StartWrite
  BY <1>4, KeepsMemory DEF StartWrite, daemon
<1>5. CASE StartFails
  BY <1>5, MoveIsBounded, KeepsMemory DEF StartFails, daemon
<1>6. CASE EndRead
  BY <1>6, KeepsMemory DEF EndRead, daemon
<1>7. CASE EndFails
  BY <1>7, MoveIsBounded, KeepsMemory DEF EndFails, daemon
<1>8. CASE Abandon
  BY <1>8, MoveIsBounded, KeepsMemory DEF Abandon, daemon, hooks
<1>9. CASE Age
  <2>1. RowsOK'
    <3>1. CASE row' = [row EXCEPT !.stale = TRUE] /\ rows' = rows
      BY <3>1
    <3>2. ASSUME row' = row, NEW n \in Names \ {Claude}, rows' = [rows EXCEPT ![n].stale = TRUE]
          PROVE  RowsOK'
      <4>1. [rows[n] EXCEPT !.stale = TRUE]
              \in [id : {0} \cup Agents, stale : BOOLEAN, proxy : BOOLEAN]
        OBVIOUS
      <4>2. QED BY <3>2, <4>1
    <3>3. QED BY <1>9, <3>1, <3>2 DEF Age
  <2>2. NumbersOK' /\ conn' = conn /\ UNCHANGED <<mem, created, cap>>
    BY <1>9, MoveIsBounded DEF Age, hooks
  <2>3. QED BY <2>1, <2>2, KeepsMemory
<1>10. CASE ReapRows
  <2>1. RowsOK'
    BY <1>10 DEF ReapRows, NoRow
  <2>2. NumbersOK' /\ conn' = conn /\ UNCHANGED <<mem, created>> /\ cap' \in {0, cap}
    BY <1>10 DEF ReapRows, hooks
  <2>3. QED BY <2>1, <2>2, KeepsMemory
<1>11. CASE Heartbeat
  BY <1>11, KeepsMemory DEF Heartbeat, hooks
<1>12. QED
  BY <1>1, <1>2, <1>3, <1>4, <1>5, <1>6, <1>7, <1>8, <1>9, <1>10, <1>11

\* A session of the running process goes with it, if its client sends a DELETE.
LEMMA ShutStep ==
  ASSUME SessionsInv, (Quit /\ mem' # mem) \/ \E s \in Ids : Delete(s)
  PROVE  StepOK
<1>1. CASE Quit /\ mem' # mem
  <2>1. {conn} \in SUBSET Ids /\ mem' = Shut(mem, {conn}) /\ created' = created /\ cap' = cap
    BY <1>1 DEF Quit, Open
  <2>2. DataOK
    BY <1>1, MoveIsBounded DEF Quit, SessionsInv, NumbersOK, RowsOK, DataOK
  <2>3. QED BY <2>1, <2>2, MemoryShut, KeepsHolder
<1>2. ASSUME NEW s \in Ids, Delete(s) PROVE StepOK
  <2>1. {s} \in SUBSET Ids /\ mem' = Shut(mem, {s}) /\ created' = created /\ cap' = cap
    BY <1>2 DEF Delete
  <2>2. DataOK
    BY <1>2, MoveIsBounded DEF Delete, hooks, SessionsInv, NumbersOK, RowsOK, DataOK
  <2>3. QED BY <2>1, <2>2, MemoryShut, KeepsHolder
<1>3. QED BY <1>1, <1>2

\* A capability is issued, or revoked: nobody holds the agent.
LEMMA CapabilityStep ==
  ASSUME SessionsInv, StartPost \/ EndPost
  PROVE  StepOK
<1> USE DEF SessionsInv, NumbersOK, RowsOK, DataOK
<1>1. CASE StartPost
  <2>1. mem' = [mem EXCEPT !.active = 0] /\ created' = created /\ cap' # cap
    BY <1>1 DEF StartPost, Registered, Issued
  <2>2. DataOK
    BY <1>1 DEF StartPost, Registered
  <2>3. QED BY <2>1, <2>2, MemoryFreed, FreedHolderIsCurrent, InOrder
<1>2. CASE EndPost
  <2>1. mem' = [mem EXCEPT !.active = 0] /\ created' = created /\ cap' = 0
    BY <1>2 DEF EndPost, Revoked
  <2>2. RowsOK'
    BY <1>2 DEF EndPost
  <2>3. NumbersOK' /\ conn' \in {0} \cup Ids
    BY <1>2 DEF EndPost
  <2>4. HolderIsCurrent' /\ StandingStep
    BY <2>1, MemoryFreed DEF HolderIsCurrent, StandingStep
  <2>5. QED BY <2>1, <2>2, <2>3, <2>4, MemoryFreed, InOrder
<1>3. QED BY <1>1, <1>2

LEMMA InitializeStep ==
  ASSUME SessionsInv, Connect \/ ConnectOther
  PROVE  StepOK
<1> USE DEF SessionsInv, NumbersOK, RowsOK, DataOK
<1>1. CASE Connect
  <2>1. up \in Nat /\ Initialize(up)
    BY <1>1 DEF Connect
  <2>2. /\ MemoryKept /\ HolderKept(mem, mem')
        /\ created' = created + 1 /\ created' \in Ids
    BY <2>1, MemoryInitialized
  <2>3. DataOK
    BY <1>1, <2>2, BoundsAreNaturals DEF Connect, hooks, Ids
  <2>4. cap' = cap
    BY <1>1 DEF Connect
  <2>5. QED BY <2>2, <2>3, <2>4, KeepsHolder
<1>2. CASE ConnectOther
  <2>1. Initialize(0)
    BY <1>2 DEF ConnectOther
  <2>2. /\ MemoryKept /\ HolderKept(mem, mem')
        /\ created' = created + 1 /\ created' \in Ids
    BY <2>1, MemoryInitialized
  <2>3. DataOK
    BY <1>2, <2>2, BoundsAreNaturals, MoveIsBounded DEF ConnectOther, hooks, Ids
  <2>4. cap' = cap
    BY <1>2 DEF ConnectOther
  <2>5. QED BY <2>2, <2>3, <2>4, KeepsHolder
<1>3. QED BY <1>1, <1>2

LEMMA CallStep ==
  ASSUME SessionsInv, Call
  PROVE  StepOK
<1>1. /\ conn \in Open /\ bindFile \in Nat /\ Admitted(bindFile, conn)
      /\ mem' = BoundBy(bindFile, conn) /\ UNCHANGED <<created, cap>>
  BY DEF SessionsInv, NumbersOK, Call
<1>2. MemoryKept /\ HolderIsCurrent' /\ StandingStep
  BY <1>1, MemoryBound
<1>3. NumbersOK' /\ RowsOK' /\ conn' \in {0} \cup Ids
  BY DEF SessionsInv, NumbersOK, RowsOK, Call, hooks
<1>4. QED BY <1>2, <1>3, InOrder

LEMMA AskStep ==
  ASSUME SessionsInv, NEW s \in Ids, Ask(s)
  PROVE  StepOK
<1>1. /\ s \in Open /\ Move /\ cap' = cap /\ created' = created
      /\ mem' = [mem EXCEPT !.sess[s].asks = @ \cup {moves + 2}]
  BY DEF Ask
<1>2. moves + 2 \in Agents
  BY <1>1, BoundsAreNaturals DEF SessionsInv, NumbersOK, Move, Agents
<1>3. MemoryKept /\ HolderKept(mem, mem')
  BY <1>1, <1>2, MemoryAsked
<1>4. DataOK
  BY MoveIsBounded DEF Ask, hooks, SessionsInv, NumbersOK, RowsOK, DataOK
<1>5. QED BY <1>1, <1>3, <1>4, KeepsHolder

LEMMA RegisterStep ==
  ASSUME SessionsInv, NEW s \in Ids, NEW r \in mem.sess[s].asks,
         NEW n \in Names, NEW proxy \in BOOLEAN, Register(s, r, n, proxy)
  PROVE  StepOK
<1> DEFINE g == Granted(n)
<1> DEFINE id == IF rows[g].id # 0 THEN rows[g].id ELSE r
<1>1. /\ CanGrant(n) /\ cap' = cap /\ created' = created
      /\ mem' = Ended(Attached(TakenOver(mem, s, n), s, id), s, r)
      /\ rows' = [rows EXCEPT ![g] = [id |-> id, stale |-> FALSE, proxy |-> proxy]]
      /\ UNCHANGED <<row, issued, hooks, up, launches, conn, moves>>
  BY DEF Register
<1>2. g \in Names \ {Claude}
  BY <1>1, GrantedIsFree
<1> HIDE DEF g
<1>3. id \in Agents
  <2>1. rows[g].id \in {0} \cup Agents
    BY <1>2 DEF SessionsInv, RowsOK
  <2>2. r \in Agents
    BY DEF SessionsInv, MemoryOK, Session
  <2>3. QED BY <2>1, <2>2
<1> HIDE DEF id
<1>4. MemoryKept /\ HolderKept(mem, mem')
  BY <1>1, <1>3, MemoryRegistered
<1>5. RowsOK'
  BY <1>1, <1>2, <1>3 DEF SessionsInv, RowsOK
<1>6. NumbersOK' /\ conn' \in {0} \cup Ids
  BY <1>1 DEF SessionsInv, NumbersOK, hooks
<1>7. QED BY <1>1, <1>4, <1>5, <1>6, KeepsHolder DEF DataOK

LEMMA UnregisterStep ==
  ASSUME SessionsInv, NEW s \in Ids, Unregister(s)
  PROVE  StepOK
<1>1. /\ s \in Open /\ Move /\ cap' = cap /\ created' = created
      /\ UNCHANGED <<row, issued, hooks, up, launches, conn>>
      /\ mem' = [mem EXCEPT !.connections = Released(mem, {s}),
                            !.fan[mem.sess[s].agent] = 0,
                            !.wake = DetachedBySession(mem, {s}),
                            !.sess[s].agent = 0]
  BY DEF Unregister
<1>2. PICK n \in RowsOf(s) : rows' = [rows EXCEPT ![n] = NoRow]
  BY DEF Unregister
<1>3. n \in Names \ {Claude} /\ mem.sess[s].agent = rows[n].id /\ rows[n].id # 0
  BY DEF RowsOf
<1>4. mem.sess[s].agent \in Agents
  BY <1>3 DEF SessionsInv, RowsOK
<1>5. MemoryKept /\ HolderKept(mem, mem')
  BY <1>1, <1>4, MemoryUnregistered
<1>6. RowsOK'
  BY <1>1, <1>2, <1>3 DEF SessionsInv, RowsOK, NoRow
<1>7. NumbersOK' /\ conn' \in {0} \cup Ids
  BY <1>1, MoveIsBounded DEF SessionsInv, NumbersOK, hooks
<1>8. QED BY <1>1, <1>5, <1>6, <1>7, KeepsHolder DEF DataOK

LEMMA SubscribeStep ==
  ASSUME SessionsInv, NEW s \in Ids, Subscribe(s)
  PROVE  StepOK
<1>1. s \in Open /\ mem' = [mem EXCEPT !.wake = s] /\ cap' = cap /\ created' = created
  BY DEF Subscribe
<1>2. DataOK
  BY MoveIsBounded DEF Subscribe, hooks, SessionsInv, NumbersOK, RowsOK, DataOK
<1>3. QED BY <1>1, <1>2, MemorySubscribed, KeepsHolder

\* The reaper closes the idle orphans, and then those over the limit.
LEMMA ReapOrphansStep ==
  ASSUME SessionsInv, ReapOrphans
  PROVE  StepOK
<1>1. PICK idle \in SUBSET {s \in Open : mem.sess[s].agent = 0} :
        mem' = Shut(Shut(mem, idle), OverLimit(Shut(mem, idle)))
  BY DEF ReapOrphans
<1> DEFINE m == Shut(mem, idle)
<1> DEFINE S == OverLimit(m)
<1>2. MemoryOK(mem) /\ Sound(mem) /\ KnownWereCreated
  BY DEF SessionsInv
<1>3. idle \in SUBSET Ids /\ S \in SUBSET Ids
  BY DEF Open, OverLimit
<1>4. MemoryOK(m) /\ Sound(m) /\ HolderKept(mem, m) /\ NoneOpened(mem, m)
  BY <1>2, <1>3, ShutInOrder
<1> HIDE DEF m, S
<1>5. mem' = Shut(m, S)
  BY <1>1 DEF m, S
<1>6. MemoryOK(mem') /\ Sound(mem') /\ HolderKept(m, mem') /\ NoneOpened(m, mem')
  BY <1>3, <1>4, <1>5, ShutInOrder
<1>7. HolderKept(mem, mem')
  BY <1>2, <1>4, <1>6, HolderKeptTwice
<1>8. MemoryKept
  BY <1>2, <1>4, <1>6 DEF MemoryKept, NoneOpened, KnownWereCreated, ReapOrphans
<1>9. DataOK /\ cap' = cap
  BY MoveIsBounded DEF ReapOrphans, hooks, SessionsInv, NumbersOK, RowsOK, DataOK
<1>10. QED BY <1>7, <1>8, <1>9, KeepsHolder

LEMMA RestartStep ==
  ASSUME SessionsInv, Restart
  PROVE  StepOK
<1>1. mem' = EmptyMemory /\ cap' = cap /\ created' = created
  BY DEF Restart
<1>2. DataOK
  BY MoveIsBounded DEF Restart, hooks, SessionsInv, NumbersOK, RowsOK, DataOK
<1>3. QED BY <1>1, <1>2, MemoryLost, KeepsHolder

LEMMA SessionsStep ==
  ASSUME SessionsInv, [Next]_vars
  PROVE  StepOK
<1>1. CASE UNCHANGED vars
  <2>1. DataOK /\ UNCHANGED <<mem, created>> /\ cap' \in {0, cap}
    BY <1>1 DEF vars, daemon, hooks, DataOK, SessionsInv, NumbersOK, RowsOK
  <2>2. QED BY <2>1, KeepsMemory
<1>2. CASE Next
  <2>1. ASSUME NEW s \in Ids,
               \/ Delete(s) \/ Unregister(s) \/ Subscribe(s) \/ Ask(s)
               \/ \E r \in mem.sess[s].asks, n \in Names, proxy \in BOOLEAN :
                    Register(s, r, n, proxy)
        PROVE  StepOK
    BY <2>1, ShutStep, UnregisterStep, SubscribeStep, AskStep, RegisterStep
  <2>2. QED
    BY <1>2, <2>1, BesideStep, ShutStep, CapabilityStep, InitializeStep, CallStep, ReapOrphansStep,
       RestartStep DEF Next
<1>3. QED BY <1>1, <1>2

-----------------------------------------------------------------------------
(* Theorems *)

LEMMA SessionsInitially ==
  ASSUME Init
  PROVE  SessionsInv
<1> USE BoundsAreNaturals DEF Init
<1>1. MemoryOK(mem) /\ Sound(mem)
  BY EmptyIsSound
<1>2. NumbersOK /\ conn \in {0} \cup Ids
  BY DEF NumbersOK
<1>3. RowsOK
  BY DEF RowsOK, NoRow
<1>4. HolderIsCurrent /\ KnownWereCreated
  BY EmptyIsSound DEF HolderIsCurrent, KnownWereCreated, EmptyMemory
<1>5. QED BY <1>1, <1>2, <1>3, <1>4 DEF SessionsInv

\* The inductive invariant: memory, rows and counters are well formed, and the
\* maps of the daemon name only sessions that are what the map takes them for, or
\* that registered after their end.
THEOREM SessionsInvariant == Spec => []SessionsInv
<1>1. Init => SessionsInv
  BY SessionsInitially
<1>2. SessionsInv /\ [Next]_vars => SessionsInv'
  BY SessionsStep DEF StepOK
<1>3. QED BY <1>1, <1>2, PTL DEF Spec

\* No map of the daemon keeps a session that is gone: not when it is closed, is
\* taken over, is reaped as an orphan, nor when many are closed at once.  What is
\* left is the name and the sink of a session that registered after its end.
THEOREM SessionsDoNotDangle == Spec => []NothingDangles
<1>1. SessionsInv => NothingDangles
  <2> SUFFICES ASSUME SessionsInv PROVE NothingDangles
    OBVIOUS
  <2>1. MemoryOK(mem) /\ Sound(mem)
    BY DEF SessionsInv
  <2> USE BoundsAreNaturals DEF MemoryOK, Sound, SoundBut, Open
  <2>2. mem.active \in {0} \cup Open /\ mem.wake \in {0} \cup Open
    BY <2>1 DEF ClosedIsUnbound, HolderIsBound, SubscriberIsOpen
  <2>3. \A n \in Names : mem.connections[n] \in {0} \cup Open \cup mem.late
    BY <2>1 DEF NamedActs
  <2>4. \A a \in Agents : mem.fan[a] \in {0} \cup Open \cup mem.late
    BY <2>1 DEF SinkIsOfItsAgent
  <2>5. QED BY <2>2, <2>3, <2>4 DEF NothingDangles
<1>2. QED BY <1>1, SessionsInvariant, PTL

\* The session that may act for the conversation was bound with the capability
\* in force, however resumed processes, hooks and reapers interleave.
THEOREM ActorsHaveCurrentCapability == Spec => []ActsByCurrentCapability
<1>1. SessionsInv => ActsByCurrentCapability
  BY BoundsAreNaturals DEF SessionsInv, HolderIsCurrent, ActsByCurrentCapability, Owns, Open
<1>2. QED BY <1>1, SessionsInvariant, PTL

\* No step beside it takes the agent from the session that holds it.
THEOREM StandingIsKept == Spec => StandingKept
<1>1. SessionsInv /\ [Next]_vars =>
        [mem.active # 0 /\ cap # 0 /\ mem'.active # mem.active
           => cap' # cap \/ ~mem'.sess[mem.active].open]_vars
  BY SessionsStep DEF StepOK, StandingStep
<1>2. QED BY <1>1, SessionsInvariant, PTL DEF Spec, StandingKept
=============================================================================
