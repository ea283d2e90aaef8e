----------------------------- MODULE Wake_proofs -----------------------------
(***************************************************************************)
(* Proofs about Wake, for any messages, agents and rows: the timers agree  *)
(* with the delivery statuses, a final status stays, and what a send lists *)
(* as delivered got its hint.                                              *)
(*                                                                         *)
(* Every step but a send, its answer and a restart is about one wake, so   *)
(* the invariant is one statement for each wake: where its poke stands     *)
(* tells what its status is and how many hints it may have got.            *)
(***************************************************************************)
EXTENDS Wake, TLAPS

Statuses == [wake : {"none", "delivered", "retrying", "skipped", "failed"}, attempts : 0 .. RetryDelays]

Settings ==
  /\ row \in [Agents -> Rows \cup {Gone}] /\ binds \in 0 .. MaxBinds /\ tmux \in BOOLEAN
  /\ sender \in [Messages -> Agents \cup {Nobody}] /\ seen \in [Wakes -> Rows \cup {Gone}]
  /\ active \subseteq Wakes /\ answered \subseteq Messages

Tables ==
  /\ job \in [Wakes -> Steps \cup Outcomes] /\ attempt \in [Wakes -> 0 .. RetryDelays - 1]
  /\ status \in [Wakes -> Statuses] /\ reached \in [Wakes -> Nat]
  /\ retries \subseteq Wakes /\ unheard \subseteq Wakes

\* How many hints a poke may have got through where it stands: by a call, and
\* once more by keystrokes.
Level(j) == IF j \in {"open", "link", "link or keys", "quiet"} THEN 0
            ELSE IF j \in {"guard", "type", "enter"} THEN 1 ELSE 2

\* A retry comes after a poke that may have got two hints through.
Before(w) == IF w \in retries THEN 2 ELSE 0

Hints(w) ==
  /\ reached[w] <= 4
  /\ job[w] = "idle" /\ w \in retries => reached[w] <= 2
  /\ job[w] # "idle" => reached[w] <= Before(w) + Level(job[w])

\* With a timer a wake is listed as retrying; under its first poke it is not
\* listed; before its message is written it is nowhere.
Listed(w) ==
  /\ w \in retries => status[w] = [wake |-> "retrying", attempts |-> attempt[w]]
  /\ w \notin retries => attempt[w] = 0 /\ job[w] # "quiet"
  /\ w \notin retries /\ job[w] # "idle" => status[w] = Unrecorded
  /\ sender[w[1]] = Nobody =>
       w \notin retries /\ job[w] = "idle" /\ status[w] = Unrecorded /\ reached[w] = 0

\* A hint was sent before it counts.
Heard(w) ==
  /\ job[w] = "check" => reached[w] > 0
  /\ job[w] = "ok" => reached[w] > 0 \/ w \in unheard
  /\ status[w].wake = "delivered" /\ status[w].attempts = 0 => reached[w] > 0 \/ w \in unheard

Good(w) == Hints(w) /\ Listed(w) /\ Heard(w)

WakeInv == Settings /\ Tables /\ \A w \in Wakes : Good(w)

\* Nothing of the wake changes.
Same(w) ==
  /\ job'[w] = job[w] /\ attempt'[w] = attempt[w] /\ status'[w] = status[w] /\ reached'[w] = reached[w]
  /\ w \in retries' <=> w \in retries
  /\ w \in unheard' <=> w \in unheard

-----------------------------------------------------------------------------
LEMMA SameStaysGood ==
  ASSUME NEW w \in Wakes, Same(w), Good(w), sender' = sender
  PROVE  Good(w)'
  BY DEF Same, Good, Hints, Listed, Heard, Before

LEMMA Levels ==
  /\ \A j : Level(j) \in {0, 1, 2}
  /\ \A j \in {"open", "link", "link or keys", "quiet"} : Level(j) = 0
  /\ \A j \in {"guard", "type", "enter"} : Level(j) = 1
  /\ \A j \in Outcomes \cup {"check"} : Level(j) = 2
  BY DEF Level, Outcomes

\* A step about one wake.
Only(w) ==
  /\ sender' = sender
  /\ \A v \in Wakes \ {w} : Same(v)
  /\ Tables'
  /\ Good(w)'

LEMMA OnlyKeeps ==
  ASSUME WakeInv, NEW w \in Wakes, Only(w), Settings'
  PROVE  WakeInv'
  BY SameStaysGood DEF Only, WakeInv

\* poke of one wake reads its row and picks a transport; a channel is told at once.
Told(w, j, n) ==
  /\ job' = [job EXCEPT ![w] = j] /\ (j = "guard" => w \notin retries)
  /\ reached' = [reached EXCEPT ![w] = @ + n]
  /\ unheard' \subseteq unheard \cup {w} /\ unheard \subseteq unheard'
  /\ j = "ok" => n = 1 \/ w \in unheard'

Transports == {"no_pane", "guard_failed", "tmux_unavailable", "link", "link or keys", "guard", "type"}

LEMMA DispatchDoes ==
  ASSUME Tables, NEW w \in Wakes, Dispatch(w)
  PROVE  \/ \E n \in {0, 1} : Told(w, "ok", n)
         \/ \E j \in Transports : Told(w, j, 0)
<1>1. ASSUME NEW j \in Transports, Becomes(w, j), Reaches(w, 0), j = "guard" => w \notin retries
      PROVE  Told(w, j, 0)
  BY <1>1 DEF Told, Becomes, Reaches, Transports
<1>2. CASE Becomes(w, "ok") /\ Reaches(w, 1)
  <2>1. Told(w, "ok", 1)
    BY <1>2 DEF Told, Becomes, Reaches
  <2>2. QED BY <2>1
<1>3. CASE Becomes(w, "ok") /\ GoesUnheard(w)
  <2>1. Told(w, "ok", 0)
    BY <1>3 DEF Told, Becomes, GoesUnheard, Tables
  <2>2. QED BY <2>1
<1>4. CASE Becomes(w, Keystrokes(w)) /\ Reaches(w, 0)
  <2>1. Keystrokes(w) \in Transports /\ (Keystrokes(w) = "guard" => w \notin retries)
    BY DEF Keystrokes, Transports
  <2>2. QED BY <1>1, <1>4, <2>1
<1>5. CASE \E j \in Transports \ {"guard"} : Becomes(w, j) /\ Reaches(w, 0)
  BY <1>1, <1>5
<1>6. \A j \in {"guard_failed", "no_pane", "link", "link or keys"} : j \in Transports \ {"guard"}
  BY DEF Transports
<1>7. CASE row[sender[w[1]]] = Gone \/ row[w[2]] = Gone
  BY <1>5, <1>6, <1>7 DEF Dispatch
<1>8. CASE ~(row[sender[w[1]]] = Gone \/ row[w[2]] = Gone)
  <2>1. \/ Becomes(w, "ok") /\ (Reaches(w, 1) \/ GoesUnheard(w))
        \/ Becomes(w, Keystrokes(w)) /\ Reaches(w, 0)
        \/ Becomes(w, "no_pane") /\ Reaches(w, 0)
        \/ Becomes(w, "link") /\ Reaches(w, 0)
        \/ Becomes(w, "link or keys") /\ Reaches(w, 0)
    BY <1>8 DEF Dispatch
  <2>2. QED BY <1>2, <1>3, <1>4, <1>5, <1>6, <2>1
<1>9. QED BY <1>7, <1>8

\* A poke moves on, and perhaps a hint gets through.
Moves(w, j, n) ==
  /\ job' = [job EXCEPT ![w] = j] /\ reached' = [reached EXCEPT ![w] = @ + n]
  /\ unheard \subseteq unheard' /\ unheard' \subseteq unheard \cup {w}
  /\ UNCHANGED <<sender, retries, attempt, status>>

\* It moves forward, with its timer if it is idle, and "check" and "ok" follow a hint.
Fits(w, j, n) ==
  /\ job[w] = "idle" => w \in retries /\ n = 0
  /\ job[w] # "idle" => Level(job[w]) + n <= Level(j)
  /\ j = "quiet" => w \in retries
  /\ j = "check" => n = 1
  /\ j = "ok" => reached[w] + n > 0 \/ w \in unheard'

LEMMA MoveOnly ==
  ASSUME WakeInv, NEW w \in Wakes, NEW j \in (Steps \cup Outcomes) \ {"idle"}, NEW n \in {0, 1},
         Moves(w, j, n), Fits(w, j, n)
  PROVE  Only(w)
<1> USE DEF Fits
<1>1. /\ job' \in [Wakes -> Steps \cup Outcomes] /\ job'[w] = j
      /\ \A v \in Wakes \ {w} : job'[v] = job[v]
  BY DEF Moves, WakeInv, Tables
<1>2. /\ reached' \in [Wakes -> Nat] /\ reached'[w] = reached[w] + n
      /\ \A v \in Wakes \ {w} : reached'[v] = reached[v]
  BY DEF Moves, WakeInv, Tables
<1>3. Tables'
  BY <1>1, <1>2 DEF Moves, WakeInv, Tables
<1>4. \A v \in Wakes \ {w} : Same(v)
  BY <1>1, <1>2 DEF Moves, Same
<1>5. reached[w] \in Nat /\ Before(w) \in {0, 2} /\ Before(w)' = Before(w) /\ Level(j) \in {0, 1, 2}
  BY Levels DEF Moves, WakeInv, Tables, Before
<1>6. reached'[w] <= Before(w) + Level(j)
  <2>1. CASE job[w] = "idle"
    <3>1. reached[w] <= Before(w)
      BY <2>1 DEF WakeInv, Good, Hints, Before
    <3>2. QED BY <1>2, <1>5, <2>1, <3>1
  <2>2. CASE job[w] # "idle"
    <3>1. reached[w] <= Before(w) + Level(job[w]) /\ Level(job[w]) \in {0, 1, 2}
      BY <2>2, Levels DEF WakeInv, Good, Hints
    <3>2. QED BY <1>2, <1>5, <2>2, <3>1
  <2>3. QED BY <2>1, <2>2
<1>7. Hints(w)'
  <2>1. reached'[w] <= 4
    BY <1>2, <1>5, <1>6
  <2>2. QED BY <1>1, <1>5, <1>6, <2>1 DEF Hints
<1>8. Listed(w)'
  BY <1>1, <1>2 DEF Moves, WakeInv, Good, Listed
<1>9. Heard(w)'
  <2>1. Heard(w)
    BY DEF WakeInv, Good
  <2>2. QED BY <1>1, <1>2, <1>5, <2>1 DEF Moves, Heard
<1>10. QED BY <1>3, <1>4, <1>7, <1>8, <1>9 DEF Only, Good, Moves

LEMMA PokeStep ==
  ASSUME WakeInv, NEW w \in Wakes, Dispatch(w), job[w] \in {"open", "quiet"},
         UNCHANGED <<sender, retries, attempt, status>>
  PROVE  Only(w)
<1>1. ASSUME NEW j \in Transports \cup {"ok"}, NEW n \in {0, 1}, Told(w, j, n), n = 1 => j = "ok"
      PROVE  Only(w)
  <2>1. j \in (Steps \cup Outcomes) \ {"idle"} /\ j # "quiet" /\ j # "check"
    BY DEF Transports, Steps, Outcomes
  <2>2. Moves(w, j, n)
    BY <1>1 DEF Told, Moves
  <2>3. job[w] # "idle" /\ Level(job[w]) + n <= Level(j)
    <3>1. Level(job[w]) = 0 /\ Level(j) \in {0, 1, 2} /\ (j = "ok" => Level(j) = 2)
      BY Levels DEF Outcomes
    <3>2. QED BY <1>1, <3>1
  <2>4. j = "ok" => reached[w] + n > 0 \/ w \in unheard'
    BY <1>1 DEF Told, WakeInv, Tables
  <2>5. Fits(w, j, n)
    BY <2>1, <2>3, <2>4 DEF Fits
  <2>6. QED BY <2>1, <2>2, <2>5, MoveOnly
<1>2. CASE \E n \in {0, 1} : Told(w, "ok", n)
  BY <1>1, <1>2
<1>3. CASE \E j \in Transports : Told(w, j, 0)
  <2>1. PICK j \in Transports : Told(w, j, 0)
    BY <1>3
  <2>2. QED BY <1>1, <2>1
<1>4. Tables
  BY DEF WakeInv
<1>5. QED BY <1>2, <1>3, <1>4, DispatchDoes

\* The stages of a poke over an app server or by keystrokes.
LEMMA StageStep ==
  ASSUME WakeInv, NEW w \in Wakes, Link(w) \/ Guard(w) \/ Type(w) \/ Enter(w) \/ Check(w)
  PROVE  Only(w)
<1>1. ASSUME NEW j \in (Steps \cup Outcomes) \ {"idle", "quiet"}, NEW n \in {0, 1}, job[w] # "idle",
             Becomes(w, j), reached' = [reached EXCEPT ![w] = @ + n],
             UNCHANGED <<sender, retries, attempt, status, unheard>>,
             Level(job[w]) + n <= Level(j), j = "check" => n = 1, j = "ok" => reached[w] + n > 0
      PROVE  Only(w)
  <2>1. Moves(w, j, n)
    BY <1>1 DEF Moves, Becomes
  <2>2. Fits(w, j, n)
    BY <1>1 DEF Fits
  <2>3. QED BY <2>1, <2>2, MoveOnly
<1>2. reached \in [Wakes -> Nat]
  BY DEF WakeInv, Tables
<1>3. ASSUME UNCHANGED <<reached, unheard>> PROVE reached' = [reached EXCEPT ![w] = @ + 0] /\ unheard' = unheard
  BY <1>2, <1>3
<1>4. CASE Link(w)
  <2>1. Level(job[w]) = 0 /\ job[w] # "idle"
    BY <1>4, Levels DEF Link
  <2>2. UNCHANGED <<sender, retries, attempt, status, unheard>>
    BY <1>4 DEF Link, Reaches, messageVars, retryVars
  <2>3. CASE Becomes(w, "ok") /\ Reaches(w, 1)
    <3>1. Level("ok") = 2 /\ reached[w] + 1 > 0 /\ "ok" \in (Steps \cup Outcomes) \ {"idle", "quiet"}
      <4>1. reached[w] + 1 > 0
        BY <1>2
      <4>2. QED BY <4>1, Levels DEF Steps, Outcomes
    <3>2. reached' = [reached EXCEPT ![w] = @ + 1]
      BY <2>3 DEF Reaches
    <3>3. Level(job[w]) + 1 <= Level("ok")
      BY <2>1, <3>1
    <3>4. QED BY <1>1, <2>1, <2>2, <2>3, <3>1, <3>2, <3>3
  <2>4. CASE /\ Becomes(w, IF job[w] = "link" THEN "guard_failed" ELSE Keystrokes(w))
             /\ Reaches(w, 1) \/ Reaches(w, 0)
    <3>1. PICK j \in {"guard_failed", "tmux_unavailable", "guard", "type"} : Becomes(w, j)
      BY <2>4 DEF Keystrokes
    <3>2. PICK n \in {0, 1} : reached' = [reached EXCEPT ![w] = @ + n]
      BY <2>4 DEF Reaches
    <3>3. Level(j) \in {1, 2} /\ j \in (Steps \cup Outcomes) \ {"idle", "quiet"} /\ j # "check" /\ j # "ok"
      BY Levels DEF Steps, Outcomes
    <3>4. Level(job[w]) + n <= Level(j)
      BY <2>1, <3>3
    <3>5. QED BY <1>1, <2>1, <2>2, <3>1, <3>2, <3>3, <3>4
  <2>5. QED BY <1>4, <2>3, <2>4 DEF Link
<1>5. CASE Guard(w) \/ Type(w)
  <2>1. PICK j \in {"type", "enter", "guard_failed"} : Becomes(w, j)
    BY <1>5 DEF Guard, Type, TmuxStep
  <2>2. /\ Level(job[w]) + 0 <= Level(j) /\ job[w] # "idle"
        /\ j \in (Steps \cup Outcomes) \ {"idle", "quiet"} /\ j # "check" /\ j # "ok"
    <3>1. Level(job[w]) = 1 /\ job[w] # "idle" /\ Level(j) \in {1, 2}
      BY <1>5, Levels DEF Guard, Type, TmuxStep, Outcomes
    <3>2. j \in (Steps \cup Outcomes) \ {"idle", "quiet"} /\ j # "check" /\ j # "ok"
      BY DEF Steps, Outcomes
    <3>3. QED BY <3>1, <3>2
  <2>3. UNCHANGED <<sender, retries, attempt, status, reached, unheard>>
    BY <1>5 DEF Guard, Type, messageVars, retryVars, hintVars
  <2>4. reached' = [reached EXCEPT ![w] = @ + 0]
    BY <1>3, <2>3
  <2>5. QED BY <1>1, <2>1, <2>2, <2>3, <2>4
<1>6. CASE Enter(w)
  <2>1. PICK j \in {"check", "guard_failed"} : Becomes(w, j)
    BY <1>6 DEF Enter, TmuxStep
  <2>2. Level(job[w]) = 1 /\ Level(j) = 2 /\ job[w] # "idle" /\ j \in (Steps \cup Outcomes) \ {"idle", "quiet"}
    BY <1>6, Levels DEF Enter, TmuxStep, Steps, Outcomes
  <2>3. UNCHANGED <<sender, retries, attempt, status, unheard>>
    BY <1>6 DEF Enter, Reaches, messageVars, retryVars
  <2>4. job'[w] = j
    BY <2>1 DEF Becomes, WakeInv, Tables
  <2>5. reached' = [reached EXCEPT ![w] = @ + (IF j = "check" THEN 1 ELSE 0)]
    BY <1>6, <2>4 DEF Enter, Reaches
  <2>6. CASE j = "check"
    <3>1. reached' = [reached EXCEPT ![w] = @ + 1] /\ Level(job[w]) + 1 <= Level(j)
      BY <2>2, <2>5, <2>6
    <3>2. QED BY <1>1, <2>1, <2>2, <2>3, <2>6, <3>1
  <2>7. CASE j = "guard_failed"
    <3>1. reached' = [reached EXCEPT ![w] = @ + 0] /\ Level(job[w]) + 0 <= Level(j)
      BY <2>2, <2>5, <2>7
    <3>2. QED BY <1>1, <2>1, <2>2, <2>3, <2>7, <3>1
  <2>8. QED BY <2>1, <2>6, <2>7
<1>7. CASE Check(w)
  <2>1. PICK j \in {"ok", "guard_failed"} : Becomes(w, j)
    BY <1>7 DEF Check, TmuxStep
  <2>2. job[w] = "check" /\ Level(job[w]) = 2 /\ Level(j) = 2 /\ j \in (Steps \cup Outcomes) \ {"idle", "quiet"}
    BY <1>7, Levels DEF Check, TmuxStep, Steps, Outcomes
  <2>3. UNCHANGED <<sender, retries, attempt, status, reached, unheard>>
    BY <1>7 DEF Check, messageVars, retryVars, hintVars
  <2>4. reached[w] + 0 > 0
    BY <1>2, <2>2 DEF WakeInv, Good, Heard
  <2>5. reached' = [reached EXCEPT ![w] = @ + 0] /\ Level(job[w]) + 0 <= Level(j)
    BY <1>3, <2>2, <2>3
  <2>6. QED BY <1>1, <2>1, <2>2, <2>3, <2>4, <2>5
<1>8. QED BY <1>4, <1>5, <1>6, <1>7

\* fanoutAutoPoke for one recipient: not poked, or poked.
LEMMA OpenStep == ASSUME WakeInv, NEW w \in Wakes, Open(w) PROVE Only(w)
<1>1. job[w] = "open" /\ UNCHANGED <<sender, retries, attempt, status>>
  BY DEF Open, messageVars, retryVars
<1>2. CASE Dispatch(w)
  BY <1>1, <1>2, PokeStep
<1>3. CASE \E j \in {"self", "no_pane", "tmux_unavailable"} : Becomes(w, j) /\ Reaches(w, 0)
  <2>1. PICK j \in {"self", "no_pane", "tmux_unavailable"} : Becomes(w, j) /\ Reaches(w, 0)
    BY <1>3
  <2>2. Moves(w, j, 0)
    BY <1>1, <2>1 DEF Moves, Becomes, Reaches
  <2>3. Level(job[w]) = 0 /\ Level(j) = 2
    BY <1>1, Levels DEF Outcomes
  <2>4. Level(job[w]) + 0 <= Level(j)
    BY <2>3
  <2>5. Fits(w, j, 0)
    BY <1>1, <2>4 DEF Fits
  <2>6. j \in (Steps \cup Outcomes) \ {"idle"}
    BY DEF Outcomes
  <2>7. QED BY <2>2, <2>5, <2>6, MoveOnly
<1>4. QED BY <1>2, <1>3 DEF Open

\* The timer fires and the pane is guarded.
LEMMA QuietStep ==
  ASSUME WakeInv, NEW w \in Wakes, w \in retries, job[w] = "idle", Becomes(w, "quiet"),
         UNCHANGED <<messageVars, rowVars, retryVars, status, hintVars>>
  PROVE  Only(w)
<1>1. reached' = [reached EXCEPT ![w] = @ + 0]
  BY DEF hintVars, WakeInv, Tables
<1>2. Moves(w, "quiet", 0)
  BY <1>1 DEF Moves, Becomes, messageVars, retryVars, hintVars
<1>3. Fits(w, "quiet", 0) /\ "quiet" \in (Steps \cup Outcomes) \ {"idle"}
  BY DEF Fits, Steps
<1>4. QED BY <1>2, <1>3, MoveOnly

\* The entry of a wake is deleted with a final status.
LEMMA FinishOnly ==
  ASSUME WakeInv, NEW w \in Wakes, w \in retries, NEW wake \in Final, NEW n \in 0 .. RetryDelays,
         Finish(w, wake, n), wake = "delivered" => n # 0, UNCHANGED <<messageVars, hintVars>>
  PROVE  Only(w)
<1>1. [wake |-> wake, attempts |-> n] \in Statuses
  BY DEF Statuses, Final
<1>2. /\ status' \in [Wakes -> Statuses] /\ status'[w] = [wake |-> wake, attempts |-> n]
      /\ \A v \in Wakes \ {w} : status'[v] = status[v]
  BY <1>1 DEF Finish, Record, WakeInv, Tables
<1>3. /\ job' \in [Wakes -> Steps \cup Outcomes] /\ job'[w] = "idle"
      /\ \A v \in Wakes \ {w} : job'[v] = job[v]
  BY DEF Finish, Becomes, WakeInv, Tables, Steps
<1>4. /\ attempt' \in [Wakes -> 0 .. RetryDelays - 1] /\ attempt'[w] = 0
      /\ \A v \in Wakes \ {w} : attempt'[v] = attempt[v]
  BY DEF Finish, WakeInv, Tables, RetryDelays
<1>5. retries' = retries \ {w} /\ UNCHANGED <<sender, reached, unheard>>
  BY DEF Finish, messageVars, hintVars
<1>6. Tables'
  BY <1>2, <1>3, <1>4, <1>5 DEF WakeInv, Tables
<1>7. \A v \in Wakes \ {w} : Same(v)
  BY <1>2, <1>3, <1>4, <1>5 DEF Same
<1>8. Hints(w)' /\ Heard(w)'
  BY <1>2, <1>3, <1>5 DEF WakeInv, Good, Hints, Heard
<1>9. Listed(w)'
  BY <1>2, <1>3, <1>4, <1>5 DEF WakeInv, Good, Listed
<1>10. QED BY <1>5, <1>6, <1>7, <1>8, <1>9 DEF Only, Good

\* The next timer is set.
LEMMA AgainOnly ==
  ASSUME WakeInv, NEW w \in Wakes, w \in retries, attempt[w] + 1 < RetryDelays, job[w] = "quiet",
         GuardFails(w)
  PROVE  Only(w)
<1>1. attempt[w] \in 0 .. RetryDelays - 1 /\ attempt[w] + 1 \in 0 .. RetryDelays - 1
  BY DEF WakeInv, Tables, RetryDelays
<1>2. attempt' = [attempt EXCEPT ![w] = @ + 1] /\ Record(w, "retrying", attempt[w] + 1) /\ Becomes(w, "idle")
      /\ UNCHANGED <<sender, retries, reached, unheard>>
  BY <1>1 DEF GuardFails, RetryDelays, messageVars, hintVars
<1>3. /\ attempt' \in [Wakes -> 0 .. RetryDelays - 1] /\ attempt'[w] = attempt[w] + 1
      /\ \A v \in Wakes \ {w} : attempt'[v] = attempt[v]
  BY <1>1, <1>2 DEF WakeInv, Tables
<1>4. [wake |-> "retrying", attempts |-> attempt[w] + 1] \in Statuses
  BY <1>1 DEF Statuses, RetryDelays
<1>5. /\ status' \in [Wakes -> Statuses] /\ status'[w] = [wake |-> "retrying", attempts |-> attempt[w] + 1]
      /\ \A v \in Wakes \ {w} : status'[v] = status[v]
  BY <1>2, <1>4 DEF Record, WakeInv, Tables
<1>6. /\ job' \in [Wakes -> Steps \cup Outcomes] /\ job'[w] = "idle"
      /\ \A v \in Wakes \ {w} : job'[v] = job[v]
  BY <1>2 DEF Becomes, WakeInv, Tables, Steps
<1>7. Tables'
  BY <1>2, <1>3, <1>5, <1>6 DEF WakeInv, Tables
<1>8. \A v \in Wakes \ {w} : Same(v)
  BY <1>2, <1>3, <1>5, <1>6 DEF Same
<1>9. Hints(w)'
  <2>1. Level("quiet") = 0 /\ Before(w) = 2 /\ reached[w] \in Nat
    BY Levels DEF Before, WakeInv, Tables
  <2>2. reached[w] <= 2 + 0
    BY <2>1 DEF WakeInv, Good, Hints
  <2>3. QED BY <1>2, <1>6, <2>1, <2>2 DEF Hints
<1>10. Listed(w)' /\ Heard(w)'
  <2>1. sender[w[1]] # Nobody
    BY DEF WakeInv, Good, Listed
  <2>2. status'[w].wake = "retrying" /\ job'[w] # "ok" /\ job'[w] # "check"
    BY <1>5, <1>6
  <2>3. QED BY <1>2, <1>3, <1>5, <2>1, <2>2 DEF Listed, Heard
<1>11. QED BY <1>2, <1>7, <1>8, <1>9, <1>10 DEF Only, Good

\* tick, from its timer to its end.
LEMMA RetryStep ==
  ASSUME WakeInv, NEW w \in Wakes,
         Fire(w) \/ GuardFails(w) \/ GuardThrows(w) \/ GuardPasses(w) \/ Poked(w)
  PROVE  Only(w)
<1>1. attempt[w] \in 0 .. RetryDelays /\ attempt[w] + 1 \in 0 .. RetryDelays /\ attempt[w] + 1 # 0
  BY DEF WakeInv, Tables, RetryDelays
<1>2. job[w] = "quiet" => w \in retries
  BY DEF WakeInv, Good, Listed
<1>3. {"failed", "skipped", "delivered"} = Final /\ "delivered" # "failed" /\ "delivered" # "skipped"
  BY DEF Final
<1>4. CASE Fire(w)
  <2>1. w \in retries /\ job[w] = "idle" /\ UNCHANGED <<messageVars, hintVars>>
    BY <1>4 DEF Fire
  <2>2. CASE Finish(w, "failed", attempt[w]) \/ Finish(w, "skipped", attempt[w])
    BY <1>1, <1>3, <2>1, <2>2, FinishOnly
  <2>3. CASE Becomes(w, "quiet") /\ UNCHANGED <<retryVars, status>>
    BY <1>4, <2>1, <2>3, QuietStep DEF Fire
  <2>4. QED BY <1>4, <2>2, <2>3 DEF Fire
<1>5. CASE GuardFails(w)
  <2>1. w \in retries /\ job[w] = "quiet" /\ UNCHANGED <<messageVars, hintVars>>
    BY <1>2, <1>5 DEF GuardFails
  <2>2. CASE attempt[w] + 1 < RetryDelays
    BY <1>5, <2>1, <2>2, AgainOnly
  <2>3. CASE ~(attempt[w] + 1 < RetryDelays)
    <3>1. Finish(w, "failed", attempt[w] + 1)
      BY <1>1, <1>5, <2>3 DEF GuardFails, RetryDelays
    <3>2. QED BY <1>1, <1>3, <2>1, <3>1, FinishOnly
  <2>4. QED BY <2>2, <2>3
<1>6. CASE GuardThrows(w)
  BY <1>1, <1>2, <1>3, <1>6, FinishOnly DEF GuardThrows
<1>7. CASE GuardPasses(w)
  BY <1>7, PokeStep DEF GuardPasses, messageVars, retryVars
<1>8. CASE Poked(w)
  BY <1>1, <1>3, <1>8, FinishOnly DEF Poked
<1>9. QED BY <1>4, <1>5, <1>6, <1>7, <1>8

\* A poke and a retry are about one wake.
LEMMA StepOnly == ASSUME WakeInv, NEW w \in Wakes, Step(w) PROVE Only(w) /\ UNCHANGED <<messageVars, rowVars>>
<1>1. Only(w)
  BY OpenStep, StageStep, RetryStep DEF Step
<1>2. UNCHANGED <<messageVars, rowVars>>
  BY DEF Step, Open, Link, Guard, Type, Enter, Check, Fire, GuardFails, GuardThrows, GuardPasses, Poked
<1>3. QED BY <1>1, <1>2

-----------------------------------------------------------------------------
\* Before its message is written a wake is nowhere.
LEMMA Nowhere ==
  ASSUME WakeInv, NEW w \in Wakes, sender[w[1]] = Nobody
  PROVE  w \notin retries /\ job[w] = "idle" /\ status[w] = Unrecorded /\ reached[w] = 0 /\ attempt[w] = 0
  BY DEF WakeInv, Good, Listed

LEMMA WakeParts == \A w \in Wakes : w[1] \in Messages /\ w[2] \in Agents /\ w = <<w[1], w[2]>>
  BY DEF Wakes

LEMMA WriteSettings ==
  ASSUME Settings, NEW m \in Messages, NEW s \in Agents, NEW T \in SUBSET Agents, Write(m, s, T)
  PROVE  /\ sender' \in [Messages -> Agents \cup {Nobody}] /\ seen' \in [Wakes -> Rows \cup {Gone}]
         /\ sender[m] = Nobody /\ sender'[m] # Nobody
         /\ \A k \in Messages \ {m} : sender'[k] = sender[k]
<1>1. sender' \in [Messages -> Agents \cup {Nobody}]
  BY DEF Settings, Write
<1>2. seen' \in [Wakes -> Rows \cup {Gone}]
  <2>1. \A w \in Wakes : row[w[2]] \in Rows \cup {Gone} /\ seen[w] \in Rows \cup {Gone}
    BY WakeParts DEF Settings
  <2>2. QED BY <2>1 DEF Write
<1>3. QED BY <1>1, <1>2, AgentsAssumption DEF Settings, Write, Nobody

LEMMA SendStep ==
  ASSUME WakeInv, NEW m \in Messages, NEW s \in Agents, NEW T \in SUBSET Agents, Send(m, s, T)
  PROVE  WakeInv'
<1>1. Write(m, s, T) /\ UNCHANGED <<answered, rowVars, retryVars, status, hintVars>>
  BY DEF Send
<1>2. Settings'
  BY <1>1, WriteSettings DEF WakeInv, Settings, rowVars
<1>3. \A w \in Wakes : job'[w] = IF w[1] = m /\ w[2] \in T THEN "open" ELSE job[w]
  BY DEF Send
<1>4. job' \in [Wakes -> Steps \cup Outcomes]
  BY DEF Send, WakeInv, Tables, Steps
<1>5. Tables'
  BY <1>1, <1>4 DEF WakeInv, Tables, retryVars, hintVars
<1>6. UNCHANGED <<retries, attempt, status, reached, unheard>>
  BY <1>1 DEF retryVars, hintVars
<1>7. ASSUME NEW w \in Wakes PROVE Good(w)'
  <2>1. CASE w[1] = m
    <3>1. /\ w \notin retries /\ job[w] = "idle" /\ status[w] = Unrecorded /\ reached[w] = 0
          /\ attempt[w] = 0 /\ sender'[w[1]] # Nobody
      BY <1>1, <2>1, Nowhere, WriteSettings DEF WakeInv
    <3>2. job'[w] \in {"idle", "open"}
      BY <1>3, <3>1
    <3>3. Hints(w)'
      <4>1. Level("open") = 0 /\ Before(w)' = 0 /\ reached'[w] = 0 /\ w \notin retries'
        BY <1>6, <3>1, Levels DEF Before
      <4>2. QED BY <3>2, <4>1 DEF Hints
    <3>4. Listed(w)' /\ Heard(w)'
      BY <1>6, <3>1, <3>2 DEF Listed, Heard, Unrecorded
    <3>5. QED BY <3>3, <3>4 DEF Good
  <2>2. CASE w[1] # m
    <3>1. job'[w] = job[w] /\ sender'[w[1]] = sender[w[1]]
      BY <1>1, <1>3, <2>2, WriteSettings, WakeParts DEF WakeInv
    <3>2. Good(w)
      BY DEF WakeInv
    <3>3. QED BY <1>6, <3>1, <3>2 DEF Good, Hints, Before, Listed, Heard
  <2>3. QED BY <2>1, <2>2
<1>8. QED BY <1>2, <1>5, <1>7 DEF WakeInv

LEMMA SendQuietlyStep ==
  ASSUME WakeInv, NEW m \in Messages, NEW s \in Agents, NEW T \in SUBSET Agents, SendQuietly(m, s, T)
  PROVE  WakeInv'
<1>1. Write(m, s, T) /\ UNCHANGED <<rowVars, job, retryVars, hintVars>> /\ answered' = answered \cup {m}
  BY DEF SendQuietly
<1>2. Settings'
  BY <1>1, WriteSettings DEF WakeInv, Settings, rowVars
<1>3. \A w \in Wakes : status'[w] = IF w[1] = m /\ w[2] \in T THEN [wake |-> "skipped", attempts |-> 0]
                                     ELSE status[w]
  BY DEF SendQuietly
<1>4. status' \in [Wakes -> Statuses]
  <2>1. [wake |-> "skipped", attempts |-> 0] \in Statuses
    BY DEF Statuses, RetryDelays
  <2>2. QED BY <2>1 DEF SendQuietly, WakeInv, Tables
<1>5. Tables'
  BY <1>1, <1>4 DEF WakeInv, Tables, retryVars, hintVars
<1>6. UNCHANGED <<retries, attempt, job, reached, unheard>>
  BY <1>1 DEF retryVars, hintVars
<1>7. ASSUME NEW w \in Wakes PROVE Good(w)'
  <2>1. CASE w[1] = m
    <3>1. /\ w \notin retries /\ job[w] = "idle" /\ status[w] = Unrecorded /\ reached[w] = 0
          /\ attempt[w] = 0 /\ sender'[w[1]] # Nobody
      BY <1>1, <2>1, Nowhere, WriteSettings DEF WakeInv
    <3>2. status'[w].wake # "delivered"
      BY <1>3, <3>1 DEF Unrecorded
    <3>3. QED BY <1>6, <3>1, <3>2 DEF Good, Hints, Listed, Heard
  <2>2. CASE w[1] # m
    <3>1. status'[w] = status[w] /\ sender'[w[1]] = sender[w[1]]
      BY <1>1, <1>3, <2>2, WriteSettings, WakeParts DEF WakeInv
    <3>2. Good(w)
      BY DEF WakeInv
    <3>3. QED BY <1>6, <3>1, <3>2 DEF Good, Hints, Before, Listed, Heard
  <2>3. QED BY <2>1, <2>2
<1>8. QED BY <1>2, <1>5, <1>7 DEF WakeInv

\* The answer of a send: each recipient's poke is over, and none was listed.
LEMMA CollectStep == ASSUME WakeInv, NEW m \in Messages, Collect(m) PROVE WakeInv'
<1> DEFINE mine == {m} \X Recipients(m)
<1>1. mine \subseteq Wakes
  BY DEF Wakes, Recipients
<1>2. ASSUME NEW w \in mine PROVE job[w] \in Outcomes /\ w \notin retries
  BY <1>2 DEF Collect
<1>3. /\ retries' = retries \cup {w \in mine : Scheduled(w)}
      /\ UNCHANGED <<sender, seen, rowVars, attempt, hintVars>> /\ answered' = answered \cup {m}
  BY DEF Collect
<1>4. \A w \in Wakes : /\ status'[w] = IF w \in mine THEN [wake |-> FirstStatus(job[w]), attempts |-> 0]
                                        ELSE status[w]
                      /\ job'[w] = IF w \in mine THEN "idle" ELSE job[w]
  BY DEF Collect
<1>5. Settings'
  BY <1>3 DEF WakeInv, Settings, rowVars
<1>6. status' \in [Wakes -> Statuses]
  <2>1. \A w \in mine : [wake |-> FirstStatus(job[w]), attempts |-> 0] \in Statuses
    BY DEF Statuses, RetryDelays, FirstStatus
  <2>2. QED BY <2>1 DEF Collect, WakeInv, Tables
<1>7. job' \in [Wakes -> Steps \cup Outcomes]
  BY DEF Collect, WakeInv, Tables, Steps
<1>8. Tables'
  BY <1>1, <1>3, <1>6, <1>7 DEF WakeInv, Tables, hintVars
<1> HIDE DEF mine
<1>9. ASSUME NEW w \in Wakes PROVE Good(w)'
  <2>1. Good(w) /\ reached[w] \in Nat /\ UNCHANGED <<sender, attempt, reached, unheard>>
    BY <1>3 DEF WakeInv, Tables, hintVars
  <2>2. CASE w \in mine
    <3>1. job[w] \in Outcomes /\ w \notin retries /\ job'[w] = "idle" /\ attempt[w] = 0
          /\ status'[w] = [wake |-> FirstStatus(job[w]), attempts |-> 0]
      BY <1>2, <1>4, <2>1, <2>2 DEF Good, Listed
    <3>2. Hints(w)'
      <4>1. reached[w] <= 2
        <5>1. Level(job[w]) = 2 /\ Before(w) = 0 /\ job[w] # "idle"
          BY <3>1, Levels DEF Before, Outcomes
        <5>2. reached[w] <= 0 + 2
          BY <2>1, <5>1 DEF Good, Hints
        <5>3. QED BY <2>1, <5>2
      <4>2. QED BY <2>1, <3>1, <4>1 DEF Hints
    <3>3. Listed(w)'
      <4>1. sender[w[1]] # Nobody
        BY <2>1, <3>1 DEF Good, Listed, Outcomes
      <4>2. w \in retries' => FirstStatus(job[w]) = "retrying"
        BY <1>3, <3>1 DEF Scheduled, FirstStatus
      <4>3. QED BY <2>1, <3>1, <4>1, <4>2 DEF Listed
    <3>4. Heard(w)'
      <4>1. FirstStatus(job[w]) = "delivered" => job[w] = "ok"
        BY DEF FirstStatus
      <4>2. QED BY <2>1, <3>1, <4>1 DEF Good, Heard
    <3>5. QED BY <3>2, <3>3, <3>4 DEF Good
  <2>3. CASE w \notin mine
    <3>1. Same(w)
      BY <1>3, <1>4, <2>1, <2>3 DEF Same
    <3>2. QED BY <2>1, <3>1, SameStaysGood
  <2>4. QED BY <2>2, <2>3
<1>10. QED BY <1>5, <1>8, <1>9 DEF WakeInv

\* Rows change, recipients become active.
LEMMA AroundStep ==
  ASSUME WakeInv, NEW a \in Agents, Touch(a) \/ Leave(a) \/ \E r \in Rows : Bind(a, r)
  PROVE  WakeInv'
<1>1. UNCHANGED <<messageVars, tmux, job, retryVars, status, hintVars>>
  BY DEF Touch, Leave, Bind
<1>2. active' \subseteq Wakes
  BY DEF Touch, Leave, Bind, WakeInv, Settings
<1>3. row' \in [Agents -> Rows \cup {Gone}] /\ binds' \in 0 .. MaxBinds
  BY BindsAssumption DEF Touch, Leave, Bind, WakeInv, Settings
<1>4. Settings'
  BY <1>1, <1>2, <1>3 DEF WakeInv, Settings, messageVars
<1>5. Tables' /\ \A w \in Wakes : Same(w) /\ sender' = sender
  BY <1>1 DEF WakeInv, Tables, Same, messageVars, retryVars, hintVars
<1>6. QED BY <1>4, <1>5, SameStaysGood DEF WakeInv

\* A restart forgets pokes and timers.
LEMMA RestartStep == ASSUME WakeInv, Restart PROVE WakeInv'
<1>1. /\ \A w \in Wakes : job'[w] = "idle" /\ attempt'[w] = 0
      /\ retries' = {} /\ UNCHANGED <<messageVars, row, binds, active, status, hintVars>>
  BY DEF Restart
<1>2. Settings'
  BY <1>1 DEF Restart, WakeInv, Settings, messageVars
<1>3. Tables'
  <2>1. job' \in [Wakes -> Steps \cup Outcomes]
    BY DEF Restart, Steps
  <2>2. attempt' \in [Wakes -> 0 .. RetryDelays - 1]
    BY DEF Restart, RetryDelays
  <2>3. QED BY <1>1, <2>1, <2>2 DEF WakeInv, Tables, hintVars
<1>4. ASSUME NEW w \in Wakes PROVE Good(w)'
  <2>1. Good(w)
    BY DEF WakeInv
  <2>2. UNCHANGED <<sender, reached, unheard, status>>
    BY <1>1 DEF messageVars, hintVars
  <2>3. QED BY <1>1, <2>1, <2>2 DEF Good, Hints, Listed, Heard
<1>5. QED BY <1>2, <1>3, <1>4 DEF WakeInv

LEMMA WakeInit == Init => WakeInv
<1> SUFFICES ASSUME Init PROVE WakeInv
  OBVIOUS
<1>1. Settings
  BY BindsAssumption DEF Init, Settings
<1>2. Tables
  <2>1. Unrecorded \in Statuses
    BY DEF Unrecorded, Statuses, RetryDelays
  <2>2. QED BY <2>1 DEF Init, Tables, Steps, RetryDelays
<1>3. \A w \in Wakes : Good(w)
  BY DEF Init, Good, Hints, Listed, Heard, Unrecorded
<1>4. QED BY <1>1, <1>2, <1>3 DEF WakeInv

LEMMA WakeStep == WakeInv /\ [Next]_vars => WakeInv'
<1> SUFFICES ASSUME WakeInv, [Next]_vars PROVE WakeInv'
  OBVIOUS
<1>1. ASSUME NEW m \in Messages, NEW s \in Agents, NEW T \in SUBSET Agents, Send(m, s, T) \/ SendQuietly(m, s, T)
      PROVE  WakeInv'
  BY <1>1, SendStep, SendQuietlyStep
<1>2. ASSUME NEW w \in Wakes, Step(w) PROVE WakeInv'
  <2>1. Settings'
    BY <1>2, StepOnly DEF WakeInv, Settings, messageVars, rowVars
  <2>2. QED BY <1>2, <2>1, StepOnly, OnlyKeeps
<1>3. ASSUME NEW m \in Messages, Collect(m) PROVE WakeInv'
  BY <1>3, CollectStep
<1>4. ASSUME NEW a \in Agents, Touch(a) \/ Leave(a) \/ \E r \in Rows : Bind(a, r) PROVE WakeInv'
  BY <1>4, AroundStep
<1>5. CASE Restart
  BY <1>5, RestartStep
<1>6. CASE UNCHANGED vars
  <2>1. UNCHANGED <<messageVars, rowVars, job, retryVars, status, hintVars>>
    BY <1>6 DEF vars
  <2>2. Settings' /\ Tables'
    BY <2>1 DEF WakeInv, Settings, Tables, messageVars, rowVars, retryVars, hintVars
  <2>3. \A w \in Wakes : Same(w) /\ sender' = sender
    BY <2>1 DEF Same, messageVars, retryVars, hintVars
  <2>4. QED BY <2>2, <2>3, SameStaysGood DEF WakeInv
<1>7. QED BY <1>1, <1>2, <1>3, <1>4, <1>5, <1>6 DEF Next

-----------------------------------------------------------------------------
\* The invariant of waking: for each wake, where its poke or retry stands tells its
\* status and how many hints may have got through.
THEOREM WakeInvariant == Spec => []WakeInv
<1>1. Init => WakeInv
  BY WakeInit
<1>2. WakeInv /\ [Next]_vars => WakeInv'
  BY WakeStep
<1>3. QED BY <1>1, <1>2, PTL DEF Spec

\* Types; at most four hints for a wake (poke, its fallback to keystrokes, and one
\* retry that gets as far).
THEOREM WakeTypeCorrect == Spec => []TypeOK
<1>1. WakeInv => TypeOK
  <2> SUFFICES ASSUME WakeInv PROVE TypeOK
    OBVIOUS
  <2>1. \A w \in Wakes : reached[w] \in Nat /\ reached[w] <= 4
    BY DEF WakeInv, Tables, Good, Hints
  <2>2. reached \in [Wakes -> 0 .. 4]
    BY <2>1 DEF WakeInv, Tables
  <2>3. QED BY <2>2 DEF WakeInv, Settings, Tables, Statuses, TypeOK
<1>2. QED BY <1>1, WakeInvariant, PTL

\* retryMap agrees with message_delivery_status (scheduleRetry and tick).
THEOREM WakeTimersAreListed == Spec => []TimersAreListed
<1>1. WakeInv => TimersAreListed
  BY DEF WakeInv, Tables, Good, Listed, TimersAreListed
<1>2. QED BY <1>1, WakeInvariant, PTL

\* What a send answers as delivered got its hint (runFanoutWithRetry).
THEOREM WakeDeliveredAtOnceReached == Spec => []DeliveredAtOnceReached
<1>1. WakeInv => DeliveredAtOnceReached
  BY DEF WakeInv, Good, Heard, DeliveredAtOnceReached
<1>2. QED BY <1>1, WakeInvariant, PTL

\* A wake with a final status has neither a poke under way nor a timer.
LEMMA FinalIsIdle ==
  ASSUME WakeInv, NEW w \in Wakes, status[w].wake \in Final
  PROVE  w \notin retries /\ job[w] = "idle" /\ sender[w[1]] # Nobody
<1>1. Unrecorded.wake \notin Final /\ "retrying" \notin Final
  BY DEF Unrecorded, Final
<1>2. Listed(w)
  BY DEF WakeInv, Good
<1>3. w \notin retries
  BY <1>1, <1>2 DEF Listed
<1>4. status[w] # Unrecorded
  BY <1>1
<1>5. QED BY <1>2, <1>3, <1>4 DEF Listed

\* Once listed as delivered, skipped or failed, a wake keeps its status, and its
\* agent gets no further hint of it (tick deletes its entry with the final status).
THEOREM WakeFinalIsFinal == Spec => FinalIsFinal
<1>1. WakeInv /\ [Next]_vars
        => [\A w \in Wakes : status[w].wake \in Final =>
              status'[w] = status[w] /\ reached'[w] = reached[w]]_vars
  <2>1. SUFFICES ASSUME WakeInv, [Next]_vars, NEW w \in Wakes, status[w].wake \in Final
                 PROVE  status'[w] = status[w] /\ reached'[w] = reached[w]
    OBVIOUS
  <2>2. w \notin retries /\ job[w] = "idle" /\ sender[w[1]] # Nobody
    BY <2>1, FinalIsIdle
  <2>3. ASSUME NEW v \in Wakes, Step(v) PROVE status'[w] = status[w] /\ reached'[w] = reached[w]
    <3>1. v # w
      BY <2>2, <2>3 DEF Step, Open, Link, Guard, Type, Enter, Check, TmuxStep, Fire, GuardFails, GuardThrows,
                        GuardPasses, Poked
    <3>2. QED BY <2>1, <2>3, <3>1, StepOnly DEF Only, Same
  <2>4. ASSUME NEW m \in Messages, Collect(m) PROVE status'[w] = status[w] /\ reached'[w] = reached[w]
    <3>1. w \notin {m} \X Recipients(m)
      BY <2>2, <2>4 DEF Collect, Outcomes
    <3>2. QED BY <2>4, <3>1 DEF Collect, hintVars
  <2>5. ASSUME NEW m \in Messages, NEW s \in Agents, NEW T \in SUBSET Agents,
               Send(m, s, T) \/ SendQuietly(m, s, T)
        PROVE  status'[w] = status[w] /\ reached'[w] = reached[w]
    <3>1. w[1] # m
      BY <2>2, <2>5 DEF Send, SendQuietly, Write
    <3>2. QED BY <2>5, <3>1 DEF Send, SendQuietly, hintVars
  <2>6. ASSUME \/ Restart \/ UNCHANGED vars
               \/ \E a \in Agents : Touch(a) \/ Leave(a) \/ \E r \in Rows : Bind(a, r)
        PROVE  status'[w] = status[w] /\ reached'[w] = reached[w]
    BY <2>6 DEF Restart, Touch, Leave, Bind, vars, hintVars
  <2>7. QED BY <2>1, <2>3, <2>4, <2>5, <2>6 DEF Next
<1>2. QED BY <1>1, WakeInvariant, PTL DEF Spec, FinalIsFinal
=============================================================================
