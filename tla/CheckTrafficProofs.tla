------------------------- MODULE CheckTrafficProofs -------------------------
(* How long a monitor goes without a result, for every interval, period,    *)
(* deadline and rate, and for any number of clients and workers; what the   *)
(* throttles remember, how many manual checks they let through and how the  *)
(* backlog grows, for every rate and window; and that both paths of a check *)
(* reach the same verdict.                                                  *)
EXTENDS CheckTraffic, FiniteSetTheorems, TLAPS

-----------------------------------------------------------------------------
(* The inductive invariant.  The age of the newest result is made up of the   *)
(* units in which nothing of the monitor was on its way, those in which only  *)
(* calls of probes were, and those that held counts.  The first end with the  *)
(* next beat, unless its tick or check is lost; the second with the deadline. *)
Timers ==
    /\ checked \in BOOLEAN /\ age \in Nat /\ beat \in 0 .. Period
    /\ queue \in Seq(Task)
    /\ worker \in [Worker -> [pc : {"idle", "rpc", "local", "away"},
                              spent : 0 .. Deadline]]
    /\ lost \in 0 .. MaxLost /\ held \in 0 .. MaxHeld

Busy(w) == worker[w].pc \in {"rpc", "local"}

Reach(n) == Interval + Period * (1 + n)
Slack(n) == Deadline * n

Called(r) ==
    \/ r <= Slack(lost)
    \/ \E w \in Worker : worker[w].pc = "rpc" /\ r <= Slack(lost) + worker[w].spent
    \/ \E w \in Worker : worker[w].pc = "local" /\ r <= Slack(lost) + Deadline

Unordered(i) ==
    /\ i <= Reach(lost)
    /\ queue = <<>> /\ (\A w \in Worker : ~Busy(w)) => i + beat <= Reach(lost)

AgeInv == \E i, r \in Nat : age = i + r + held /\ Unordered(i) /\ Called(r)

GapInv == Timers /\ AgeInv

(* Products of constants with the number of losses, as sums. *)
LEMMA Sums ==
    ASSUME NEW n \in Nat
    PROVE  /\ Reach(n) \in Nat /\ Slack(n) \in Nat
           /\ Reach(n + 1) = Reach(n) + Period /\ Slack(n + 1) = Slack(n) + Deadline
           /\ Interval + Period <= Reach(n)
           /\ Interval + (Period + Deadline) * (1 + n) = Reach(n) + Slack(n) + Deadline
  <1>1. Interval \in Nat /\ Period \in Nat /\ Deadline \in Nat
    BY SchedulerAssumption
  <1>2. Period * n \in Nat /\ Deadline * n \in Nat
    BY <1>1
  <1>3. /\ Period * (1 + n) = Period + Period * n
        /\ Period * (1 + (n + 1)) = Period + Period + Period * n
        /\ Deadline * (n + 1) = Deadline * n + Deadline
    BY <1>1
  <1>4. (Period + Deadline) * (1 + n) = Period * (1 + n) + Deadline * (1 + n)
    BY <1>1
  <1>5. Deadline * (1 + n) = Deadline * n + Deadline
    BY <1>1
  <1> QED BY <1>1, <1>2, <1>3, <1>4, <1>5 DEF Reach, Slack

LEMMA DoingType ==
    ASSUME NEW pc \in {"idle", "rpc", "local", "away"}
    PROVE  /\ Doing(pc) \in [pc : {"idle", "rpc", "local", "away"}, spent : 0 .. Deadline]
           /\ Doing(pc).pc = pc /\ Doing(pc).spent = 0
  BY SchedulerAssumption DEF Doing

LEMMA TaskType ==
    /\ \A task \in {"tick", "manual"} :
          New(task) \in Task /\ New(task).task = task /\ New(task).age = 0
    /\ \A t \in Task : /\ [t EXCEPT !.task = "check"] \in Task
                       /\ [t EXCEPT !.task = "check"].task = "check"
                       /\ [t EXCEPT !.task = "check"].age = t.age
                       /\ [t EXCEPT !.age = @ + 1] \in Task
                       /\ [t EXCEPT !.age = @ + 1].task = t.task
                       /\ [t EXCEPT !.age = @ + 1].age = t.age + 1
  BY DEF New, Task

(* One worker changes what it does. *)
LEMMA WorkerChanges ==
    ASSUME Timers, NEW w \in Worker, NEW pc \in {"idle", "rpc", "local", "away"},
           worker' = [worker EXCEPT ![w] = Doing(pc)]
    PROVE  /\ worker' \in [Worker -> [pc : {"idle", "rpc", "local", "away"},
                                      spent : 0 .. Deadline]]
           /\ worker'[w].pc = pc
           /\ \A u \in Worker \ {w} : worker'[u] = worker[u]
  BY DoingType DEF Timers

LEMMA InitGap == Init => GapInv
  <1> SUFFICES ASSUME Init PROVE GapInv
    OBVIOUS
  <1>1. /\ checked = FALSE /\ age = 0 /\ beat = Period /\ queue = <<>>
        /\ worker = [w \in Worker |-> Doing("idle")] /\ lost = 0 /\ held = 0
    BY DEF Init, SchedulerInit
  <1>2. Timers
    <2>1. <<>> \in Seq(Task)
      OBVIOUS
    <2>2. Period \in 0 .. Period /\ 0 \in 0 .. MaxLost /\ 0 \in 0 .. MaxHeld
      BY SchedulerAssumption
    <2> QED BY <1>1, <2>1, <2>2, DoingType DEF Timers
  <1>3. Unordered(0) /\ Called(0)
    BY <1>1, Sums, SchedulerAssumption DEF Unordered, Called
  <1> QED BY <1>1, <1>2, <1>3 DEF GapInv, AgeInv

(* A new result: whatever went before does not count. *)
LEMMA StampGap ==
    ASSUME GapInv, Stamp, beat' = beat, queue' = queue,
           worker' \in [Worker -> [pc : {"idle", "rpc", "local", "away"},
                                   spent : 0 .. Deadline]]
    PROVE  GapInv'
  <1>1. Timers'
    BY SchedulerAssumption DEF GapInv, Timers, Stamp
  <1>2. Unordered(0)' /\ Called(0)'
    <2>1. lost' = 0 /\ beat' \in 0 .. Period
      BY DEF Stamp, GapInv, Timers
    <2>2. Reach(0) \in Nat /\ Slack(0) \in Nat /\ Interval + Period <= Reach(0)
      BY Sums
    <2>3. 0 <= Reach(0) /\ 0 + beat' <= Reach(0) /\ 0 <= Slack(0)
      BY <2>1, <2>2, SchedulerAssumption
    <2> QED BY <2>1, <2>3 DEF Unordered, Called
  <1> QED BY <1>1, <1>2 DEF GapInv, AgeInv, Stamp

(* One tick or check is lost: there is a beat more to wait, and a call more. *)
LEMMA LoseGap ==
    ASSUME GapInv, Lose, UNCHANGED <<age, held, checked>>,
           beat' \in 0 .. Period, queue' \in Seq(Task),
           worker' \in [Worker -> [pc : {"idle", "rpc", "local", "away"},
                                   spent : 0 .. Deadline]]
    PROVE  GapInv'
  <1>1. /\ lost \in Nat /\ lost' = lost + 1 /\ lost' \in 0 .. MaxLost
        /\ Period \in Nat /\ Deadline \in Nat
    BY SchedulerAssumption DEF Lose, GapInv, Timers
  <1>2. PICK i \in Nat, r \in Nat : age = i + r + held /\ Unordered(i) /\ Called(r)
    BY DEF GapInv, AgeInv
  <1>3. /\ Reach(lost) \in Nat /\ Slack(lost) \in Nat
        /\ Reach(lost') = Reach(lost) + Period /\ Slack(lost') = Slack(lost) + Deadline
    BY <1>1, Sums
  <1>4. r <= Slack(lost')
    <2>1. \A w \in Worker : worker[w].spent \in 0 .. Deadline
      BY DEF GapInv, Timers
    <2> QED BY <1>1, <1>2, <1>3, <2>1 DEF Called
  <1>5. i <= Reach(lost') /\ i + beat' <= Reach(lost')
    BY <1>1, <1>2, <1>3 DEF Unordered
  <1>6. Unordered(i)' /\ Called(r)'
    BY <1>4, <1>5 DEF Unordered, Called
  <1>7. Timers'
    BY <1>1 DEF GapInv, Timers
  <1> QED BY <1>2, <1>6, <1>7 DEF GapInv, AgeInv

(* Nothing is lost and no result comes: the workers under way stay so. *)
LEMMA StayGap ==
    ASSUME GapInv, UNCHANGED <<age, held, checked, lost>>,
           beat' \in 0 .. Period, queue' \in Seq(Task),
           worker' \in [Worker -> [pc : {"idle", "rpc", "local", "away"},
                                   spent : 0 .. Deadline]],
           \A w \in Worker : Busy(w) => worker'[w] = worker[w],
           \/ queue' # <<>>
           \/ \E w \in Worker : Busy(w)'
           \/ queue = <<>> /\ beat' = beat /\ (\A w \in Worker : ~Busy(w))
           \/ age <= Interval
    PROVE  GapInv'
  <1>1. PICK i \in Nat, r \in Nat : age = i + r + held /\ Unordered(i) /\ Called(r)
    BY DEF GapInv, AgeInv
  <1>2. Timers'
    BY DEF GapInv, Timers
  <1>3. Called(r)'
    BY <1>1 DEF Called, Busy
  <1>4. age <= Interval => i + beat' <= Reach(lost)
    <2>1. held \in Nat /\ lost \in Nat /\ Interval \in Nat /\ Period \in Nat
      BY SchedulerAssumption DEF GapInv, Timers
    <2>2. Interval + Period <= Reach(lost) /\ Reach(lost) \in Nat
      BY <2>1, Sums
    <2> QED BY <1>1, <2>1, <2>2
  <1>5. Unordered(i)'
    BY <1>1, <1>4 DEF Unordered
  <1> QED BY <1>1, <1>2, <1>3, <1>5 DEF GapInv, AgeInv

LEMMA ManualGap ==
    ASSUME GapInv, NEW c \in Client, Manual(c) PROVE GapInv'
  <1>1. /\ UNCHANGED <<checked, age, beat, worker, lost, held>>
        /\ queue' = Append(queue, New("manual")) \/ queue' = queue
    BY DEF Manual, schedulerVars
  <1>2. CASE queue' = queue
    BY <1>1, <1>2 DEF GapInv, Timers, AgeInv, Unordered, Called, Busy
  <1>3. CASE queue' = Append(queue, New("manual"))
    <2>1. queue' \in Seq(Task) /\ queue' # <<>>
      BY <1>3, TaskType DEF GapInv, Timers
    <2> QED BY <1>1, <2>1, StayGap DEF GapInv, Timers, Busy
  <1> QED BY <1>1, <1>2, <1>3

LEMMA WorkGap ==
    ASSUME GapInv, Work PROVE GapInv'
  <1>0. Timers
    BY DEF GapInv
  <1>1. CASE Beat
    <2>1. beat' \in 0 .. Period
      BY <1>1, SchedulerAssumption DEF Beat
    <2>2. CASE queue' = Append(queue, New("tick")) /\ UNCHANGED lost
      <3>1. queue' \in Seq(Task) /\ queue' # <<>>
        BY <1>0, <2>2, TaskType DEF Timers
      <3> QED BY <1>0, <1>1, <2>1, <2>2, <3>1, StayGap DEF Beat, Timers, Busy
    <2>3. CASE Lose /\ UNCHANGED queue
      BY <1>0, <1>1, <2>1, <2>3, LoseGap DEF Beat, Timers
    <2> QED BY <1>1, <2>2, <2>3 DEF Beat
  <1>2. ASSUME NEW w \in Worker, RunTick(w) PROVE GapInv'
    <2>1. /\ Head(queue) \in Task /\ Tail(queue) \in Seq(Task) /\ worker[w].pc = "idle"
          /\ UNCHANGED <<checked, age, beat, held>> /\ beat' \in 0 .. Period
      BY <1>0, <1>2 DEF Timers, RunTick, Takes
    <2>2. CASE /\ queue' = Append(Tail(queue), [Head(queue) EXCEPT !.task = "check"])
               /\ UNCHANGED <<lost, worker>>
      <3> DEFINE t == [Head(queue) EXCEPT !.task = "check"]
      <3>0. t \in Task
        BY <2>1, TaskType, Zenon
      <3> HIDE DEF t
      <3>1. queue' \in Seq(Task) /\ queue' # <<>>
        BY <2>1, <2>2, <3>0 DEF t
      <3> QED BY <1>0, <2>1, <2>2, <3>1, StayGap DEF Timers, Busy
    <2>3. CASE /\ ~Due \/ (checked /\ age = Interval)
               /\ queue' = Tail(queue) /\ UNCHANGED <<lost, worker>>
      <3>1. age <= Interval
        BY <1>0, <2>3, SchedulerAssumption DEF Due, Timers
      <3> QED BY <1>0, <2>1, <2>3, <3>1, StayGap DEF Timers, Busy
    <2>4. ASSUME Lose, queue' = Tail(queue), NEW pc \in {"idle", "away"},
                 worker' = [worker EXCEPT ![w] = Doing(pc)]
          PROVE  GapInv'
      BY <1>0, <2>1, <2>4, WorkerChanges, LoseGap
    <2> QED BY <1>2, <2>2, <2>3, <2>4 DEF RunTick
  <1>3. ASSUME NEW w \in Worker, StartCheck(w) PROVE GapInv'
    <2>1. Tail(queue) \in Seq(Task) /\ worker[w].pc = "idle"
      BY <1>0, <1>3 DEF Timers, StartCheck, Takes
    <2>2. /\ worker' \in [Worker -> [pc : {"idle", "rpc", "local", "away"},
                                     spent : 0 .. Deadline]]
          /\ worker'[w].pc = "rpc" /\ \A u \in Worker \ {w} : worker'[u] = worker[u]
      BY <1>0, <1>3, WorkerChanges DEF StartCheck
    <2>3. Busy(w)' /\ \A u \in Worker : Busy(u) => worker'[u] = worker[u]
      BY <2>1, <2>2 DEF Busy
    <2> QED BY <1>0, <1>3, <2>1, <2>2, <2>3, StayGap DEF StartCheck, Timers
  <1>4. ASSUME NEW w \in Worker, RpcAnswers(w) \/ LocalEnds(w) PROVE GapInv'
    BY <1>0, <1>4, WorkerChanges, StampGap DEF RpcAnswers, LocalEnds
  <1>5. ASSUME NEW w \in Worker, RpcFails(w) PROVE GapInv'
    <2>1. /\ worker' \in [Worker -> [pc : {"idle", "rpc", "local", "away"},
                                     spent : 0 .. Deadline]]
          /\ worker'[w].pc = "local" /\ \A u \in Worker \ {w} : worker'[u] = worker[u]
      BY <1>0, <1>5, WorkerChanges DEF RpcFails
    <2>2. worker[w].pc = "rpc" /\ worker[w].spent \in 0 .. Deadline
          /\ UNCHANGED <<checked, age, beat, queue, lost, held>>
      BY <1>0, <1>5 DEF RpcFails, Timers
    <2>3. PICK i \in Nat, r \in Nat : age = i + r + held /\ Unordered(i) /\ Called(r)
      BY DEF GapInv, AgeInv
    <2>4. Called(r)'
      <3>1. Slack(lost) \in Nat /\ Deadline \in Nat
        <4>1. lost \in Nat /\ Deadline \in Nat
          BY <1>0, SchedulerAssumption DEF Timers
        <4> QED BY <4>1, Sums
      <3>2. CASE r <= Slack(lost) + worker[w].spent
        <4>1. r <= Slack(lost) + Deadline
          BY <2>2, <3>1, <3>2
        <4> QED BY <2>1, <2>2, <4>1 DEF Called
      <3>3. CASE ~(r <= Slack(lost) + worker[w].spent)
        <4>1. \/ r <= Slack(lost)
              \/ \E u \in Worker \ {w} :
                    worker[u].pc = "rpc" /\ r <= Slack(lost) + worker[u].spent
              \/ \E u \in Worker \ {w} :
                    worker[u].pc = "local" /\ r <= Slack(lost) + Deadline
          BY <2>2, <2>3, <3>3 DEF Called
        <4> QED BY <2>1, <2>2, <4>1 DEF Called
      <3> QED BY <3>2, <3>3
    <2>5. Unordered(i)'
      BY <2>1, <2>2, <2>3 DEF Unordered, Busy
    <2>6. Timers'
      BY <1>0, <2>1, <2>2 DEF Timers
    <2> QED BY <2>2, <2>3, <2>4, <2>5, <2>6 DEF GapInv, AgeInv
  <1>6. ASSUME NEW w \in Worker, CheckLost(w) PROVE GapInv'
    <2>1. PICK pc \in {"idle", "away"} : worker' = [worker EXCEPT ![w] = Doing(pc)]
      BY <1>6 DEF CheckLost
    <2> QED BY <1>0, <1>6, <2>1, WorkerChanges, LoseGap DEF CheckLost, Timers
  <1>7. ASSUME NEW w \in Worker, Leave(w) \/ Return(w) PROVE GapInv'
    <2>1. PICK pc \in {"idle", "away"} : worker' = [worker EXCEPT ![w] = Doing(pc)]
      BY <1>7 DEF Leave, Return
    <2>2. /\ worker' \in [Worker -> [pc : {"idle", "rpc", "local", "away"},
                                     spent : 0 .. Deadline]]
          /\ worker'[w].pc = pc /\ \A u \in Worker \ {w} : worker'[u] = worker[u]
      BY <1>0, <2>1, WorkerChanges
    <2>3. /\ ~Busy(w) /\ ~Busy(w)'
          /\ UNCHANGED <<checked, age, beat, queue, lost, held>>
      BY <1>7, <2>2 DEF Leave, Return, Busy
    <2>4. \A u \in Worker : Busy(u) => worker'[u] = worker[u] /\ Busy(u)'
      BY <2>2, <2>3 DEF Busy
    <2> QED BY <1>0, <2>2, <2>3, <2>4, StayGap DEF Timers
  <1>8. CASE Seed
    BY <1>0, <1>8, StampGap DEF Seed, Timers
  <1> QED BY <1>1, <1>2, <1>3, <1>4, <1>5, <1>6, <1>7, <1>8 DEF Work

(* One unit: held counts it, or a call of probes under way does, or nothing   *)
(* is on its way and the next beat is nearer.                                 *)
LEMMA PassGap ==
    ASSUME GapInv, Pass PROVE GapInv'
  <1>1. /\ TimeMayPass /\ age' = age + 1 /\ beat' = beat - 1
        /\ held' = IF Held THEN held + 1 ELSE held
        /\ queue' = [n \in DOMAIN queue |-> [queue[n] EXCEPT !.age = @ + 1]]
        /\ worker' = [w \in Worker |-> IF worker[w].pc = "rpc"
                                       THEN [worker[w] EXCEPT !.spent = @ + 1]
                                       ELSE worker[w]]
        /\ checked' = checked /\ lost' = lost
    BY DEF Pass, SchedulerPass
  <1>2. /\ worker' \in [Worker -> [pc : {"idle", "rpc", "local", "away"},
                                   spent : 0 .. Deadline]]
        /\ \A w \in Worker : /\ worker'[w].pc = worker[w].pc
                             /\ worker[w].pc = "rpc" =>
                                  worker'[w].spent = worker[w].spent + 1
    <2> SUFFICES ASSUME NEW w \in Worker
                 PROVE  /\ worker'[w] \in [pc : {"idle", "rpc", "local", "away"},
                                           spent : 0 .. Deadline]
                        /\ worker'[w].pc = worker[w].pc
                        /\ worker[w].pc = "rpc" => worker'[w].spent = worker[w].spent + 1
      BY <1>1
    <2>1. /\ worker[w] \in [pc : {"idle", "rpc", "local", "away"}, spent : 0 .. Deadline]
          /\ worker[w].pc = "rpc" => worker[w].spent < Deadline
          /\ Deadline \in Nat
      BY <1>1, SchedulerAssumption DEF GapInv, Timers, TimeMayPass
    <2> QED BY <1>1, <2>1
  <1>3. queue' \in Seq(Task) /\ (queue' = <<>>) = (queue = <<>>)
    <2>1. queue \in Seq(Task) /\ Len(queue) \in Nat /\ DOMAIN queue = 1 .. Len(queue)
      BY DEF GapInv, Timers
    <2>2. ASSUME NEW n \in 1 .. Len(queue)
          PROVE  [queue[n] EXCEPT !.age = @ + 1] \in Task
      <3>1. queue[n] \in Task
        BY <2>1
      <3> QED BY <3>1, TaskType, Zenon
    <2>3. queue' = [n \in 1 .. Len(queue) |-> [queue[n] EXCEPT !.age = @ + 1]]
      BY <1>1, <2>1
    <2>4. queue' \in Seq(Task) /\ Len(queue') = Len(queue)
      BY <2>1, <2>2, <2>3
    <2> QED BY <2>1, <2>4
  <1>4. /\ held \in Nat /\ lost \in Nat /\ age \in Nat /\ Period \in Nat
        /\ beat \in 0 .. Period /\ beat > 0 /\ (Held => held < MaxHeld) /\ MaxHeld \in Nat
        /\ Slack(lost) \in Nat /\ Reach(lost) \in Nat
    <2>1. /\ held \in Nat /\ lost \in Nat /\ age \in Nat /\ Period \in Nat
          /\ beat \in 0 .. Period /\ MaxHeld \in Nat
      BY SchedulerAssumption DEF GapInv, Timers
    <2>2. beat > 0 /\ (Held => held < MaxHeld)
      BY <1>1 DEF TimeMayPass
    <2> QED BY <2>1, <2>2, Sums
  <1>5. Timers'
    <2>1. held' \in 0 .. MaxHeld /\ beat' \in 0 .. Period /\ age' \in Nat
      BY <1>1, <1>4 DEF GapInv, Timers
    <2> QED BY <1>1, <1>2, <1>3, <2>1 DEF GapInv, Timers
  <1>6. PICK i \in Nat, r \in Nat : age = i + r + held /\ Unordered(i) /\ Called(r)
    BY DEF GapInv, AgeInv
  <1>7. Called(r)'
    <2>1. \A w \in Worker : worker[w].pc = "rpc" =>
             worker[w].spent \in Nat /\ worker[w].spent <= worker'[w].spent
      BY <1>2 DEF GapInv, Timers
    <2>2. \A w \in Worker : worker[w].pc = "rpc" /\ r <= Slack(lost) + worker[w].spent
                                => r <= Slack(lost) + worker'[w].spent
      BY <1>2, <1>4, <2>1
    <2> QED BY <1>1, <1>2, <1>6, <2>2 DEF Called
  <1>8. CASE Held
    <2>1. ~(queue' = <<>> /\ \A w \in Worker : ~Busy(w)')
      BY <1>2, <1>3, <1>8 DEF Held, Busy
    <2>2. Unordered(i)'
      BY <1>1, <1>6, <2>1 DEF Unordered
    <2>3. age' = i + r + held'
      BY <1>1, <1>4, <1>6, <1>8
    <2> QED BY <1>5, <1>7, <2>2, <2>3 DEF GapInv, AgeInv
  <1>9. CASE ~Held /\ \E w \in Worker : worker[w].pc = "rpc"
    <2>1. PICK w \in Worker : worker[w].pc = "rpc" /\ Called(r) /\
                 r <= Slack(lost) + worker[w].spent
      <3>1. \A w \in Worker : worker[w].pc # "local"
        BY <1>9 DEF Held
      <3>2. \A w \in Worker : worker[w].spent \in Nat
        BY DEF GapInv, Timers
      <3>3. CASE r <= Slack(lost)
        BY <1>4, <1>6, <1>9, <3>2, <3>3
      <3> QED BY <1>6, <3>1, <3>3 DEF Called
    <2>2. worker'[w].pc = "rpc" /\ r + 1 <= Slack(lost) + worker'[w].spent
      <3>1. worker[w].spent \in Nat
        BY DEF GapInv, Timers
      <3> QED BY <1>2, <1>4, <2>1, <3>1
    <2>3. Called(r + 1)'
      BY <1>1, <2>2 DEF Called
    <2>4. Unordered(i)'
      BY <1>1, <1>6, <2>2 DEF Unordered, Busy
    <2>5. age' = i + (r + 1) + held'
      BY <1>1, <1>4, <1>6, <1>9
    <2> QED BY <1>5, <2>3, <2>4, <2>5 DEF GapInv, AgeInv
  <1>10. CASE ~Held /\ \A w \in Worker : worker[w].pc # "rpc"
    <2>1. queue = <<>> /\ \A w \in Worker : ~Busy(w)
      BY <1>10 DEF Held, Busy
    <2>2. i + beat <= Reach(lost)
      BY <1>6, <2>1 DEF Unordered
    <2>3. (i + 1) + beat' <= Reach(lost) /\ i + 1 <= Reach(lost)
      BY <1>1, <1>4, <2>2
    <2>4. Unordered(i + 1)'
      BY <1>1, <2>3 DEF Unordered
    <2>5. age' = (i + 1) + r + held'
      BY <1>1, <1>4, <1>6, <1>10
    <2> QED BY <1>5, <1>7, <2>4, <2>5 DEF GapInv, AgeInv
  <1> QED BY <1>8, <1>9, <1>10

LEMMA NextGap == GapInv /\ [Next]_vars => GapInv'
  <1> SUFFICES ASSUME GapInv, [Next]_vars PROVE GapInv'
    OBVIOUS
  <1>1. CASE UNCHANGED vars
    BY <1>1 DEF vars, schedulerVars, GapInv, Timers, AgeInv, Unordered, Called, Busy
  <1> QED BY <1>1, ManualGap, WorkGap, PassGap DEF Next

LEMMA GapBound == GapInv => GapBounded
  <1> SUFFICES ASSUME GapInv PROVE GapBounded
    OBVIOUS
  <1>1. PICK i \in Nat, r \in Nat : age = i + r + held /\ Unordered(i) /\ Called(r)
    BY DEF GapInv, AgeInv
  <1>2. /\ held \in Nat /\ lost \in Nat /\ Deadline \in Nat
        /\ \A w \in Worker : worker[w].spent \in 0 .. Deadline
    BY SchedulerAssumption DEF GapInv, Timers
  <1>3. /\ Reach(lost) \in Nat /\ Slack(lost) \in Nat
        /\ Interval + (Period + Deadline) * (1 + lost) = Reach(lost) + Slack(lost) + Deadline
    BY <1>2, Sums
  <1>4. i <= Reach(lost) /\ r <= Slack(lost) + Deadline
    BY <1>1, <1>2, <1>3 DEF Unordered, Called
  <1> QED BY <1>1, <1>2, <1>3, <1>4 DEF GapBounded

(* No monitor is without a result for longer than its interval, one beat and  *)
(* one call of probes, the last two once more for every beat, tick or check   *)
(* that is lost, and the time its tasks wait in the queue or its checks are   *)
(* in the fallback: for any number of workers that come and go and have other *)
(* work, whatever manual checks, RPC failures and seeding do meanwhile.  How  *)
(* long tasks wait and fallbacks take, nothing in the code limits.            *)
THEOREM GapIsBounded == Spec => []GapBounded
  BY NextGap, InitGap, GapBound, PTL DEF Spec

-----------------------------------------------------------------------------
(* The histories.  A history is ascending, newest first: popping from the end *)
(* until an entry is young leaves a sequence, and nothing in it is expired.   *)
Ascending(ages) == \A i, j \in DOMAIN ages : i <= j => ages[i] <= ages[j]

History(ages, s) ==
    /\ ages \in Seq(Nat)
    /\ Ascending(ages)
    /\ \A i \in DOMAIN ages : ages[i] < Window[s]

(* What is kept of 1 .. n when it is cut from the end is an initial part. *)
LEMMA InitialPart ==
    ASSUME NEW n \in Nat, NEW D \in SUBSET (1 .. n),
           \A d \in D : \A k \in 1 .. d : k \in D
    PROVE  \E l \in 0 .. n : D = 1 .. l
  <1>1. /\ IsFiniteSet(1 .. n) /\ Cardinality(1 .. n) = n
    BY FS_Interval
  <1>2. /\ IsFiniteSet(D) /\ Cardinality(D) \in Nat /\ Cardinality(D) <= n
    BY <1>1, FS_Subset, FS_CardinalityType
  <1> DEFINE l == Cardinality(D)
  <1>3. IsFiniteSet(1 .. l) /\ Cardinality(1 .. l) = l
    BY <1>2, FS_Interval
  <1>4. D \subseteq 1 .. l
    <2> SUFFICES ASSUME NEW d \in D, d > l PROVE FALSE
      BY <1>2
    <2>1. 1 .. d \subseteq D
      OBVIOUS
    <2>2. Cardinality(1 .. d) = d
      BY FS_Interval
    <2>3. Cardinality(1 .. d) <= l
      BY <1>2, <2>1, FS_Subset
    <2> QED BY <1>2, <2>2, <2>3
  <1>5. D = 1 .. l
    BY <1>3, <1>4, FS_Subset
  <1> QED BY <1>2, <1>5

(* A unit makes every entry older and lets the oldest go. *)
LEMMA OlderKeeps ==
    ASSUME NEW ages \in Seq(Nat), NEW window \in Nat
    PROVE  /\ Older(ages, window) \in Seq(Nat)
           /\ Len(Older(ages, window)) <= Len(ages)
           /\ \A i \in DOMAIN Older(ages, window) :
                 /\ i \in DOMAIN ages
                 /\ Older(ages, window)[i] = ages[i] + 1
                 /\ \E j \in i .. Len(ages) : ages[j] + 1 < window
           /\ \A i \in DOMAIN ages :
                 (\E j \in i .. Len(ages) : ages[j] + 1 < window)
                     => i \in DOMAIN Older(ages, window)
  <1> DEFINE kept == {i \in DOMAIN ages : \E j \in i .. Len(ages) : ages[j] + 1 < window}
  <1>1. DOMAIN ages = 1 .. Len(ages) /\ Len(ages) \in Nat
    OBVIOUS
  <1>2. kept \in SUBSET (1 .. Len(ages))
    BY <1>1
  <1>3. \A d \in kept : \A k \in 1 .. d : k \in kept
    BY <1>1
  <1>4. PICK l \in 0 .. Len(ages) : kept = 1 .. l
    <2> HIDE DEF kept
    <2> QED BY <1>1, <1>2, <1>3, InitialPart
  <1>5. Older(ages, window) = [i \in 1 .. l |-> ages[i] + 1]
    BY <1>4 DEF Older
  <1>6. \A i \in 1 .. l : ages[i] + 1 \in Nat
    BY <1>1
  <1>7. /\ Older(ages, window) \in Seq(Nat)
        /\ DOMAIN Older(ages, window) = 1 .. l /\ Len(Older(ages, window)) = l
    BY <1>5, <1>6
  <1>8. \A i \in 1 .. l : i \in DOMAIN ages /\ Older(ages, window)[i] = ages[i] + 1
    BY <1>1, <1>5
  <1>9. \A i : i \in 1 .. l <=> i \in DOMAIN ages
                                   /\ \E j \in i .. Len(ages) : ages[j] + 1 < window
    BY <1>4
  <1> QED BY <1>7, <1>8, <1>9

LEMMA OlderHistory ==
    ASSUME NEW s \in Scope, NEW ages, History(ages, s)
    PROVE  History(Older(ages, Window[s]), s)
  <1> DEFINE old == Older(ages, Window[s])
  <1>1. ages \in Seq(Nat) /\ Window[s] \in Nat
    BY ThrottleAssumption DEF History
  <1>2. /\ old \in Seq(Nat)
        /\ \A i \in DOMAIN old :
              /\ i \in DOMAIN ages /\ old[i] = ages[i] + 1
              /\ \E j \in i .. Len(ages) : ages[j] + 1 < Window[s]
    BY <1>1, OlderKeeps
  <1> HIDE DEF old
  <1>3. Ascending(old)
    BY <1>1, <1>2 DEF History, Ascending
  <1>4. \A i \in DOMAIN old : old[i] < Window[s]
    <2> SUFFICES ASSUME NEW i \in DOMAIN old PROVE old[i] < Window[s]
      OBVIOUS
    <2>1. PICK j \in i .. Len(ages) : ages[j] + 1 < Window[s]
      BY <1>2
    <2>2. i \in DOMAIN ages /\ j \in DOMAIN ages /\ i <= j /\ old[i] = ages[i] + 1
      BY <1>1, <1>2
    <2>3. ages[i] <= ages[j]
      BY <2>2 DEF History, Ascending
    <2>4. ages[i] \in Nat /\ ages[j] \in Nat
      BY <1>1, <2>2
    <2> QED BY <1>1, <2>1, <2>2, <2>3, <2>4
  <1>5. History(old, s)
    BY <1>2, <1>3, <1>4 DEF History
  <1> QED BY <1>5 DEF old

(* insert(0, now) *)
LEMMA Inserted ==
    ASSUME NEW ages \in Seq(Nat)
    PROVE  /\ <<0>> \o ages \in Seq(Nat) /\ Len(<<0>> \o ages) = Len(ages) + 1
           /\ (<<0>> \o ages)[1] = 0
           /\ \A i \in DOMAIN (<<0>> \o ages) :
                 i # 1 => i - 1 \in DOMAIN ages /\ (<<0>> \o ages)[i] = ages[i - 1]
  OBVIOUS

LEMMA InsertedHistory ==
    ASSUME NEW s \in Scope, NEW ages, History(ages, s)
    PROVE  History(<<0>> \o ages, s)
  <1> DEFINE new == <<0>> \o ages
  <1>1. ages \in Seq(Nat) /\ Window[s] \in Nat \ {0}
    BY ThrottleAssumption DEF History
  <1>2. /\ new \in Seq(Nat) /\ new[1] = 0
        /\ \A i \in DOMAIN new : i # 1 => i - 1 \in DOMAIN ages /\ new[i] = ages[i - 1]
    BY <1>1, Inserted
  <1> HIDE DEF new
  <1>3. Ascending(new)
    <2> SUFFICES ASSUME NEW i \in DOMAIN new, NEW j \in DOMAIN new, i <= j
                 PROVE new[i] <= new[j]
      BY DEF Ascending
    <2>1. CASE i = 1
      BY <1>2, <2>1
    <2>2. CASE i # 1
      <3>1. i \in Nat /\ j \in Nat /\ j # 1
        BY <1>2, <2>2
      <3>2. /\ i - 1 \in DOMAIN ages /\ new[i] = ages[i - 1]
            /\ j - 1 \in DOMAIN ages /\ new[j] = ages[j - 1]
        BY <1>2, <2>2, <3>1
      <3>3. i - 1 <= j - 1
        BY <3>1
      <3> QED BY <3>2, <3>3 DEF History, Ascending
    <2> QED BY <2>1, <2>2
  <1>4. \A i \in DOMAIN new : new[i] < Window[s]
    BY <1>1, <1>2 DEF History
  <1>5. History(new, s)
    BY <1>2, <1>3, <1>4 DEF History
  <1> QED BY <1>5 DEF new

-----------------------------------------------------------------------------
(* What the cache holds, and what a request under way has read of it.  A      *)
(* history is read, asked about and written back in steps of different        *)
(* requests: the rate holds for what was read, so it holds for what is        *)
(* written, whatever else was written meanwhile.                              *)
Remembered(c) ==
    call[c] # None =>
        /\ call[c] \in Request
        /\ call[c].seen # None => History(call[c].seen, call[c].scope)

ThrottleInv ==
    /\ history \in [Scope -> Seq(Nat)]
    /\ \A s \in Scope : History(history[s], s) /\ Len(history[s]) <= Rate[s]
    /\ DOMAIN call = Client
    /\ \A c \in Client : Remembered(c)

LEMMA InitThrottle == Init => ThrottleInv
  <1> SUFFICES ASSUME Init PROVE ThrottleInv
    OBVIOUS
  <1>1. /\ history = [s \in Scope |-> <<>>] /\ call = [c \in Client |-> None]
    BY DEF Init, ThrottleInit
  <1>2. \A s \in Scope : History(<<>>, s) /\ Len(<<>>) <= Rate[s]
    BY ThrottleAssumption DEF History, Ascending
  <1> QED BY <1>1, <1>2 DEF ThrottleInv, Remembered

LEMMA RememberKeeps ==
    ASSUME ThrottleInv, NEW s \in Scope, NEW seen, History(seen, s), Remember(s, seen)
    PROVE  /\ history' \in [Scope -> Seq(Nat)]
           /\ \A t \in Scope : History(history'[t], t) /\ Len(history'[t]) <= Rate[t]
  <1>1. CASE Allows(s, seen) /\ ~superuser
    <2>1. history' = [history EXCEPT ![s] = <<0>> \o seen]
      BY <1>1 DEF Remember
    <2>2. Len(seen) < Rate[s] /\ seen \in Seq(Nat) /\ Rate[s] \in Nat
      BY <1>1, ThrottleAssumption DEF Allows, History
    <2>3. /\ <<0>> \o seen \in Seq(Nat) /\ Len(<<0>> \o seen) <= Rate[s]
      BY <2>2, Inserted
    <2>4. History(<<0>> \o seen, s)
      BY InsertedHistory
    <2> HIDE DEF History
    <2> QED BY <2>1, <2>3, <2>4 DEF ThrottleInv
  <1>2. CASE history' = history
    BY <1>2 DEF ThrottleInv
  <1> QED BY <1>1, <1>2 DEF Remember

LEMMA ManualThrottle ==
    ASSUME ThrottleInv, NEW c \in Client, Manual(c) PROVE ThrottleInv'
  <1>1. \A d \in Client : Remembered(d)
    BY DEF ThrottleInv
  <1>2. "burst" \in Scope /\ "daily" \in Scope
    BY DEF Scope
  <1>3. CASE ManualCheck(c)
    BY <1>1, <1>2, <1>3 DEF ManualCheck, ThrottleInv, Remembered, Request
  <1>4. CASE ReadHistory(c)
    <2>1. /\ call[c] \in Request /\ call[c].scope \in Scope
          /\ call' = [call EXCEPT ![c].seen = history[call[c].scope]]
          /\ history' = history
      BY <1>1, <1>4 DEF ReadHistory, Remembered, Request
    <2>2. /\ history[call[c].scope] \in Seq(Nat)
          /\ History(history[call[c].scope], call[c].scope)
      BY <2>1 DEF ThrottleInv
    <2>3. /\ DOMAIN call' = Client /\ \A d \in Client \ {c} : call'[d] = call[d]
          /\ call'[c] = [call[c] EXCEPT !.seen = history[call[c].scope]]
      BY <2>1 DEF ThrottleInv
    <2>4. /\ call'[c] \in Request
          /\ call'[c].seen = history[call[c].scope] /\ call'[c].scope = call[c].scope
      BY <2>1, <2>2, <2>3 DEF Request
    <2>5. Remembered(c)'
      BY <2>2, <2>4 DEF Remembered
    <2>6. \A d \in Client \ {c} : Remembered(d)'
      BY <1>1, <2>3 DEF Remembered
    <2> QED BY <2>1, <2>3, <2>5, <2>6 DEF ThrottleInv
  <1>5. CASE AskBurst(c)
    <2>1. /\ History(call[c].seen, "burst") /\ Remember("burst", call[c].seen)
          /\ call' = [call EXCEPT ![c] = [scope |-> "daily", seen |-> None,
                          refused |-> ~Allows("burst", call[c].seen)]]
      BY <1>1, <1>5 DEF AskBurst, Remembered
    <2>2. /\ history' \in [Scope -> Seq(Nat)]
          /\ \A t \in Scope : History(history'[t], t) /\ Len(history'[t]) <= Rate[t]
      BY <1>2, <2>1, RememberKeeps
    <2>3. DOMAIN call' = Client /\ \A d \in Client \ {c} : call'[d] = call[d]
      BY <2>1 DEF ThrottleInv
    <2>4. /\ call'[c].seen = None /\ call'[c].scope = "daily"
          /\ call'[c].refused = ~Allows("burst", call[c].seen)
          /\ call'[c] = [scope |-> "daily", seen |-> None,
                          refused |-> ~Allows("burst", call[c].seen)]
      BY <2>1 DEF ThrottleInv
    <2>5. Remembered(c)'
      <3>1. Allows("burst", call[c].seen) \in BOOLEAN
        BY DEF Allows
      <3> QED BY <1>2, <2>4, <3>1 DEF Remembered, Request
    <2>6. \A d \in Client \ {c} : Remembered(d)'
      BY <1>1, <2>3 DEF Remembered
    <2> QED BY <2>2, <2>3, <2>5, <2>6 DEF ThrottleInv
  <1>6. CASE AskDaily(c)
    <2>1. /\ History(call[c].seen, "daily") /\ Remember("daily", call[c].seen)
          /\ call' = [call EXCEPT ![c] = None]
      BY <1>1, <1>6 DEF AskDaily, Remembered
    <2>2. /\ history' \in [Scope -> Seq(Nat)]
          /\ \A t \in Scope : History(history'[t], t) /\ Len(history'[t]) <= Rate[t]
      BY <1>2, <2>1, RememberKeeps
    <2>3. /\ DOMAIN call' = Client /\ call'[c] = None
          /\ \A d \in Client \ {c} : call'[d] = call[d]
      BY <2>1 DEF ThrottleInv
    <2> QED BY <1>1, <2>2, <2>3 DEF ThrottleInv, Remembered
  <1> QED BY <1>3, <1>4, <1>5, <1>6 DEF Manual

LEMMA PassThrottle ==
    ASSUME ThrottleInv, Pass PROVE ThrottleInv'
  <1>1. /\ history' = [s \in Scope |-> Older(history[s], Window[s])]
        /\ call' = call /\ \A c \in Client : call[c] = None
    BY DEF Pass, ThrottlePass
  <1>2. ASSUME NEW s \in Scope
        PROVE  /\ Older(history[s], Window[s]) \in Seq(Nat)
               /\ History(Older(history[s], Window[s]), s)
               /\ Len(Older(history[s], Window[s])) <= Rate[s]
    <2>1. /\ History(history[s], s) /\ Len(history[s]) <= Rate[s]
          /\ history[s] \in Seq(Nat) /\ Window[s] \in Nat /\ Rate[s] \in Nat
      BY ThrottleAssumption DEF ThrottleInv
    <2>2. /\ Older(history[s], Window[s]) \in Seq(Nat)
          /\ Len(Older(history[s], Window[s])) <= Len(history[s])
      BY <2>1, OlderKeeps
    <2>3. Len(Older(history[s], Window[s])) <= Rate[s]
      BY <2>1, <2>2
    <2>4. History(Older(history[s], Window[s]), s)
      BY <2>1, OlderHistory
    <2> QED BY <2>2, <2>3, <2>4
  <1>3. \A c \in Client : Remembered(c)'
    BY <1>1 DEF Remembered
  <1> QED BY <1>1, <1>2, <1>3 DEF ThrottleInv

LEMMA NextThrottle == ThrottleInv /\ [Next]_vars => ThrottleInv'
  <1> SUFFICES ASSUME ThrottleInv, [Next]_vars PROVE ThrottleInv'
    OBVIOUS
  <1>1. CASE UNCHANGED throttleVars
    BY <1>1 DEF throttleVars, ThrottleInv, Remembered
  <1>2. CASE \E c \in Client : Manual(c)
    BY <1>2, ManualThrottle
  <1>3. CASE Pass
    BY <1>3, PassThrottle
  <1> QED BY <1>1, <1>2, <1>3 DEF Next, vars

(* The histories of both throttles stay within their rates and hold nothing   *)
(* that is as old as their windows, for any number of overlapping requests;   *)
(* timers, queue and worker stay in range.                                    *)
THEOREM TypeCorrect == Spec => []TypeOK
  <1>1. GapInv /\ ThrottleInv => TypeOK
    <2> SUFFICES ASSUME GapInv, ThrottleInv PROVE TypeOK
      OBVIOUS
    <2>1. /\ history \in [Scope -> Seq(Nat)]
          /\ \A s \in Scope : /\ Len(history[s]) <= Rate[s]
                              /\ \A i \in DOMAIN history[s] : history[s][i] < Window[s]
      BY DEF ThrottleInv, History
    <2> QED BY <2>1 DEF TypeOK, GapInv, Timers
  <1> QED BY <1>1, NextGap, InitGap, NextThrottle, InitThrottle, PTL DEF Spec

-----------------------------------------------------------------------------
(* Requests that do not overlap.  What was granted is part of what the burst  *)
(* throttle remembers: entry by entry no younger, also after the grant that   *)
(* the request under way still hopes for.                                     *)
Dominates(ages, granted) ==
    \A i \in DOMAIN granted : i \in DOMAIN ages /\ ages[i] <= granted[i]

Hopes(c) == call[c] # None /\ call[c].scope = "daily" /\ ~call[c].refused

GrantsRemembered ==
    /\ recent \in Seq(Nat)
    /\ Dominates(history["burst"], recent)
    /\ \A c \in Client :
          /\ Hopes(c) => Dominates(history["burst"], <<0>> \o recent)
          /\ call[c] # None /\ call[c].seen # None => call[c].seen = history[call[c].scope]

LEMMA InsertDominates ==
    ASSUME NEW ages \in Seq(Nat), Ascending(ages), NEW granted \in Seq(Nat),
           Dominates(ages, granted)
    PROVE  /\ Dominates(<<0>> \o ages, granted)
           /\ Dominates(<<0>> \o ages, <<0>> \o granted)
  <1> DEFINE new == <<0>> \o ages
             more == <<0>> \o granted
  <1>1. /\ new \in Seq(Nat) /\ Len(new) = Len(ages) + 1 /\ new[1] = 0
        /\ \A i \in DOMAIN new : i # 1 => i - 1 \in DOMAIN ages /\ new[i] = ages[i - 1]
    BY Inserted
  <1>2. /\ more \in Seq(Nat) /\ more[1] = 0
        /\ \A i \in DOMAIN more : i # 1 => i - 1 \in DOMAIN granted /\ more[i] = granted[i - 1]
    BY Inserted
  <1> HIDE DEF new, more
  <1>3. ASSUME NEW i \in DOMAIN granted PROVE i \in DOMAIN new /\ new[i] <= granted[i]
    <2>1. i \in DOMAIN ages /\ ages[i] <= granted[i] /\ i \in Nat /\ i >= 1
      BY DEF Dominates
    <2>2. i \in DOMAIN new
      BY <1>1, <2>1
    <2>3. CASE i = 1
      BY <1>1, <2>2, <2>3
    <2>4. CASE i # 1
      <3>1. i - 1 \in DOMAIN ages /\ new[i] = ages[i - 1]
        BY <1>1, <2>2, <2>4
      <3>2. ages[i - 1] <= ages[i]
        BY <2>1, <3>1 DEF Ascending
      <3>3. ages[i - 1] \in Nat /\ ages[i] \in Nat /\ granted[i] \in Nat
        BY <2>1, <3>1
      <3> QED BY <2>1, <2>2, <3>1, <3>2, <3>3
    <2> QED BY <2>3, <2>4
  <1>4. ASSUME NEW i \in DOMAIN more PROVE i \in DOMAIN new /\ new[i] <= more[i]
    <2>1. CASE i = 1
      BY <1>1, <1>2, <2>1
    <2>2. CASE i # 1
      <3>1. i \in Nat /\ i - 1 \in DOMAIN granted /\ more[i] = granted[i - 1]
        BY <1>2, <2>2
      <3>2. i - 1 \in DOMAIN ages /\ ages[i - 1] <= granted[i - 1]
        BY <3>1 DEF Dominates
      <3>3. i \in DOMAIN new
        BY <1>1, <3>1, <3>2
      <3>4. new[i] = ages[i - 1]
        BY <1>1, <2>2, <3>3
      <3> QED BY <3>1, <3>2, <3>3, <3>4
    <2> QED BY <2>1, <2>2
  <1>5. Dominates(new, granted) /\ Dominates(new, more)
    BY <1>3, <1>4 DEF Dominates
  <1> QED BY <1>5 DEF new, more

LEMMA OlderDominates ==
    ASSUME NEW ages \in Seq(Nat), NEW granted \in Seq(Nat), Dominates(ages, granted),
           NEW window \in Nat
    PROVE  Dominates(Older(ages, window), Older(granted, window))
  <1> DEFINE old == Older(ages, window)
             less == Older(granted, window)
  <1>1. /\ old \in Seq(Nat)
        /\ \A i \in DOMAIN old : i \in DOMAIN ages /\ old[i] = ages[i] + 1
        /\ \A i \in DOMAIN ages :
              (\E j \in i .. Len(ages) : ages[j] + 1 < window) => i \in DOMAIN old
    BY OlderKeeps
  <1>2. /\ less \in Seq(Nat)
        /\ \A i \in DOMAIN less :
              /\ i \in DOMAIN granted /\ less[i] = granted[i] + 1
              /\ \E j \in i .. Len(granted) : granted[j] + 1 < window
    BY OlderKeeps
  <1> HIDE DEF old, less
  <1>3. ASSUME NEW i \in DOMAIN less PROVE i \in DOMAIN old /\ old[i] <= less[i]
    <2>1. PICK j \in i .. Len(granted) : granted[j] + 1 < window
      BY <1>2
    <2>2. /\ i \in DOMAIN granted /\ j \in DOMAIN granted /\ i \in Nat /\ j \in Nat
          /\ less[i] = granted[i] + 1
      BY <1>2
    <2>3. /\ i \in DOMAIN ages /\ ages[i] <= granted[i]
          /\ j \in DOMAIN ages /\ ages[j] <= granted[j]
      BY <2>2 DEF Dominates
    <2>4. /\ ages[i] \in Nat /\ ages[j] \in Nat /\ granted[i] \in Nat /\ granted[j] \in Nat
          /\ j \in i .. Len(ages)
      BY <2>2, <2>3
    <2>5. i \in DOMAIN old
      BY <1>1, <2>1, <2>3, <2>4
    <2> QED BY <1>1, <2>2, <2>3, <2>4, <2>5
  <1>4. Dominates(old, less)
    BY <1>3 DEF Dominates
  <1> QED BY <1>4 DEF old, less

LEMMA InitGrants == Init => GrantsRemembered
  <1> SUFFICES ASSUME Init PROVE GrantsRemembered
    OBVIOUS
  <1>1. recent = <<>> /\ \A c \in Client : call[c] = None
    BY DEF Init, ThrottleInit
  <1> QED BY <1>1 DEF GrantsRemembered, Dominates, Hopes

LEMMA ManualGrants ==
    ASSUME superuser = FALSE, NEW c \in Client, Client = {c},
           ThrottleInv, GrantsRemembered, Manual(c)
    PROVE  GrantsRemembered'
  <1> DEFINE burst == history["burst"]
  <1>1. /\ burst \in Seq(Nat) /\ Ascending(burst)
        /\ "burst" \in Scope /\ "daily" \in Scope
        /\ history \in [Scope -> Seq(Nat)] /\ DOMAIN call = Client
    BY DEF ThrottleInv, History, Scope
  <1>2. /\ recent \in Seq(Nat) /\ Dominates(burst, recent)
        /\ Hopes(c) => Dominates(burst, <<0>> \o recent)
        /\ call[c] # None /\ call[c].seen # None => call[c].seen = history[call[c].scope]
    BY DEF GrantsRemembered
  <1>3. CASE ManualCheck(c)
    <2>1. /\ call'[c] = [scope |-> "burst", seen |-> None, refused |-> FALSE]
          /\ recent' = recent /\ history' = history
      BY <1>1, <1>3 DEF ManualCheck
    <2> QED BY <1>2, <2>1 DEF GrantsRemembered, Hopes
  <1>4. CASE ReadHistory(c)
    <2>1. /\ call[c] # None /\ call[c] \in Request
          /\ call' = [call EXCEPT ![c].seen = history[call[c].scope]]
          /\ recent' = recent /\ history' = history
      BY <1>4 DEF ReadHistory, ThrottleInv, Remembered
    <2>2. call'[c] = [call[c] EXCEPT !.seen = history[call[c].scope]]
      BY <1>1, <2>1
    <2>3. /\ call'[c].seen = history[call[c].scope]
          /\ call'[c].scope = call[c].scope /\ call'[c].refused = call[c].refused
      BY <2>1, <2>2 DEF Request
    <2> QED BY <1>2, <2>1, <2>3 DEF GrantsRemembered, Hopes
  <1>5. CASE AskBurst(c)
    <2>1. /\ call'[c] = [scope |-> "daily", seen |-> None,
                          refused |-> ~Allows("burst", burst)]
          /\ Remember("burst", burst) /\ recent' = recent
      <3>1. call[c].seen = burst
        BY <1>2, <1>5 DEF AskBurst
      <3>2. call' = [call EXCEPT ![c] = [scope |-> "daily", seen |-> None,
                          refused |-> ~Allows("burst", call[c].seen)]]
        BY <1>5 DEF AskBurst
      <3> QED BY <1>1, <1>5, <3>1, <3>2 DEF AskBurst
    <2>2. /\ call'[c].seen = None /\ call'[c].scope = "daily"
          /\ call'[c].refused = ~Allows("burst", burst)
      BY <2>1
    <2>3. CASE Allows("burst", burst)
      <3>1. history' = [history EXCEPT !["burst"] = <<0>> \o burst]
        BY <2>1, <2>3 DEF Remember
      <3>2. history'["burst"] = <<0>> \o burst
        BY <1>1, <3>1
      <3>3. /\ Dominates(<<0>> \o burst, recent)
            /\ Dominates(<<0>> \o burst, <<0>> \o recent)
        BY <1>1, <1>2, InsertDominates
      <3> QED BY <1>2, <2>1, <2>2, <3>2, <3>3 DEF GrantsRemembered
    <2>4. CASE ~Allows("burst", burst)
      <3>1. history' = history
        BY <2>1, <2>4 DEF Remember
      <3> QED BY <1>2, <2>1, <2>2, <2>4, <3>1 DEF GrantsRemembered, Hopes
    <2> QED BY <2>3, <2>4
  <1>6. CASE AskDaily(c)
    <2>1. /\ call'[c] = None
          /\ recent' = IF Granted(c) THEN <<0>> \o recent ELSE recent
      BY <1>1, <1>6 DEF AskDaily
    <2>2. history'["burst"] = burst
      BY <1>1, <1>6 DEF AskDaily, Remember
    <2>3. recent' \in Seq(Nat)
      BY <1>2, <2>1, Inserted
    <2>4. Granted(c) => Hopes(c)
      BY <1>6 DEF AskDaily, Granted, Hopes
    <2>5. Dominates(history'["burst"], recent')
      BY <1>2, <2>1, <2>2, <2>4
    <2> QED BY <2>1, <2>3, <2>5 DEF GrantsRemembered, Hopes
  <1> QED BY <1>3, <1>4, <1>5, <1>6 DEF Manual

LEMMA PassGrants ==
    ASSUME ThrottleInv, GrantsRemembered, Pass PROVE GrantsRemembered'
  <1>1. /\ history' = [s \in Scope |-> Older(history[s], Window[s])]
        /\ recent' = Older(recent, Window["burst"])
        /\ call' = call /\ \A c \in Client : call[c] = None
    BY DEF Pass, ThrottlePass
  <1>2. /\ history["burst"] \in Seq(Nat) /\ recent \in Seq(Nat)
        /\ "burst" \in Scope /\ Window["burst"] \in Nat
    BY ThrottleAssumption DEF ThrottleInv, GrantsRemembered, Scope
  <1>3. history'["burst"] = Older(history["burst"], Window["burst"])
    BY <1>1, <1>2
  <1>4. recent' \in Seq(Nat)
    BY <1>1, <1>2, OlderKeeps
  <1>5. Dominates(history'["burst"], recent')
    BY <1>1, <1>2, <1>3, OlderDominates DEF GrantsRemembered
  <1> QED BY <1>1, <1>4, <1>5 DEF GrantsRemembered, Hopes

LEMMA GrantsBound ==
    ASSUME Cardinality(Client) = 1, ThrottleInv, GrantsRemembered PROVE RateHolds
  <1>1. /\ history["burst"] \in Seq(Nat) /\ recent \in Seq(Nat)
        /\ Len(history["burst"]) <= Rate["burst"] /\ Rate["burst"] \in Nat
    BY ThrottleAssumption DEF ThrottleInv, GrantsRemembered, Scope
  <1>2. \A i \in DOMAIN recent : i \in DOMAIN history["burst"]
    BY DEF GrantsRemembered, Dominates
  <1>3. Len(recent) <= Len(history["burst"])
    <2>1. CASE recent = <<>>
      BY <1>1, <2>1
    <2>2. CASE recent # <<>>
      <3>1. Len(recent) \in DOMAIN recent
        BY <1>1, <2>2
      <3> QED BY <1>1, <1>2, <3>1
    <2> QED BY <2>1, <2>2
  <1>4. MostGranted = Rate["burst"]
    BY DEF MostGranted
  <1> QED BY <1>1, <1>3, <1>4 DEF RateHolds

LEMMA SoloRate ==
    ASSUME Cardinality(Client) = 1, superuser = FALSE
    PROVE  Spec => []RateHolds
  <1>1. PICK c : Client = {c}
    BY ThrottleAssumption, FS_Singleton
  <1>2. ThrottleInv /\ GrantsRemembered /\ [Next]_vars => GrantsRemembered'
    <2> SUFFICES ASSUME ThrottleInv, GrantsRemembered, [Next]_vars PROVE GrantsRemembered'
      OBVIOUS
    <2>1. CASE UNCHANGED throttleVars
      BY <2>1 DEF throttleVars, GrantsRemembered, Hopes
    <2>2. CASE \E d \in Client : Manual(d)
      BY <1>1, <2>2, ManualGrants
    <2>3. CASE Pass
      BY <2>3, PassGrants
    <2> QED BY <2>1, <2>2, <2>3 DEF Next, vars
  <1> QED BY <1>2, NextThrottle, InitThrottle, InitGrants, GrantsBound, PTL DEF Spec

-----------------------------------------------------------------------------
(* Requests of which two overlap.  A history that was read and written back   *)
(* late is shorter than the one it replaces, so grants are forgotten; but it   *)
(* is longer by one each time, and how many grants it can forget shrinks as   *)
(* it grows.  Twice(j) is twice the number of grants there can be while j are *)
(* remembered.                                                                 *)
Twice(j) == j * (2 * Rate["burst"] + 3 - j)

LEMMA TwiceNext ==
    ASSUME NEW j \in 0 .. Rate["burst"]
    PROVE  /\ Twice(0) = 0 /\ Twice(j) \in Int
           /\ Twice(j + 1) = Twice(j) + 2 * (Rate["burst"] - j + 1)
  <1> DEFINE R == Rate["burst"]
  <1>1. R \in Nat /\ j \in Nat
    BY ThrottleAssumption DEF Scope
  <1> HIDE DEF R
  <1>2. (j + 1) * (2 * R + 3 - (j + 1)) = j * (2 * R + 3 - j) + 2 * (R - j + 1)
    BY <1>1
  <1>3. j * (2 * R + 3 - j) \in Int
    BY <1>1
  <1>4. 0 * (2 * R + 3 - 0) = 0
    BY <1>1
  <1> QED BY <1>2, <1>3, <1>4 DEF Twice, R

LEMMA TwiceGrows ==
    ASSUME NEW j \in Nat, NEW k \in Nat, j <= k, k <= Rate["burst"] + 1
    PROVE  Twice(j) \in Int /\ Twice(k) \in Int /\ Twice(j) <= Twice(k)
  <1> DEFINE R == Rate["burst"]
  <1>1. R \in Nat
    BY ThrottleAssumption DEF Scope
  <1> HIDE DEF R
  <1>2. k * (2 * R + 3 - k) - j * (2 * R + 3 - j) = (k - j) * (2 * R + 3 - k - j)
    BY <1>1
  <1>3. k - j \in Nat /\ 2 * R + 3 - k - j \in Nat
    BY <1>1 DEF R
  <1>4. \A x, y \in Nat : x * y >= 0
    OBVIOUS
  <1>5. (k - j) * (2 * R + 3 - k - j) >= 0
    BY <1>3, <1>4
  <1>6. j * (2 * R + 3 - j) \in Int /\ k * (2 * R + 3 - k) \in Int
    BY <1>1
  <1> HIDE <1>1
  <1> QED BY <1>2, <1>5, <1>6 DEF Twice, R

(* What is remembered accounts for n + Len(granted) grants, newest first, of  *)
(* which the n newest are of this unit.                                        *)
Covers(ages, granted, n) ==
    \A j \in 0 .. Rate["burst"] :
        /\ Twice(j) < 2 * n => j + 1 \in DOMAIN ages /\ ages[j + 1] = 0
        /\ \A i \in DOMAIN granted :
              Twice(j) < 2 * (i + n) => j + 1 \in DOMAIN ages /\ ages[j + 1] <= granted[i]

(* Histories read within one unit differ only in entries of that unit.        *)
SameOld(x, y) ==
    \A i \in DOMAIN x :
        IF i <= Len(x) - Len(y) THEN x[i] = 0 ELSE x[i] = y[i - (Len(x) - Len(y))]

LEMMA CoversNothing == \A j \in 0 .. Rate["burst"] : ~(Twice(j) < 2 * 0)
  <1> SUFFICES ASSUME NEW j \in 0 .. Rate["burst"] PROVE ~(Twice(j) < 2 * 0)
    OBVIOUS
  <1>1. Twice(0) = 0
    BY TwiceNext
  <1>2. Twice(0) <= Twice(j) /\ Twice(j) \in Int
    BY TwiceGrows, ThrottleAssumption DEF Scope
  <1> QED BY <1>1, <1>2

LEMMA CoversFewer ==
    ASSUME NEW ages, NEW granted \in Seq(Nat), NEW n \in Int, NEW m \in Int, m <= n,
           Covers(ages, granted, n)
    PROVE  Covers(ages, granted, m)
  <1> SUFFICES ASSUME NEW j \in 0 .. Rate["burst"]
               PROVE /\ Twice(j) < 2 * m => j + 1 \in DOMAIN ages /\ ages[j + 1] = 0
                     /\ \A i \in DOMAIN granted : Twice(j) < 2 * (i + m)
                           => j + 1 \in DOMAIN ages /\ ages[j + 1] <= granted[i]
    BY DEF Covers
  <1>1. Twice(j) \in Int
    BY TwiceNext
  <1>2. \A i \in DOMAIN granted : i \in Nat
    OBVIOUS
  <1>3. Twice(j) < 2 * m => Twice(j) < 2 * n
    BY <1>1
  <1>4. \A i \in DOMAIN granted : Twice(j) < 2 * (i + m) => Twice(j) < 2 * (i + n)
    BY <1>1, <1>2
  <1> QED BY <1>3, <1>4 DEF Covers

(* An entry more pays for the grant it stands for and for all that the other  *)
(* request may have filled in meanwhile.                                       *)
LEMMA CoversMore ==
    ASSUME NEW ages \in Seq(Nat), Len(ages) < Rate["burst"],
           NEW granted \in Seq(Nat), NEW n \in Int, NEW k \in Nat,
           k <= Rate["burst"] - Len(ages),
           Covers(ages, granted, n - k)
    PROVE  Covers(<<0>> \o ages, granted, n + 1)
  <1> DEFINE R == Rate["burst"]
             new == <<0>> \o ages
             l == Len(ages)
  <1>1. R \in Nat /\ l \in Nat /\ l \in 0 .. R
    BY ThrottleAssumption DEF Scope
  <1>2. /\ new \in Seq(Nat) /\ Len(new) = l + 1 /\ new[1] = 0
        /\ \A i \in DOMAIN new : i # 1 => i - 1 \in DOMAIN ages /\ new[i] = ages[i - 1]
    BY Inserted
  <1>3. ~(l + 1 \in DOMAIN ages)
    OBVIOUS
  <1>4. \A e \in Int : Twice(l) >= 2 * e => 2 * (e + k + 1) <= Twice(l + 1)
    <2>1. Twice(l) \in Int /\ Twice(l + 1) = Twice(l) + 2 * (R - l + 1)
      BY <1>1, TwiceNext
    <2> QED BY <1>1, <2>1
  (* the entry of rank j, for a grant of number e among those to be covered *)
  <1>5. ASSUME NEW j \in 0 .. R, NEW e \in Int,
               Twice(j) < 2 * (e + k + 1), Twice(l) >= 2 * e
        PROVE  j <= l
    <2>1. CASE j >= l + 1
      <3>1. Twice(l + 1) <= Twice(j) /\ Twice(j) \in Int /\ Twice(l + 1) \in Int
        BY <1>1, <2>1, TwiceGrows
      <3> QED BY <1>4, <1>5, <3>1
    <2> QED BY <1>1, <2>1
  <1>6. ASSUME NEW j \in 1 .. R, NEW e \in Int, Twice(j) < 2 * (e + k + 1), j <= l + 1
        PROVE  Twice(j - 1) < 2 * e
    <2>1. j - 1 \in 0 .. R /\ (j - 1) + 1 = j
      BY <1>1
    <2>2. Twice(j) = Twice(j - 1) + 2 * (R - (j - 1) + 1) /\ Twice(j - 1) \in Int
      BY <2>1, TwiceNext
    <2> QED BY <1>1, <1>6, <2>2
  <1>7. ASSUME NEW j \in 0 .. R, Twice(j) < 2 * (n + 1)
        PROVE  j + 1 \in DOMAIN new /\ new[j + 1] = 0
    <2> DEFINE e == n - k
    <2>1. Twice(l) >= 2 * e
      BY <1>1, <1>3, TwiceNext DEF Covers
    <2>0. e \in Int /\ Twice(j) < 2 * (e + k + 1)
      BY <1>7
    <2> HIDE DEF e
    <2>2. j <= l
      BY <1>5, <2>1, <2>0
    <2>3. CASE j = 0
      BY <1>1, <1>2, <2>3
    <2>4. CASE j # 0
      <3>1. Twice(j - 1) < 2 * e
        <4>1. j \in 1 .. R /\ j <= l + 1
          BY <1>1, <2>2, <2>4
        <4> QED BY <1>6, <2>0, <4>1
      <3>2. j - 1 \in 0 .. R /\ (j - 1) + 1 = j
        BY <1>1, <2>4
      <3>3. j \in DOMAIN ages /\ ages[j] = 0
        BY <3>1, <3>2 DEF Covers, e
      <3> QED BY <1>1, <1>2, <2>2, <2>4, <3>3
    <2> QED BY <2>3, <2>4
  <1>8. ASSUME NEW j \in 0 .. R, NEW i \in DOMAIN granted, Twice(j) < 2 * (i + n + 1)
        PROVE  j + 1 \in DOMAIN new /\ new[j + 1] <= granted[i]
    <2>1. i \in Nat /\ granted[i] \in Nat
      OBVIOUS
    <2> DEFINE e == i + (n - k)
    <2>2. Twice(l) >= 2 * e
      BY <1>1, <1>3, <2>1, TwiceNext DEF Covers
    <2>0. e \in Int /\ Twice(j) < 2 * (e + k + 1)
      BY <1>8, <2>1
    <2> HIDE DEF e
    <2>3. j <= l
      BY <1>5, <2>2, <2>0
    <2>4. CASE j = 0
      BY <1>1, <1>2, <2>1, <2>4
    <2>5. CASE j # 0
      <3>1. Twice(j - 1) < 2 * e
        <4>1. j \in 1 .. R /\ j <= l + 1
          BY <1>1, <2>3, <2>5
        <4> QED BY <1>6, <2>0, <4>1
      <3>2. j - 1 \in 0 .. R /\ (j - 1) + 1 = j
        BY <1>1, <2>5
      <3>3. j \in DOMAIN ages /\ ages[j] <= granted[i]
        BY <3>1, <3>2 DEF Covers, e
      <3> QED BY <1>1, <1>2, <2>3, <2>5, <3>3
    <2> QED BY <2>4, <2>5
  <1>9. \A i \in DOMAIN granted : i \in Nat /\ i + (n + 1) = i + n + 1
    OBVIOUS
  <1> HIDE DEF new
  <1>10. Covers(new, granted, n + 1)
    BY <1>7, <1>8, <1>9 DEF Covers
  <1> QED BY <1>10 DEF new

(* A longer history of the same unit covers what a shorter one does. *)
LEMMA CoversLonger ==
    ASSUME NEW x \in Seq(Nat), NEW y \in Seq(Nat), Ascending(x),
           Len(x) <= Len(y), SameOld(y, x),
           NEW granted \in Seq(Nat), NEW n \in Int, Covers(x, granted, n)
    PROVE  Covers(y, granted, n)
  <1>1. ASSUME NEW i \in DOMAIN x
        PROVE  i \in DOMAIN y /\ y[i] <= x[i] /\ y[i] \in Nat /\ x[i] \in Nat
    <2>1. i \in Nat /\ i >= 1 /\ i \in DOMAIN y /\ x[i] \in Nat /\ y[i] \in Nat
      OBVIOUS
    <2>2. CASE i <= Len(y) - Len(x)
      BY <2>1, <2>2 DEF SameOld
    <2>3. CASE ~(i <= Len(y) - Len(x))
      <3>1. /\ i - (Len(y) - Len(x)) \in DOMAIN x /\ i - (Len(y) - Len(x)) <= i
        BY <2>1, <2>3
      <3>2. y[i] = x[i - (Len(y) - Len(x))]
        BY <2>1, <2>3 DEF SameOld
      <3>3. x[i - (Len(y) - Len(x))] <= x[i]
        BY <3>1 DEF Ascending
      <3> QED BY <2>1, <3>2, <3>3
    <2> QED BY <2>2, <2>3
  <1>2. ASSUME NEW j \in 0 .. Rate["burst"], Twice(j) < 2 * n
        PROVE  j + 1 \in DOMAIN y /\ y[j + 1] = 0
    <2>1. j + 1 \in DOMAIN x /\ x[j + 1] = 0
      BY <1>2 DEF Covers
    <2> QED BY <1>1, <2>1
  <1>3. ASSUME NEW j \in 0 .. Rate["burst"], NEW i \in DOMAIN granted, Twice(j) < 2 * (i + n)
        PROVE  j + 1 \in DOMAIN y /\ y[j + 1] <= granted[i]
    <2>1. j + 1 \in DOMAIN x /\ x[j + 1] <= granted[i]
      BY <1>3 DEF Covers
    <2>2. granted[i] \in Nat
      OBVIOUS
    <2> QED BY <1>1, <2>1, <2>2
  <1> QED BY <1>2, <1>3 DEF Covers

LEMMA CoversGranted ==
    ASSUME NEW ages \in Seq(Nat), NEW granted \in Seq(Nat), NEW n \in Int,
           Covers(ages, granted, n)
    PROVE  Covers(ages, <<0>> \o granted, n - 1)
  <1> DEFINE more == <<0>> \o granted
  <1>1. /\ more \in Seq(Nat) /\ more[1] = 0
        /\ \A i \in DOMAIN more : i # 1 => i - 1 \in DOMAIN granted /\ more[i] = granted[i - 1]
    BY Inserted
  <1> HIDE DEF more
  <1>2. ASSUME NEW j \in 0 .. Rate["burst"], NEW i \in DOMAIN more, Twice(j) < 2 * (i + (n - 1))
        PROVE  j + 1 \in DOMAIN ages /\ ages[j + 1] <= more[i]
    <2>1. CASE i = 1
      <3>1. Twice(j) < 2 * n
        BY <1>2, <2>1
      <3> QED BY <1>1, <2>1, <3>1 DEF Covers
    <2>2. CASE i # 1
      <3>1. i - 1 \in DOMAIN granted /\ more[i] = granted[i - 1] /\ i \in Nat
        BY <1>1, <2>2
      <3>2. (i - 1) + n = i + (n - 1)
        BY <3>1
      <3> QED BY <1>2, <3>1, <3>2 DEF Covers
    <2> QED BY <2>1, <2>2
  <1>3. Covers(ages, granted, n - 1)
    BY CoversFewer
  <1>4. Covers(ages, more, n - 1)
    BY <1>2, <1>3 DEF Covers
  <1> QED BY <1>4 DEF more

LEMMA CoversOlder ==
    ASSUME NEW ages \in Seq(Nat), NEW granted \in Seq(Nat), Ascending(ages),
           NEW window \in Nat, Covers(ages, granted, 0)
    PROVE  Covers(Older(ages, window), Older(granted, window), 0)
  <1> DEFINE old == Older(ages, window)
             less == Older(granted, window)
  <1>1. /\ old \in Seq(Nat)
        /\ \A i \in DOMAIN old : i \in DOMAIN ages /\ old[i] = ages[i] + 1
        /\ \A i \in DOMAIN ages :
              (\E j \in i .. Len(ages) : ages[j] + 1 < window) => i \in DOMAIN old
    BY OlderKeeps
  <1>2. /\ less \in Seq(Nat)
        /\ \A i \in DOMAIN less :
              /\ i \in DOMAIN granted /\ less[i] = granted[i] + 1
              /\ \E j \in i .. Len(granted) : granted[j] + 1 < window
    BY OlderKeeps
  <1> HIDE DEF old, less
  <1>3. ASSUME NEW j \in 0 .. Rate["burst"], NEW i \in DOMAIN less, Twice(j) < 2 * (i + 0)
        PROVE  j + 1 \in DOMAIN old /\ old[j + 1] <= less[i]
    <2>1. PICK f \in i .. Len(granted) : granted[f] + 1 < window
      BY <1>2
    <2>2. /\ i \in DOMAIN granted /\ f \in DOMAIN granted /\ i \in Nat /\ f \in Nat /\ i <= f
          /\ less[i] = granted[i] + 1
      BY <1>2
    <2>3. Twice(j) \in Int
      BY TwiceNext
    <2>4. Twice(j) < 2 * (f + 0)
      BY <1>3, <2>2, <2>3
    <2>5. /\ j + 1 \in DOMAIN ages /\ ages[j + 1] <= granted[i] /\ ages[j + 1] <= granted[f]
      BY <1>3, <2>2, <2>4 DEF Covers
    <2>6. /\ ages[j + 1] \in Nat /\ granted[i] \in Nat /\ granted[f] \in Nat
          /\ j + 1 \in (j + 1) .. Len(ages)
      BY <2>2, <2>5
    <2>7. j + 1 \in DOMAIN old
      BY <1>1, <2>1, <2>5, <2>6
    <2> QED BY <1>1, <2>2, <2>5, <2>6, <2>7
  <1>4. \A j \in 0 .. Rate["burst"] : ~(Twice(j) < 2 * 0)
    BY CoversNothing
  <1>5. Covers(old, less, 0)
    BY <1>3, <1>4 DEF Covers
  <1> QED BY <1>5 DEF old, less

LEMMA SameOldInserted ==
    ASSUME NEW x \in Seq(Nat), NEW y \in Seq(Nat), SameOld(x, y), SameOld(y, x)
    PROVE  SameOld(<<0>> \o x, y) /\ SameOld(y, <<0>> \o x)
  <1> DEFINE new == <<0>> \o x
  <1>1. /\ new \in Seq(Nat) /\ Len(new) = Len(x) + 1 /\ new[1] = 0
        /\ \A i \in DOMAIN new : i # 1 => i - 1 \in DOMAIN x /\ new[i] = x[i - 1]
    BY Inserted
  <1>2. Len(x) \in Nat /\ Len(y) \in Nat
    OBVIOUS
  <1> HIDE DEF new
  <1>3. ASSUME NEW i \in DOMAIN new, i <= Len(new) - Len(y) PROVE new[i] = 0
    <2>1. CASE i = 1
      BY <1>1, <2>1
    <2>2. CASE i # 1
      <3>1. i - 1 \in DOMAIN x /\ new[i] = x[i - 1] /\ i - 1 <= Len(x) - Len(y)
        BY <1>1, <1>2, <1>3, <2>2
      <3> QED BY <3>1 DEF SameOld
    <2> QED BY <2>1, <2>2
  <1>4. ASSUME NEW i \in DOMAIN new, ~(i <= Len(new) - Len(y))
        PROVE  new[i] = y[i - (Len(new) - Len(y))]
    <2>1. CASE i = 1
      <3>1. /\ i - (Len(new) - Len(y)) = Len(y) - Len(x)
            /\ Len(y) - Len(x) \in DOMAIN y
        BY <1>1, <1>2, <1>4, <2>1
      <3>2. y[Len(y) - Len(x)] = 0
        BY <1>2, <3>1 DEF SameOld
      <3> QED BY <1>1, <2>1, <3>1, <3>2
    <2>2. CASE i # 1
      <3>1. /\ i - 1 \in DOMAIN x /\ new[i] = x[i - 1] /\ ~(i - 1 <= Len(x) - Len(y))
            /\ (i - 1) - (Len(x) - Len(y)) = i - (Len(new) - Len(y))
        BY <1>1, <1>2, <1>4, <2>2
      <3>2. x[i - 1] = y[(i - 1) - (Len(x) - Len(y))]
        BY <3>1 DEF SameOld
      <3> QED BY <3>1, <3>2
    <2> QED BY <2>1, <2>2
  <1>5. ASSUME NEW i \in DOMAIN y, i <= Len(y) - Len(new) PROVE y[i] = 0
    <2>1. i <= Len(y) - Len(x)
      BY <1>1, <1>2, <1>5
    <2> QED BY <2>1 DEF SameOld
  <1>6. ASSUME NEW i \in DOMAIN y, ~(i <= Len(y) - Len(new))
        PROVE  y[i] = new[i - (Len(y) - Len(new))]
    <2> DEFINE k == i - (Len(y) - Len(new))
    <2>1. k \in DOMAIN new /\ i \in Nat
      BY <1>1, <1>2, <1>6
    <2>2. CASE k = 1
      <3>1. i <= Len(y) - Len(x)
        BY <1>1, <1>2, <2>1, <2>2
      <3>2. y[i] = 0
        BY <3>1 DEF SameOld
      <3> QED BY <1>1, <2>2, <3>2
    <2>3. CASE k # 1
      <3>1. k - 1 = i - (Len(y) - Len(x))
        BY <1>1, <1>2, <2>1
      <3>2. k - 1 \in DOMAIN x /\ new[k] = x[k - 1]
        BY <1>1, <2>1, <2>3
      <3>3. ~(i <= Len(y) - Len(x))
        BY <1>2, <2>1, <3>1, <3>2
      <3>4. y[i] = x[i - (Len(y) - Len(x))]
        BY <3>3 DEF SameOld
      <3> QED BY <3>1, <3>2, <3>4
    <2> QED BY <2>2, <2>3
  <1>7. SameOld(new, y) /\ SameOld(y, new)
    BY <1>3, <1>4, <1>5, <1>6 DEF SameOld
  <1> QED BY <1>7 DEF new

(* The requests about to be granted, and those between a read and a write of  *)
(* the burst history.                                                          *)
Hoping == Cardinality({c \in Client : Hopes(c)})

Reading(c) == call[c] # None /\ call[c].scope = "burst" /\ call[c].seen # None

Extra(x, y) == IF Len(x) > Len(y) THEN Len(x) - Len(y) ELSE 0

(* What is remembered covers what was granted; what a request has read, too,  *)
(* but for what was entered since.  Of two requests that have read, one has   *)
(* read what is there now.                                                     *)
OverlapInv ==
    /\ recent \in Seq(Nat)
    /\ Covers(history["burst"], recent, Hoping)
    /\ \A c \in Client : Reading(c) =>
          /\ Covers(call[c].seen, recent, Hoping - Extra(history["burst"], call[c].seen))
          /\ SameOld(history["burst"], call[c].seen)
          /\ SameOld(call[c].seen, history["burst"])
    /\ \A c, d \in Client : c # d /\ Reading(c) /\ Reading(d) =>
          /\ SameOld(call[c].seen, call[d].seen)
          /\ \/ Len(history["burst"]) <= Len(call[c].seen)
             \/ Len(history["burst"]) <= Len(call[d].seen)

LEMMA ExtraEntries ==
    ASSUME NEW x \in Seq(Nat), NEW y \in Seq(Nat)
    PROVE  /\ Extra(x, y) \in Nat
           /\ Len(x) <= Len(y) => Extra(x, y) = 0
           /\ Len(y) <= Len(x) => Extra(x, y) = Len(x) - Len(y)
  BY DEF Extra

LEMMA HopingType == Hoping \in Nat
  <1>1. IsFiniteSet({c \in Client : Hopes(c)})
    BY ThrottleAssumption, FS_Subset
  <1> QED BY <1>1, FS_CardinalityType DEF Hoping

LEMMA HopingChanges ==
    ASSUME NEW c \in Client, \A d \in Client \ {c} : Hopes(d)' <=> Hopes(d)
    PROVE  /\ (Hopes(c)' <=> Hopes(c)) => Hoping' = Hoping
           /\ Hopes(c)' /\ ~Hopes(c) => Hoping' = Hoping + 1
           /\ ~Hopes(c)' /\ Hopes(c) => Hoping' = Hoping - 1
  <1> DEFINE H == {d \in Client : Hopes(d)}
             G == {d \in Client : Hopes(d)'}
  <1>1. IsFiniteSet(H) /\ IsFiniteSet(G)
    BY ThrottleAssumption, FS_Subset
  <1>2. Cardinality(H) = Hoping /\ Cardinality(G) = Hoping'
    BY DEF Hoping
  <1>3. ASSUME Hopes(c)' <=> Hopes(c) PROVE G = H
    BY <1>3
  <1>4. ASSUME Hopes(c)', ~Hopes(c) PROVE G = H \cup {c} /\ c \notin H
    BY <1>4
  <1>5. ASSUME ~Hopes(c)', Hopes(c) PROVE G = H \ {c} /\ c \in H
    BY <1>5
  <1> HIDE DEF H, G
  <1>6. G = H \cup {c} /\ c \notin H => Cardinality(G) = Cardinality(H) + 1
    BY <1>1, FS_AddElement
  <1>7. G = H \ {c} /\ c \in H => Cardinality(G) = Cardinality(H) - 1
    BY <1>1, FS_RemoveElement
  <1> QED BY <1>2, <1>3, <1>4, <1>5, <1>6, <1>7

LEMMA InitOverlap == Init => OverlapInv
  <1> SUFFICES ASSUME Init PROVE OverlapInv
    OBVIOUS
  <1>1. recent = <<>> /\ \A c \in Client : call[c] = None
    BY DEF Init, ThrottleInit
  <1>2. Hoping = 0
    <2>1. {c \in Client : Hopes(c)} = {}
      BY <1>1 DEF Hopes
    <2> QED BY <2>1, FS_EmptySet DEF Hoping
  <1>3. Covers(history["burst"], recent, 0)
    BY <1>1, CoversNothing DEF Covers
  <1> QED BY <1>1, <1>2, <1>3 DEF OverlapInv, Reading

(* The read: what it has read is what is there. *)
LEMMA ReadOverlap ==
    ASSUME ThrottleInv, OverlapInv, NEW c \in Client, ReadHistory(c)
    PROVE  OverlapInv'
  <1> DEFINE burst == history["burst"]
  <1>1. /\ burst \in Seq(Nat) /\ DOMAIN call = Client
        /\ call[c] # None /\ call[c] \in Request
        /\ call' = [call EXCEPT ![c].seen = history[call[c].scope]]
        /\ recent' = recent /\ history' = history
    BY DEF ReadHistory, ThrottleInv, Remembered, Scope
  <1>2. /\ call'[c].seen = history[call[c].scope]
        /\ call'[c].scope = call[c].scope /\ call'[c].refused = call[c].refused
        /\ \A d \in Client \ {c} : call'[d] = call[d]
    BY <1>1 DEF Request
  <1>3. Hoping' = Hoping
    <2>1. call'[c] = [call[c] EXCEPT !.seen = history[call[c].scope]]
      BY <1>1
    <2>2. history[call[c].scope] \in Seq(Nat)
      BY <1>1 DEF ThrottleInv, Request
    <2>3. call'[c] # None
      BY <1>1, <2>1, <2>2, NoRequestAssumption DEF Request
    <2>4. Hopes(c)' <=> Hopes(c)
      BY <1>1, <1>2, <2>3 DEF Hopes
    <2>5. \A d \in Client \ {c} : Hopes(d)' <=> Hopes(d)
      BY <1>2 DEF Hopes
    <2> QED BY <2>4, <2>5, HopingChanges
  <1>4. \A d \in Client \ {c} : (Reading(d)' <=> Reading(d))
    BY <1>2 DEF Reading
  <1>5. Reading(c)' => call'[c].seen = burst
    BY <1>2 DEF Reading
  <1>6. SameOld(burst, burst) /\ Extra(burst, burst) = 0
    BY <1>1 DEF SameOld, Extra
  <1>7. Covers(burst, recent, Hoping) /\ Hoping - 0 = Hoping
    BY HopingType DEF OverlapInv
  <1>8. ASSUME NEW d \in Client, Reading(d)'
        PROVE  /\ Covers(call'[d].seen, recent, Hoping - Extra(burst, call'[d].seen))
               /\ SameOld(burst, call'[d].seen) /\ SameOld(call'[d].seen, burst)
    <2>1. CASE d = c
      BY <1>5, <1>6, <1>7, <1>8, <2>1
    <2>2. CASE d # c
      BY <1>2, <1>4, <1>8, <2>2 DEF OverlapInv
    <2> QED BY <2>1, <2>2
  <1>9. ASSUME NEW d \in Client, NEW e \in Client, d # e, Reading(d)', Reading(e)'
        PROVE  /\ SameOld(call'[d].seen, call'[e].seen)
               /\ Len(burst) <= Len(call'[d].seen) \/ Len(burst) <= Len(call'[e].seen)
    <2>1. Len(burst) <= Len(burst)
      BY <1>1
    <2>2. CASE d = c
      BY <1>5, <1>8, <1>9, <2>1, <2>2
    <2>3. CASE e = c
      BY <1>5, <1>8, <1>9, <2>1, <2>3
    <2>4. CASE d # c /\ e # c
      BY <1>2, <1>4, <1>9, <2>4 DEF OverlapInv
    <2> QED BY <2>2, <2>3, <2>4
  <1> HIDE DEF burst
  <1>10. /\ recent' \in Seq(Nat) /\ Covers(burst, recent, Hoping) /\ history'["burst"] = burst
    BY <1>1, <1>7 DEF OverlapInv, burst
  <1> QED BY <1>1, <1>3, <1>8, <1>9, <1>10 DEF OverlapInv

(* The late write: it forgets what the other request has entered. *)
LEMMA AskBurstOverlap ==
    ASSUME superuser = FALSE, NEW c \in Client,
           \A d, e \in Client : d = c \/ e = c \/ d = e,
           ThrottleInv, OverlapInv, AskBurst(c)
    PROVE  OverlapInv'
  <1> DEFINE burst == history["burst"]
             seen == call[c].seen
  <1>1. /\ burst \in Seq(Nat) /\ Len(burst) <= Rate["burst"] /\ Rate["burst"] \in Nat
        /\ seen \in Seq(Nat) /\ Ascending(seen) /\ Reading(c)
        /\ history \in [Scope -> Seq(Nat)] /\ DOMAIN call = Client /\ "burst" \in Scope
    BY ThrottleAssumption DEF AskBurst, ThrottleInv, Remembered, History, Reading, Scope
  <1>2. /\ Remember("burst", seen) /\ recent' = recent
        /\ call' = [call EXCEPT ![c] = [scope |-> "daily", seen |-> None,
                        refused |-> ~Allows("burst", seen)]]
    BY DEF AskBurst
  <1>3. /\ call'[c] = [scope |-> "daily", seen |-> None, refused |-> ~Allows("burst", seen)]
        /\ \A d \in Client \ {c} : call'[d] = call[d]
    BY <1>1, <1>2
  <1>4. ~Reading(c)' /\ \A d \in Client \ {c} : (Reading(d)' <=> Reading(d))
    BY <1>3 DEF Reading
  <1>5. /\ ~Hopes(c) /\ (Hopes(c)' => Allows("burst", seen))
        /\ \A d \in Client \ {c} : Hopes(d)' <=> Hopes(d)
    <2>1. call'[c].refused = ~Allows("burst", seen) /\ Allows("burst", seen) \in BOOLEAN
      BY <1>3 DEF Allows
    <2>2. Hopes(c)' => Allows("burst", seen)
      BY <2>1 DEF Hopes
    <2>3. ~Hopes(c)
      BY <1>1 DEF Hopes, Reading
    <2>4. \A d \in Client \ {c} : Hopes(d)' <=> Hopes(d)
      BY <1>3 DEF Hopes
    <2> QED BY <2>2, <2>3, <2>4
  <1>6. PICK h \in Int, g \in Int :
           /\ h = Hoping /\ g = Hoping' /\ g <= h + 1
           /\ ~Allows("burst", seen) => g = h
    <2>1. Hoping \in Nat
      BY HopingType
    <2>2. Hoping' = Hoping + 1 \/ Hoping' = Hoping
      BY <1>5, HopingChanges
    <2>3. ~Allows("burst", seen) => Hoping' = Hoping
      BY <1>5, HopingChanges
    <2> QED BY <2>1, <2>2, <2>3
  <1>7. /\ recent \in Seq(Nat)
        /\ Covers(seen, recent, h - Extra(burst, seen))
        /\ SameOld(burst, seen) /\ SameOld(seen, burst)
    BY <1>1, <1>6 DEF OverlapInv
  <1>8. CASE ~Allows("burst", seen)
    <2>1. history' = history
      BY <1>2, <1>8 DEF Remember
    <2> QED BY <1>2, <1>3, <1>4, <1>6, <1>8, <2>1 DEF OverlapInv
  <1>9. CASE Allows("burst", seen)
    <2> DEFINE new == <<0>> \o seen
    <2>1. Len(seen) < Rate["burst"] /\ Len(seen) \in Nat /\ Len(burst) \in Nat
      BY <1>1, <1>9 DEF Allows
    <2>2. history'["burst"] = new
      BY <1>1, <1>2, <1>9 DEF Remember
    <2>3. new \in Seq(Nat) /\ Len(new) = Len(seen) + 1
      BY <1>1, Inserted
    <2>4. Extra(burst, seen) \in Nat /\ Extra(burst, seen) <= Rate["burst"] - Len(seen)
      BY <1>1, <2>1 DEF Extra
    <2>5. Covers(new, recent, h + 1)
      BY <1>1, <1>6, <1>7, <2>1, <2>4, CoversMore
    <2>6. Covers(new, recent, g)
      BY <1>6, <1>7, <2>5, CoversFewer
    <2>7. ASSUME NEW d \in Client, Reading(d)'
          PROVE  /\ Covers(call'[d].seen, recent, g - Extra(new, call'[d].seen))
                 /\ SameOld(new, call'[d].seen) /\ SameOld(call'[d].seen, new)
      <3> DEFINE other == call[d].seen
      <3>1. d # c /\ Reading(d) /\ call'[d].seen = other
        BY <1>3, <1>4, <2>7
      <3>2. other \in Seq(Nat) /\ Len(other) \in Nat
        BY <3>1 DEF Reading, ThrottleInv, Remembered, History
      <3>3. /\ SameOld(seen, other) /\ SameOld(other, seen)
            /\ Len(burst) <= Len(seen) \/ Len(burst) <= Len(other)
            /\ Covers(other, recent, h - Extra(burst, other))
        BY <1>1, <1>6, <3>1 DEF OverlapInv
      <3>4. SameOld(new, other) /\ SameOld(other, new)
        BY <1>1, <3>2, <3>3, SameOldInserted
      <3>5. CASE Len(new) <= Len(other)
        <4>1. Ascending(new)
          <5>1. History(seen, "burst")
            BY <1>1 DEF Reading, ThrottleInv, Remembered
          <5> QED BY <1>1, <5>1, InsertedHistory DEF History
        <4>2. Covers(other, recent, g)
          BY <1>6, <1>7, <2>3, <2>6, <3>2, <3>4, <3>5, <4>1, CoversLonger
        <4> HIDE DEF new, other
        <4>3. Extra(new, other) = 0 /\ g - 0 = g
          <5>1. Extra(new, other) = 0
            BY <2>3, <3>2, <3>5, ExtraEntries
          <5>2. g - 0 = g
            OBVIOUS
          <5> QED BY <5>1, <5>2
        <4> QED BY <3>1, <3>4, <4>2, <4>3
      <3>6. CASE Len(other) < Len(new)
        <4> HIDE DEF new, other, seen, burst
        <4>1. /\ Extra(new, other) = Len(new) - Len(other)
              /\ Extra(burst, other) \in Nat
              /\ Len(burst) <= Len(other) => Extra(burst, other) = 0
              /\ Len(other) <= Len(burst) => Extra(burst, other) = Len(burst) - Len(other)
          <5>1. Len(other) <= Len(new)
            BY <2>1, <2>3, <3>2, <3>6
          <5>2. burst \in Seq(Nat)
            BY <1>1
          <5> QED BY <2>3, <3>2, <5>1, <5>2, ExtraEntries
        <4> DEFINE more == Extra(new, other)
                   less == Extra(burst, other)
        <4>2. more \in Int /\ less \in Int /\ more >= less + 1
          BY <2>1, <2>3, <3>2, <3>3, <3>6, <4>1
        <4> HIDE DEF more, less
        <4>4. g - more <= h - less /\ g - more \in Int /\ h - less \in Int
          <5>1. g <= h + 1
            BY <1>6
          <5> QED BY <4>2, <5>1
        <4>3. Covers(other, recent, g - Extra(new, other))
          BY <1>7, <3>3, <4>4, CoversFewer DEF more, less
        <4> QED BY <3>1, <3>4, <4>3
      <3> QED BY <2>3, <3>2, <3>5, <3>6
    <2>8. \A d, e \in Client : ~(d # e /\ Reading(d)' /\ Reading(e)')
      BY <1>4
    <2> HIDE DEF new
    <2>9. recent' = recent /\ recent \in Seq(Nat)
      BY <1>2, <1>7
    <2> QED BY <1>6, <2>2, <2>6, <2>7, <2>8, <2>9 DEF OverlapInv
  <1> QED BY <1>8, <1>9

(* The grant turns a hope into an entry. *)
LEMMA AskDailyOverlap ==
    ASSUME superuser = FALSE, NEW c \in Client, ThrottleInv, OverlapInv, AskDaily(c)
    PROVE  OverlapInv'
  <1> DEFINE burst == history["burst"]
  <1>1. /\ history \in [Scope -> Seq(Nat)] /\ DOMAIN call = Client
        /\ burst \in Seq(Nat) /\ "burst" \in Scope
    BY DEF ThrottleInv, Scope
  <1>2. /\ call'[c] = None /\ \A d \in Client \ {c} : call'[d] = call[d]
        /\ recent' = IF Granted(c) THEN <<0>> \o recent ELSE recent
    BY <1>1 DEF AskDaily
  <1>3. history'["burst"] = burst
    BY <1>1 DEF AskDaily, Remember
  <1>4. /\ ~Reading(c)' /\ ~Reading(c) /\ ~Hopes(c)'
        /\ \A d \in Client \ {c} :
              (Reading(d)' <=> Reading(d)) /\ (Hopes(d)' <=> Hopes(d))
    BY <1>2 DEF Reading, Hopes, AskDaily
  <1>5. PICK h \in Int, g \in Int :
           /\ h = Hoping /\ g = Hoping' /\ g <= h
           /\ Hopes(c) => g = h - 1
    <2>1. Hoping \in Nat
      BY HopingType
    <2>2. /\ Hopes(c) => Hoping' = Hoping - 1
          /\ ~Hopes(c) => Hoping' = Hoping
      BY <1>4, HopingChanges
    <2> QED BY <2>1, <2>2
  <1>6. Granted(c) => Hopes(c)
    BY DEF AskDaily, Granted, Hopes
  <1>7. ASSUME NEW ages \in Seq(Nat), NEW k \in Nat, Covers(ages, recent, h - k)
        PROVE  Covers(ages, recent', g - k)
    <2>1. recent \in Seq(Nat) /\ h - k \in Int /\ g - k \in Int
      BY <1>5 DEF OverlapInv
    <2>2. CASE Granted(c)
      <3>1. recent' = <<0>> \o recent /\ g - k = (h - k) - 1
        BY <1>2, <1>5, <1>6, <2>2
      <3>2. Covers(ages, <<0>> \o recent, (h - k) - 1)
        BY <1>7, <2>1, CoversGranted
      <3> QED BY <3>1, <3>2
    <2>3. CASE ~Granted(c)
      <3>1. recent' = recent /\ g - k <= h - k
        <4>1. g <= h
          BY <1>5
        <4> QED BY <1>2, <2>3, <4>1
      <3>2. Covers(ages, recent, g - k)
        BY <1>7, <2>1, <3>1, CoversFewer
      <3> QED BY <3>1, <3>2
    <2> QED BY <2>2, <2>3
  <1>8. Covers(burst, recent', g)
    <2>1. h - 0 = h /\ g - 0 = g
      OBVIOUS
    <2>3. Covers(burst, recent, h)
      BY <1>5 DEF OverlapInv
    <2>2. Covers(burst, recent', g - 0)
      BY <1>1, <1>7, <2>1, <2>3
    <2> QED BY <2>1, <2>2
  <1>9. ASSUME NEW d \in Client, Reading(d)'
        PROVE  /\ Covers(call'[d].seen, recent', g - Extra(burst, call'[d].seen))
               /\ SameOld(burst, call'[d].seen) /\ SameOld(call'[d].seen, burst)
    <2>1. d # c /\ Reading(d) /\ call'[d] = call[d]
      BY <1>2, <1>4, <1>9
    <2>2. call[d].seen \in Seq(Nat) /\ Extra(burst, call[d].seen) \in Nat
      <3>1. call[d].seen \in Seq(Nat)
        BY <2>1 DEF Reading, ThrottleInv, Remembered, History
      <3> QED BY <1>1, <3>1 DEF Extra
    <2>3. /\ Covers(call[d].seen, recent, h - Extra(burst, call[d].seen))
          /\ SameOld(burst, call[d].seen) /\ SameOld(call[d].seen, burst)
      BY <1>5, <2>1 DEF OverlapInv
    <2>4. Covers(call[d].seen, recent', g - Extra(burst, call[d].seen))
      BY <1>7, <2>2, <2>3
    <2> QED BY <2>1, <2>3, <2>4
  <1>10. ASSUME NEW d \in Client, NEW e \in Client, d # e, Reading(d)', Reading(e)'
         PROVE  /\ SameOld(call'[d].seen, call'[e].seen)
                /\ Len(burst) <= Len(call'[d].seen) \/ Len(burst) <= Len(call'[e].seen)
    BY <1>2, <1>4, <1>10 DEF OverlapInv
  <1>11. recent' \in Seq(Nat)
    BY <1>2, Inserted DEF OverlapInv
  <1> HIDE DEF burst
  <1> QED BY <1>3, <1>5, <1>8, <1>9, <1>10, <1>11 DEF OverlapInv

LEMMA PassOverlap ==
    ASSUME ThrottleInv, OverlapInv, Pass PROVE OverlapInv'
  <1>1. /\ history' = [s \in Scope |-> Older(history[s], Window[s])]
        /\ recent' = Older(recent, Window["burst"])
        /\ call' = call /\ \A c \in Client : call[c] = None
    BY DEF Pass, ThrottlePass
  <1>2. /\ history["burst"] \in Seq(Nat) /\ Ascending(history["burst"])
        /\ recent \in Seq(Nat) /\ "burst" \in Scope /\ Window["burst"] \in Nat
    BY ThrottleAssumption DEF ThrottleInv, OverlapInv, History, Scope
  <1>3. history'["burst"] = Older(history["burst"], Window["burst"])
    BY <1>1, <1>2
  <1>4. Hoping = 0 /\ Hoping' = 0
    <2>1. {c \in Client : Hopes(c)} = {} /\ {c \in Client : Hopes(c)'} = {}
      BY <1>1 DEF Hopes
    <2> QED BY <2>1, FS_EmptySet DEF Hoping
  <1>5. Covers(history'["burst"], recent', 0)
    BY <1>1, <1>2, <1>3, <1>4, CoversOlder DEF OverlapInv
  <1>6. recent' \in Seq(Nat)
    BY <1>1, <1>2, OlderKeeps
  <1>7. \A c \in Client : ~Reading(c)'
    BY <1>1 DEF Reading
  <1> QED BY <1>4, <1>5, <1>6, <1>7 DEF OverlapInv

LEMMA ManualCheckOverlap ==
    ASSUME ThrottleInv, OverlapInv, NEW c \in Client, ManualCheck(c)
    PROVE  OverlapInv'
  <1>1. /\ call'[c] = [scope |-> "burst", seen |-> None, refused |-> FALSE]
        /\ \A d \in Client \ {c} : call'[d] = call[d]
        /\ call[c] = None /\ recent' = recent /\ history' = history
    BY DEF ManualCheck, ThrottleInv
  <1>2. ~Hopes(c)' /\ ~Hopes(c) /\ ~Reading(c)'
    BY <1>1 DEF Hopes, Reading
  <1>3. \A d \in Client \ {c} : (Hopes(d)' <=> Hopes(d)) /\ (Reading(d)' <=> Reading(d))
    BY <1>1 DEF Hopes, Reading
  <1>4. Hoping' = Hoping
    BY <1>2, <1>3, HopingChanges
  <1> QED BY <1>1, <1>2, <1>3, <1>4 DEF OverlapInv

LEMMA OverlapBound ==
    ASSUME Cardinality(Client) = 2, ThrottleInv, OverlapInv PROVE RateHolds
  <1> DEFINE R == Rate["burst"]
             l == Len(history["burst"])
             n == Len(recent)
  <1>1. /\ history["burst"] \in Seq(Nat) /\ recent \in Seq(Nat)
        /\ R \in Nat /\ l \in 0 .. R /\ n \in Nat
    BY ThrottleAssumption DEF ThrottleInv, OverlapInv, Scope
  <1>2. l + 1 \notin DOMAIN history["burst"]
    BY <1>1
  <1>3. Covers(history["burst"], recent, 0)
    <2>1. Hoping \in Nat
      BY HopingType
    <2> QED BY <1>1, <2>1, CoversFewer DEF OverlapInv
  <1>4. n # 0 => ~(Twice(l) < 2 * (n + 0))
    <2>1. n # 0 => n \in DOMAIN recent
      BY <1>1
    <2> QED BY <1>1, <1>2, <1>3, <2>1 DEF Covers
  <1>5. Twice(l) <= Twice(R) /\ Twice(l) \in Int /\ Twice(R) \in Int
    BY <1>1, TwiceGrows
  <1>6. ~(Twice(R) < 2 * 0)
    BY <1>1, CoversNothing
  <1>7. 2 * n <= Twice(R)
    BY <1>1, <1>4, <1>5, <1>6
  <1>8. Twice(R) = R * (R + 3)
    <2>1. \A r \in Nat : r * (2 * r + 3 - r) = r * (r + 3)
      OBVIOUS
    <2> QED BY <1>1, <2>1 DEF Twice
  <1>9. \A y \in Int : 2 * n <= y => n <= y \div 2
    BY <1>1
  <1>10. MostGranted = (R * (R + 3)) \div 2
    BY DEF MostGranted
  <1>11. R * (R + 3) \in Int
    BY <1>1
  <1> HIDE DEF R, n
  <1>12. n <= MostGranted
    BY <1>7, <1>8, <1>9, <1>10, <1>11
  <1> QED BY <1>12 DEF RateHolds, n

LEMMA OnlyTwo ==
    ASSUME Cardinality(Client) = 2
    PROVE  \A c, d, e \in Client : d = c \/ e = c \/ d = e
  <1> SUFFICES ASSUME NEW c \in Client, NEW d \in Client, NEW e \in Client,
                      d # c, e # c, d # e
               PROVE  FALSE
    OBVIOUS
  <1>1. IsFiniteSet({c}) /\ Cardinality({c}) = 1
    BY FS_Singleton
  <1>2. IsFiniteSet({c} \cup {d}) /\ Cardinality({c} \cup {d}) = 2
    BY <1>1, FS_AddElement
  <1>3. Cardinality(({c} \cup {d}) \cup {e}) = 3
    BY <1>2, FS_AddElement
  <1>4. ({c} \cup {d}) \cup {e} \subseteq Client
    OBVIOUS
  <1> QED BY <1>3, <1>4, ThrottleAssumption, FS_Subset

(* The checks a user is granted in any window: the configured rate R when     *)
(* requests do not overlap, although each throttle counts also what the other *)
(* one refuses; and never more than R(R + 3)/2 when two at a time do, which   *)
(* the cache's separate read and write let through.                            *)
THEOREM RateIsBounded ==
    ASSUME Cardinality(Client) \in {1, 2}, superuser = FALSE
    PROVE  Spec => []RateHolds
  <1>1. CASE Cardinality(Client) = 1
    BY <1>1, SoloRate
  <1>2. CASE Cardinality(Client) = 2
    <2>1. ThrottleInv /\ OverlapInv /\ [Next]_vars => OverlapInv'
      <3> SUFFICES ASSUME ThrottleInv, OverlapInv, [Next]_vars PROVE OverlapInv'
        OBVIOUS
      <3>1. CASE UNCHANGED throttleVars
        BY <3>1 DEF throttleVars, OverlapInv, Hoping, Hopes, Reading
      <3>2. ASSUME NEW c \in Client, Manual(c) PROVE OverlapInv'
        <4>1. \A d, e \in Client : d = c \/ e = c \/ d = e
          BY <1>2, OnlyTwo
        <4> QED BY <3>2, <4>1, ManualCheckOverlap, ReadOverlap, AskBurstOverlap,
                   AskDailyOverlap DEF Manual
      <3>3. CASE Pass
        BY <3>3, PassOverlap
      <3> QED BY <3>1, <3>2, <3>3 DEF Next, vars
    <2> QED BY <1>2, <2>1, NextThrottle, InitThrottle, InitOverlap, OverlapBound, PTL DEF Spec
  <1> QED BY <1>1, <1>2

-----------------------------------------------------------------------------
(* The verdict.  Both paths are functions of the site's answer and of what    *)
(* the monitor expects: one lemma each.                                       *)
LEMMA Result ==
    ASSUME NEW status \in Nat, NEW error \in Errors \cup {""}
    PROVE  /\ BuildResult(status, error) \in
                [status : Nat, is_success : BOOLEAN, error : Errors \cup {""}]
           /\ BuildResult(status, error).status = status
           /\ BuildResult(status, error).is_success = (error = "")
           /\ BuildResult(status, error).error = error
  BY DEF BuildResult

LEMMA ProbesAreSound == SoundByProbes
  <1> SUFFICES ASSUME NEW m \in Expectation, NEW a \in Answer
               PROVE  LET row == CheckMonitor(m, a, "answers") IN
                      /\ row.is_success => Deserved(m, a)
                      /\ a.cert =>
                           /\ row.is_success = Deserved(m, a)
                           /\ row.status = IF a.kind = "response" THEN a.status ELSE Null
                           /\ row.is_success = (row.error = Null)
    BY DEF SoundByProbes, Sound
  <1> DEFINE reply == ExecuteCheck(m, a)
             status == IF a.kind = "response" THEN a.status ELSE 0
             error == IF a.kind = "response" THEN ValidateResponse(Params(m), a) ELSE a.kind
  <1>1. /\ a.kind \in {"response", "timeout", "network", "other"}
        /\ a.status \in Nat \ {0} /\ a.word \in BOOLEAN /\ a.cert \in BOOLEAN
        /\ m.keyword \in {Null, "", "word"}
    BY VerdictAssumption DEF Answer, Expectation
  <1>2. reply = BuildResult(status, error)
    BY DEF ExecuteCheck, CheckByProbe, ReceivedByProbe
  <1>3. /\ error \in {"", "status", "keyword", "timeout", "network", "other"}
        /\ status \in Nat /\ (status = 0) = (a.kind # "response")
    BY <1>1 DEF ValidateResponse
  <1>4. (error = "") = Deserved(m, a)
    BY <1>1, VerdictAssumption DEF ValidateResponse, Params, Deserved
  <1>5. status = IF a.kind = "response" THEN a.status ELSE 0
    OBVIOUS
  <1> HIDE DEF reply, status, error
  <1>6. /\ reply \in [status : Nat, is_success : BOOLEAN, error : Errors \cup {""}]
        /\ reply.status = status
        /\ reply.is_success = (error = "") /\ reply.error = error
    <2>1. error \in Errors \cup {""}
      BY <1>3 DEF Errors
    <2>2. status \in Nat
      BY <1>3
    <2>3. /\ BuildResult(status, error) \in
               [status : Nat, is_success : BOOLEAN, error : Errors \cup {""}]
          /\ BuildResult(status, error).status = status
          /\ BuildResult(status, error).is_success = (error = "")
          /\ BuildResult(status, error).error = error
      BY <2>1, <2>2, Result, Zenon
    <2> QED BY <1>2, <2>3, Zenon
  <1>7. CheckMonitor(m, a, "answers") = Stored(reply)
    BY <1>6, VerdictAssumption DEF CheckMonitor, ProbeResponse, reply
  <1>8. /\ Stored(reply).is_success = Deserved(m, a)
        /\ Stored(reply).status = IF a.kind = "response" THEN a.status ELSE Null
        /\ Stored(reply).error = IF error # "" THEN error ELSE Null
    BY <1>3, <1>4, <1>5, <1>6 DEF Stored
  <1>9. (Stored(reply).error = Null) = (error = "")
    BY <1>3, <1>8, VerdictAssumption DEF Errors
  <1> QED BY <1>4, <1>7, <1>8, <1>9

LEMMA LocalIsSound == SoundLocally
  <1> SUFFICES ASSUME NEW m \in Expectation, NEW a \in Answer
               PROVE  LET row == CheckMonitor(m, a, "fails") IN
                      /\ row.is_success => Deserved(m, a)
                      /\ a.cert =>
                           /\ row.is_success = Deserved(m, a)
                           /\ row.status = IF a.kind = "response" THEN a.status ELSE Null
                           /\ row.is_success = (row.error = Null)
    BY DEF SoundLocally, Sound
  <1>1. /\ a.kind \in {"response", "timeout", "network", "other"}
        /\ a.word \in BOOLEAN /\ a.cert \in BOOLEAN
        /\ m.keyword \in {Null, "", "word"}
    BY DEF Answer, Expectation
  <1>2. CheckMonitor(m, a, "fails") = CheckLocally(m, a)
    BY DEF CheckMonitor, ProbeResponse
  <1>3. CASE ReceivedLocally(a) = "response"
    <2>1. a.kind = "response" /\ a.cert
      BY <1>1, <1>3 DEF ReceivedLocally
    <2>2. (a.status = m.expected /\ (m.keyword \notin {Null, ""} => a.word)) = Deserved(m, a)
      BY <1>1, <2>1, VerdictAssumption DEF Deserved
    <2>3. /\ CheckLocally(m, a).is_success = Deserved(m, a)
          /\ CheckLocally(m, a).status = a.status
          /\ CheckLocally(m, a).error =
               IF a.status # m.expected THEN "status"
               ELSE IF ~(m.keyword \notin {Null, ""} => a.word) THEN "keyword" ELSE Null
      BY <1>3, <2>2 DEF CheckLocally
    <2>4. Deserved(m, a) \in BOOLEAN
      BY <1>1 DEF Deserved
    <2>5. Deserved(m, a) = (CheckLocally(m, a).error = Null)
      BY <2>2, <2>3, VerdictAssumption DEF Errors
    <2> DEFINE row == CheckLocally(m, a)
    <2>6. /\ row.is_success = Deserved(m, a) /\ row.status = a.status
          /\ row.is_success = (row.error = Null)
      BY <2>3, <2>5
    <2> HIDE DEF row
    <2>7. /\ row.is_success => Deserved(m, a)
          /\ row.status = IF a.kind = "response" THEN a.status ELSE Null
      BY <2>1, <2>4, <2>6
    <2> QED BY <1>2, <2>6, <2>7 DEF row
  <1>4. CASE ReceivedLocally(a) # "response"
    <2>1. CheckLocally(m, a) =
            [status |-> Null, is_success |-> FALSE, error |-> ReceivedLocally(a)]
      BY <1>4 DEF CheckLocally
    <2>2. /\ ReceivedLocally(a) \in {"timeout", "network", "other"}
          /\ a.cert => a.kind # "response"
      BY <1>1, <1>4 DEF ReceivedLocally
    <2>3. a.cert => ~Deserved(m, a)
      BY <2>2 DEF Deserved
    <2>4. ReceivedLocally(a) # Null
      BY <2>2, VerdictAssumption DEF Errors
    <2> DEFINE row == CheckLocally(m, a)
    <2>5. /\ row.is_success = FALSE /\ row.status = Null /\ row.error # Null
      BY <2>1, <2>4
    <2> HIDE DEF row
    <2>6. a.cert =>
            /\ row.is_success = Deserved(m, a)
            /\ row.status = IF a.kind = "response" THEN a.status ELSE Null
            /\ row.is_success = (row.error = Null)
      <3>1. Deserved(m, a) \in BOOLEAN
        BY <1>1 DEF Deserved
      <3> QED BY <2>2, <2>3, <2>5, <3>1
    <2> QED BY <1>2, <2>5, <2>6 DEF row
  <1> QED BY <1>3, <1>4

(* Probes that come and go turn no monitor up or down: both paths write the   *)
(* verdict the site deserves, for every status, keyword and way to fail, and  *)
(* what one stores as a missing status or error the other stores too.         *)
THEOREM VerdictsAgree == Spec => []VerdictIndependent
  <1>1. TRUE => VerdictIndependent
    BY ProbesAreSound, LocalIsSound DEF VerdictIndependent
  <1> QED BY <1>1, PTL

-----------------------------------------------------------------------------
(* The backlog.  A manual check that waits is no older than its grant, so     *)
(* those asked for in the window that is ending are among the recent grants,  *)
(* and those of earlier windows have only become fewer.  A tick, or the check *)
(* it ordered, is at least as old as the newest beat.                         *)
AskedSet(q, a, b) ==
    {n \in DOMAIN q : q[n].task = "manual" /\ a <= q[n].age /\ q[n].age < b}
Asked(q, a, b) == Cardinality(AskedSet(q, a, b))

YoungSet(ages, b) == {i \in DOMAIN ages : ages[i] < b}
Young(ages, b) == Cardinality(YoungSet(ages, b))

AskedByGrant ==
    /\ recent \in Seq(Nat)
    /\ \A b \in 0 .. Window["burst"] : Asked(queue, 0, b) <= Young(recent, b)

AskedBefore ==
    \A a \in Nat \ {0} : Asked(queue, a, a + Window["burst"]) <= MostGranted

Beaten ==
    \A n \in DOMAIN queue : queue[n].task # "manual" => queue[n].age + beat >= Period

BacklogInv == AskedByGrant /\ AskedBefore /\ Beaten /\ OnePerBeat

LEMMA MostGrantedType == MostGranted \in Nat
  <1> DEFINE R == Rate["burst"]
  <1>1. R \in Nat
    BY ThrottleAssumption DEF Scope
  <1>2. R * (R + 3) \in Nat
    BY <1>1
  <1>3. (R * (R + 3)) \div 2 \in Nat
    <2> DEFINE p == R * (R + 3)
    <2> HIDE DEF p
    <2>1. p \in Nat => p \div 2 \in Nat
      OBVIOUS
    <2> QED BY <1>2, <2>1 DEF p
  <1> QED BY <1>1, <1>3 DEF MostGranted

LEMMA CountTypes ==
    ASSUME NEW q \in Seq(Task), NEW ages \in Seq(Nat), NEW a, NEW b
    PROVE  /\ IsFiniteSet(AskedSet(q, a, b)) /\ Asked(q, a, b) \in Nat
           /\ IsFiniteSet(YoungSet(ages, b)) /\ Young(ages, b) \in Nat
           /\ Young(ages, b) <= Len(ages)
  <1>1. /\ DOMAIN q = 1 .. Len(q) /\ Len(q) \in Nat
        /\ DOMAIN ages = 1 .. Len(ages) /\ Len(ages) \in Nat
    OBVIOUS
  <1>2. \A l \in Nat : IsFiniteSet(1 .. l) /\ Cardinality(1 .. l) = l
    BY FS_Interval
  <1>3. AskedSet(q, a, b) \in SUBSET (1 .. Len(q)) /\ YoungSet(ages, b) \in SUBSET (1 .. Len(ages))
    BY <1>1 DEF AskedSet, YoungSet
  <1> QED BY <1>1, <1>2, <1>3, FS_Subset, FS_CardinalityType DEF Asked, Young

LEMMA QueueTypes ==
    ASSUME GapInv, BacklogInv
    PROVE  /\ queue \in Seq(Task) /\ DOMAIN queue = 1 .. Len(queue) /\ Len(queue) \in Nat
           /\ \A n \in DOMAIN queue : queue[n] \in Task /\ queue[n].age \in Nat
           /\ recent \in Seq(Nat) /\ Window["burst"] \in Nat \ {0}
           /\ Period \in Nat /\ beat \in 0 .. Period
  <1>1. queue \in Seq(Task) /\ beat \in 0 .. Period
    BY DEF GapInv, Timers
  <1>2. \A n \in DOMAIN queue : queue[n] \in Task
    BY <1>1
  <1>3. \A t \in Task : t.age \in Nat
    BY DEF Task
  <1>4. Window["burst"] \in Nat \ {0} /\ Period \in Nat
    BY ThrottleAssumption, SchedulerAssumption DEF Scope
  <1> QED BY <1>1, <1>2, <1>3, <1>4 DEF BacklogInv, AskedByGrant

(* The tasks of one queue are among those of another, whatever their order.   *)
Among(r, q, f) ==
    /\ f \in [DOMAIN r -> DOMAIN q]
    /\ \A m, n \in DOMAIN r : f[m] = f[n] => m = n
    /\ \A n \in DOMAIN r : /\ r[n].age = q[f[n]].age
                           /\ (r[n].task = "manual") = (q[f[n]].task = "manual")

LEMMA FewerAsked ==
    ASSUME NEW q \in Seq(Task), NEW r \in Seq(Task), NEW f, Among(r, q, f)
    PROVE  \A a, b \in Nat : Asked(r, a, b) <= Asked(q, a, b)
  <1> SUFFICES ASSUME NEW a \in Nat, NEW b \in Nat PROVE Asked(r, a, b) <= Asked(q, a, b)
    OBVIOUS
  <1> DEFINE S == AskedSet(r, a, b)
             T == AskedSet(q, a, b)
             g == [n \in S |-> f[n]]
  <1>1. \A n \in S : n \in DOMAIN r /\ f[n] \in T
    BY DEF AskedSet, Among
  <1>2. g \in [S -> T] /\ \A m, n \in S : g[m] = g[n] => m = n
    BY <1>1 DEF Among
  <1>3. g \in Injection(S, T)
    BY <1>2 DEF Injection, IsInjective
  <1>4. IsFiniteSet(T)
    <2>1. <<>> \in Seq(Nat)
      OBVIOUS
    <2> QED BY <2>1, CountTypes
  <1>5. Cardinality(S) <= Cardinality(T)
    <2> HIDE DEF g, S, T
    <2> QED BY <1>3, <1>4, FS_Injection
  <1> QED BY <1>5 DEF Asked

LEMMA FewerBacklog ==
    ASSUME GapInv, BacklogInv, queue' \in Seq(Task), NEW f, Among(queue', queue, f),
           recent' = recent, beat' = beat
    PROVE  BacklogInv'
  <1>0. queue \in Seq(Task) /\ recent \in Seq(Nat) /\ Window["burst"] \in Nat
    BY QueueTypes
  <1>1. \A a, b \in Nat :
            /\ Asked(queue', a, b) <= Asked(queue, a, b)
            /\ Asked(queue', a, b) \in Nat /\ Asked(queue, a, b) \in Nat
            /\ Young(recent, b) \in Nat
    BY <1>0, FewerAsked, CountTypes
  <1>2. AskedByGrant'
    <2> SUFFICES ASSUME NEW b \in 0 .. Window["burst"]
                 PROVE  Asked(queue', 0, b) <= Young(recent, b)
      BY <1>0 DEF AskedByGrant
    <2>1. Asked(queue, 0, b) <= Young(recent, b) /\ b \in Nat
      BY <1>0 DEF BacklogInv, AskedByGrant
    <2>2. /\ Asked(queue', 0, b) <= Asked(queue, 0, b)
          /\ Asked(queue', 0, b) \in Nat /\ Asked(queue, 0, b) \in Nat
          /\ Young(recent, b) \in Nat
      BY <1>1, <2>1, Zenon
    <2> QED BY <2>1, <2>2
  <1>3. AskedBefore'
    <2> SUFFICES ASSUME NEW a \in Nat \ {0}
                 PROVE  Asked(queue', a, a + Window["burst"]) <= MostGranted
      BY DEF AskedBefore
    <2>1. Asked(queue, a, a + Window["burst"]) <= MostGranted
      BY DEF BacklogInv, AskedBefore
    <2>2. a \in Nat /\ a + Window["burst"] \in Nat
      BY <1>0
    <2>3. /\ Asked(queue', a, a + Window["burst"]) <= Asked(queue, a, a + Window["burst"])
          /\ Asked(queue', a, a + Window["burst"]) \in Nat
          /\ Asked(queue, a, a + Window["burst"]) \in Nat
      BY <1>1, <2>2, Zenon
    <2> QED BY <2>1, <2>3, MostGrantedType
  <1>4. Beaten' /\ OnePerBeat'
    BY DEF BacklogInv, Beaten, OnePerBeat, Among
  <1> QED BY <1>2, <1>3, <1>4 DEF BacklogInv

LEMMA InitBacklog == Init => BacklogInv
  <1> SUFFICES ASSUME Init PROVE BacklogInv
    OBVIOUS
  <1>1. recent = <<>> /\ queue = <<>> /\ DOMAIN queue = {}
    BY DEF Init, ThrottleInit, SchedulerInit
  <1>2. recent \in Seq(Nat) /\ queue \in Seq(Task)
    BY <1>1
  <1>3. \A a, b : Asked(queue, a, b) = 0
    <2>1. \A a, b : AskedSet(queue, a, b) = {}
      BY <1>1 DEF AskedSet
    <2> QED BY <2>1, FS_EmptySet DEF Asked
  <1>4. \A b : Young(recent, b) \in Nat
    BY <1>2, CountTypes
  <1>5. AskedByGrant /\ AskedBefore
    BY <1>2, <1>3, <1>4, MostGrantedType DEF AskedByGrant, AskedBefore
  <1> QED BY <1>1, <1>5 DEF BacklogInv, Beaten, OnePerBeat

(* A grant is remembered, also one that puts nothing in the queue. *)
LEMMA GrantYoung ==
    ASSUME NEW ages \in Seq(Nat), NEW b \in Nat
    PROVE  Young(<<0>> \o ages, b) >= Young(ages, b) + (IF b = 0 THEN 0 ELSE 1)
  <1> DEFINE new == <<0>> \o ages
             S == YoungSet(ages, b)
             T == YoungSet(new, b)
             g == [i \in S |-> i + 1]
  <1>1. /\ new \in Seq(Nat) /\ Len(new) = Len(ages) + 1 /\ new[1] = 0
        /\ \A i \in DOMAIN new : i # 1 => i - 1 \in DOMAIN ages /\ new[i] = ages[i - 1]
        /\ DOMAIN new = 1 .. Len(new) /\ DOMAIN ages = 1 .. Len(ages) /\ Len(ages) \in Nat
    BY Inserted
  <1>2. IsFiniteSet(S) /\ IsFiniteSet(T)
    <2>1. <<>> \in Seq(Task)
      OBVIOUS
    <2> HIDE DEF new
    <2> QED BY <1>1, <2>1, CountTypes
  <1>3. \A i \in S : i \in Nat /\ i + 1 \in T \ {1}
    <2> SUFFICES ASSUME NEW i \in S PROVE i \in Nat /\ i + 1 \in T \ {1}
      OBVIOUS
    <2>1. i \in 1 .. Len(ages) /\ ages[i] < b
      BY <1>1 DEF YoungSet
    <2>2. i + 1 \in DOMAIN new /\ i + 1 # 1 /\ (i + 1) - 1 = i
      BY <1>1, <2>1
    <2>3. new[i + 1] = ages[i]
      BY <1>1, <2>2
    <2> QED BY <2>1, <2>2, <2>3 DEF YoungSet
  <1>4. g \in Injection(S, T \ {1})
    <2>1. g \in [S -> T \ {1}]
      BY <1>3
    <2>2. \A i, j \in S : g[i] = g[j] => i = j
      BY <1>3
    <2> QED BY <2>1, <2>2 DEF Injection, IsInjective
  <1>5. /\ IsFiniteSet(T \ {1})
        /\ Cardinality(T \ {1}) = IF 1 \in T THEN Cardinality(T) - 1 ELSE Cardinality(T)
    <2> HIDE DEF T
    <2> QED BY <1>2, FS_RemoveElement
  <1>6. Cardinality(S) <= Cardinality(T \ {1})
    <2> HIDE DEF g, S, T
    <2> QED BY <1>4, <1>5, FS_Injection
  <1>7. b # 0 => 1 \in T
    BY <1>1 DEF YoungSet
  <1>8. Cardinality(S) \in Nat /\ Cardinality(T) \in Nat
    <2> HIDE DEF S, T
    <2> QED BY <1>2, FS_CardinalityType
  <1> HIDE DEF S, T
  <1>9. Cardinality(T) >= Cardinality(S) + (IF b = 0 THEN 0 ELSE 1)
    BY <1>5, <1>6, <1>7, <1>8
  <1> QED BY <1>9 DEF S, T, Young

LEMMA OneMoreAsked ==
    ASSUME NEW q \in Seq(Task), NEW a \in Nat, NEW b \in Nat,
           NEW t \in {"manual", "tick"}
    PROVE  Asked(Append(q, New(t)), a, b)
             <= Asked(q, a, b) + (IF t = "manual" /\ a = 0 /\ b # 0 THEN 1 ELSE 0)
  <1> DEFINE new == Append(q, New(t))
             S == AskedSet(q, a, b)
             T == AskedSet(new, a, b)
  <1>1. New(t) \in Task /\ New(t).task = t /\ New(t).age = 0
    BY TaskType
  <1>2. /\ DOMAIN new = 1 .. Len(q) + 1 /\ Len(q) \in Nat /\ new[Len(q) + 1] = New(t)
        /\ \A n \in 1 .. Len(q) : new[n] = q[n]
        /\ DOMAIN q = 1 .. Len(q)
    BY <1>1
  <1>3. T \subseteq S \cup {Len(q) + 1}
    BY <1>2 DEF AskedSet
  <1>4. ~(t = "manual" /\ a = 0 /\ b # 0) => T \subseteq S
    BY <1>1, <1>2 DEF AskedSet
  <1>5. IsFiniteSet(S)
    <2>1. <<>> \in Seq(Nat)
      OBVIOUS
    <2> QED BY <2>1, CountTypes
  <1> HIDE DEF S, T
  <1>6. Cardinality(S) \in Nat
    BY <1>5, FS_CardinalityType
  <1>7. /\ IsFiniteSet(S \cup {Len(q) + 1})
        /\ Cardinality(S \cup {Len(q) + 1}) <= Cardinality(S) + 1
    <2>1. /\ IsFiniteSet(S \cup {Len(q) + 1})
          /\ Cardinality(S \cup {Len(q) + 1}) =
               IF Len(q) + 1 \in S THEN Cardinality(S) ELSE Cardinality(S) + 1
      BY <1>5, FS_AddElement, Zenon
    <2> QED BY <1>6, <2>1
  <1>8. /\ IsFiniteSet(T) /\ Cardinality(T) <= Cardinality(S \cup {Len(q) + 1})
        /\ T \subseteq S => Cardinality(T) <= Cardinality(S)
    BY <1>3, <1>5, <1>7, FS_Subset
  <1>9. Cardinality(T) \in Nat /\ Cardinality(S \cup {Len(q) + 1}) \in Nat
    BY <1>7, <1>8, FS_CardinalityType
  <1>10. Cardinality(T)
            <= Cardinality(S) + (IF t = "manual" /\ a = 0 /\ b # 0 THEN 1 ELSE 0)
    BY <1>4, <1>6, <1>7, <1>8, <1>9
  <1> QED BY <1>10 DEF S, T, Asked

LEMMA ManualBacklog ==
    ASSUME GapInv, BacklogInv, NEW c \in Client, Manual(c) PROVE BacklogInv'
  <1>0. queue \in Seq(Task) /\ recent \in Seq(Nat) /\ Window["burst"] \in Nat
    BY QueueTypes
  <1>1. /\ beat' = beat
        /\ \/ queue' = queue /\ recent' = recent
           \/ queue' = queue /\ recent' = <<0>> \o recent
           \/ queue' = Append(queue, New("manual")) /\ recent' = <<0>> \o recent
    BY DEF Manual, ManualCheck, ReadHistory, AskBurst, AskDaily, schedulerVars
  <1>2. CASE queue' = queue /\ recent' = recent
    BY <1>1, <1>2 DEF BacklogInv, AskedByGrant, AskedBefore, Beaten, OnePerBeat
  <1>3. CASE recent' = <<0>> \o recent
    <2>0. queue' = queue \/ queue' = Append(queue, New("manual"))
      BY <1>1
    <2>1. recent' \in Seq(Nat) /\ queue' \in Seq(Task)
      <3>1. recent' \in Seq(Nat)
        BY <1>0, <1>3, Inserted
      <3>2. \A t \in Task : Append(queue, t) \in Seq(Task)
        BY <1>0
      <3>3. Append(queue, New("manual")) \in Seq(Task)
        BY <3>2, TaskType
      <3> QED BY <1>0, <2>0, <3>1, <3>3, Zenon
    <2>2. ASSUME NEW a \in Nat, NEW b \in Nat
          PROVE  /\ Asked(queue', a, b)
                       <= Asked(queue, a, b) + (IF a = 0 /\ b # 0 THEN 1 ELSE 0)
                 /\ Asked(queue', a, b) \in Nat /\ Asked(queue, a, b) \in Nat
                 /\ Young(recent', b) >= Young(recent, b) + (IF b = 0 THEN 0 ELSE 1)
                 /\ Young(recent', b) \in Nat /\ Young(recent, b) \in Nat
      <3>1. /\ Asked(queue', a, b) \in Nat /\ Asked(queue, a, b) \in Nat
            /\ Young(recent', b) \in Nat /\ Young(recent, b) \in Nat
        BY <1>0, <2>1, CountTypes
      <3>2. Young(recent', b) >= Young(recent, b) + (IF b = 0 THEN 0 ELSE 1)
        BY <1>0, <1>3, GrantYoung
      <3>3. CASE queue' = queue
        BY <3>1, <3>2, <3>3
      <3>4. CASE queue' = Append(queue, New("manual"))
        <4> DEFINE more == IF "manual" = "manual" /\ a = 0 /\ b # 0 THEN 1 ELSE 0
        <4>1. Asked(Append(queue, New("manual")), a, b) <= Asked(queue, a, b) + more
          BY <1>0, OneMoreAsked, Zenon
        <4>2. more = IF a = 0 /\ b # 0 THEN 1 ELSE 0
          OBVIOUS
        <4> HIDE DEF more
        <4>3. Asked(queue', a, b) <= Asked(queue, a, b) + more
          BY <3>4, <4>1, Zenon
        <4> QED BY <3>1, <3>2, <4>2, <4>3
      <3> QED BY <2>0, <3>3, <3>4
    <2>3. AskedByGrant'
      <3> SUFFICES ASSUME NEW b \in 0 .. Window["burst"]
                   PROVE  Asked(queue', 0, b) <= Young(recent', b)
        BY <2>1 DEF AskedByGrant
      <3>1. Asked(queue, 0, b) <= Young(recent, b) /\ b \in Nat
        BY <1>0 DEF BacklogInv, AskedByGrant
      <3>2. /\ Asked(queue', 0, b) <= Asked(queue, 0, b) + (IF 0 = 0 /\ b # 0 THEN 1 ELSE 0)
            /\ Asked(queue', 0, b) \in Nat /\ Asked(queue, 0, b) \in Nat
            /\ Young(recent', b) >= Young(recent, b) + (IF b = 0 THEN 0 ELSE 1)
            /\ Young(recent', b) \in Nat /\ Young(recent, b) \in Nat
        BY <2>2, <3>1, Zenon
      <3> QED BY <3>1, <3>2
    <2>4. AskedBefore'
      <3> SUFFICES ASSUME NEW a \in Nat \ {0}
                   PROVE  Asked(queue', a, a + Window["burst"]) <= MostGranted
        BY DEF AskedBefore
      <3>1. Asked(queue, a, a + Window["burst"]) <= MostGranted
        BY DEF BacklogInv, AskedBefore
      <3>2. a \in Nat /\ a # 0 /\ a + Window["burst"] \in Nat
        BY <1>0
      <3> DEFINE b == a + Window["burst"]
      <3>3. /\ Asked(queue', a, b) <= Asked(queue, a, b) + (IF a = 0 /\ b # 0 THEN 1 ELSE 0)
            /\ Asked(queue', a, b) \in Nat /\ Asked(queue, a, b) \in Nat
        BY <2>2, <3>2, Zenon
      <3> HIDE DEF b
      <3>4. Asked(queue', a, b) <= Asked(queue, a, b)
        BY <3>2, <3>3
      <3> QED BY <3>1, <3>3, <3>4, MostGrantedType DEF b
    <2>5. \A n \in DOMAIN queue' :
             queue'[n].task # "manual" => n \in DOMAIN queue /\ queue'[n] = queue[n]
      BY <1>0, <2>0, TaskType
    <2>6. Beaten' /\ OnePerBeat'
      BY <1>1, <2>5 DEF BacklogInv, Beaten, OnePerBeat
    <2> QED BY <2>3, <2>4, <2>6 DEF BacklogInv
  <1> QED BY <1>1, <1>2, <1>3

LEMMA WorkBacklog ==
    ASSUME GapInv, BacklogInv, Work, UNCHANGED throttleVars PROVE BacklogInv'
  <1>0. /\ queue \in Seq(Task) /\ recent \in Seq(Nat) /\ recent' = recent
        /\ Window["burst"] \in Nat /\ Len(queue) \in Nat /\ DOMAIN queue = 1 .. Len(queue)
        /\ \A n \in DOMAIN queue : queue[n] \in Task /\ queue[n].age \in Nat
        /\ Period \in Nat
    BY QueueTypes DEF throttleVars
  <1>1. CASE queue' = queue /\ beat' = beat
    BY <1>0, <1>1 DEF BacklogInv, AskedByGrant, AskedBefore, Beaten, OnePerBeat
  <1>2. CASE Beat
    <2>1. beat = 0 /\ beat' = Period
      BY <1>2 DEF Beat
    <2>2. CASE queue' = queue
      BY <1>0, <2>1, <2>2 DEF BacklogInv, AskedByGrant, AskedBefore, Beaten, OnePerBeat
    <2>3. CASE queue' = Append(queue, New("tick"))
      <3>1. queue' \in Seq(Task)
        BY <1>0, <2>3, TaskType
      <3>2. ASSUME NEW a \in Nat, NEW b \in Nat
            PROVE  /\ Asked(queue', a, b) <= Asked(queue, a, b)
                   /\ Asked(queue', a, b) \in Nat /\ Asked(queue, a, b) \in Nat
                   /\ Young(recent, b) \in Nat
        <4>1. Asked(Append(queue, New("tick")), a, b)
               <= Asked(queue, a, b) + (IF "tick" = "manual" /\ a = 0 /\ b # 0 THEN 1 ELSE 0)
          BY <1>0, OneMoreAsked
        <4>2. /\ Asked(queue', a, b) \in Nat /\ Asked(queue, a, b) \in Nat
              /\ Young(recent, b) \in Nat
          BY <1>0, <3>1, CountTypes
        <4> QED BY <2>3, <4>1, <4>2
      <3>3. AskedByGrant'
        <4> SUFFICES ASSUME NEW b \in 0 .. Window["burst"]
                     PROVE  Asked(queue', 0, b) <= Young(recent, b)
          BY <1>0 DEF AskedByGrant
        <4>1. Asked(queue, 0, b) <= Young(recent, b) /\ b \in Nat
          BY <1>0 DEF BacklogInv, AskedByGrant
        <4> QED BY <3>2, <4>1
      <3>4. AskedBefore'
        <4> SUFFICES ASSUME NEW a \in Nat \ {0}
                     PROVE  Asked(queue', a, a + Window["burst"]) <= MostGranted
          BY DEF AskedBefore
        <4>1. Asked(queue, a, a + Window["burst"]) <= MostGranted
              /\ a \in Nat /\ a + Window["burst"] \in Nat
          BY <1>0 DEF BacklogInv, AskedBefore
        <4>2. /\ Asked(queue', a, a + Window["burst"]) <= Asked(queue, a, a + Window["burst"])
              /\ Asked(queue', a, a + Window["burst"]) \in Nat
              /\ Asked(queue, a, a + Window["burst"]) \in Nat
          BY <3>2, <4>1, Zenon
        <4> QED BY <4>1, <4>2, MostGrantedType
      <3>5. /\ DOMAIN queue' = 1 .. Len(queue) + 1
            /\ \A n \in DOMAIN queue : n \in DOMAIN queue' /\ queue'[n] = queue[n]
            /\ queue'[Len(queue) + 1].age = 0
            /\ \A n \in DOMAIN queue' : n \in DOMAIN queue \/ n = Len(queue) + 1
        BY <1>0, <2>3, TaskType
      <3>6. \A n \in DOMAIN queue : queue[n].task # "manual" => queue[n].age >= Period
        BY <1>0, <2>1 DEF BacklogInv, Beaten
      <3>7. Beaten'
        BY <1>0, <2>1, <3>5, <3>6 DEF Beaten
      <3>8. OnePerBeat'
        <4> SUFFICES ASSUME NEW i \in DOMAIN queue', NEW j \in DOMAIN queue', i # j,
                            queue'[i].task # "manual", queue'[j].task # "manual"
                     PROVE  \/ queue'[i].age >= queue'[j].age + Period
                            \/ queue'[j].age >= queue'[i].age + Period
          BY DEF OnePerBeat
        <4>1. CASE i \in DOMAIN queue /\ j \in DOMAIN queue
          BY <3>5, <4>1 DEF BacklogInv, OnePerBeat
        <4>2. CASE i \in DOMAIN queue /\ j = Len(queue) + 1
          BY <1>0, <3>5, <3>6, <4>2
        <4>3. CASE j \in DOMAIN queue /\ i = Len(queue) + 1
          BY <1>0, <3>5, <3>6, <4>3
        <4> QED BY <3>5, <4>1, <4>2, <4>3
      <3> QED BY <3>3, <3>4, <3>7, <3>8 DEF BacklogInv
    <2> QED BY <1>2, <2>2, <2>3 DEF Beat
  <1>3. CASE /\ queue # <<>> /\ queue' = Tail(queue) /\ beat' = beat
    <2> DEFINE f == [n \in DOMAIN queue' |-> n + 1]
    <2>1. /\ queue' \in Seq(Task) /\ DOMAIN queue' = 1 .. Len(queue) - 1
          /\ \A n \in DOMAIN queue' : queue'[n] = queue[n + 1]
      BY <1>0, <1>3
    <2>2. Among(queue', queue, f)
      BY <1>0, <2>1 DEF Among
    <2> HIDE DEF f
    <2> QED BY <1>0, <1>3, <2>1, <2>2, FewerBacklog
  <1>4. CASE /\ queue # <<>> /\ Head(queue).task = "tick" /\ beat' = beat
             /\ queue' = Append(Tail(queue), [Head(queue) EXCEPT !.task = "check"])
    <2> DEFINE t == [Head(queue) EXCEPT !.task = "check"]
               f == [n \in DOMAIN queue' |-> IF n < Len(queue) THEN n + 1 ELSE 1]
    <2>0. Head(queue) = queue[1] /\ 1 \in DOMAIN queue /\ queue[1] \in Task
      BY <1>0, <1>4
    <2>1. t \in Task /\ t.task = "check" /\ t.age = queue[1].age
      BY <2>0, TaskType, Zenon
    <2>2. queue' = Append(Tail(queue), t)
      BY <1>4
    <2> HIDE DEF t
    <2>3. /\ queue' \in Seq(Task) /\ DOMAIN queue' = 1 .. Len(queue)
          /\ queue'[Len(queue)] = t
          /\ \A n \in DOMAIN queue' : n < Len(queue) => queue'[n] = queue[n + 1]
      BY <1>0, <1>4, <2>1, <2>2
    <2>4. Among(queue', queue, f)
      <3>1. f \in [DOMAIN queue' -> DOMAIN queue]
        BY <1>0, <2>0, <2>3
      <3>2. \A m, n \in DOMAIN queue' : f[m] = f[n] => m = n
        BY <1>0, <2>3
      <3>3. ASSUME NEW n \in DOMAIN queue'
            PROVE  /\ queue'[n].age = queue[f[n]].age
                   /\ (queue'[n].task = "manual") = (queue[f[n]].task = "manual")
        <4>1. CASE n < Len(queue)
          BY <2>3, <3>3, <4>1
        <4>2. CASE n = Len(queue)
          <5>1. f[n] = 1
            BY <1>0, <2>3, <4>2
          <5> QED BY <1>4, <2>0, <2>1, <2>3, <4>2, <5>1
        <4> QED BY <1>0, <2>3, <3>3, <4>1, <4>2
      <3> QED BY <3>1, <3>2, <3>3 DEF Among
    <2> HIDE DEF f
    <2> QED BY <1>0, <1>4, <2>3, <2>4, FewerBacklog
  <1>5. ASSUME NEW w \in Worker, RunTick(w) PROVE BacklogInv'
    BY <1>3, <1>4, <1>5 DEF RunTick, Takes
  <1>6. ASSUME NEW w \in Worker, StartCheck(w) PROVE BacklogInv'
    BY <1>3, <1>6 DEF StartCheck, Takes
  <1>7. ASSUME NEW w \in Worker, \/ RpcAnswers(w) \/ RpcFails(w) \/ LocalEnds(w)
                                 \/ CheckLost(w) \/ Leave(w) \/ Return(w)
        PROVE  BacklogInv'
    BY <1>1, <1>7 DEF RpcAnswers, RpcFails, LocalEnds, CheckLost, Leave, Return
  <1>8. CASE Seed
    BY <1>1, <1>8 DEF Seed
  <1> QED BY <1>2, <1>5, <1>6, <1>7, <1>8 DEF Work

(* A unit later every window has moved on by one. *)
LEMMA PassBacklog ==
    ASSUME GapInv, RateHolds, BacklogInv, Pass PROVE BacklogInv'
  <1>0. /\ queue \in Seq(Task) /\ recent \in Seq(Nat) /\ Window["burst"] \in Nat \ {0}
        /\ DOMAIN queue = 1 .. Len(queue) /\ Len(queue) \in Nat
        /\ \A n \in DOMAIN queue : queue[n] \in Task /\ queue[n].age \in Nat
        /\ Period \in Nat /\ beat \in 0 .. Period
    BY QueueTypes
  <1>1. /\ queue' = [n \in DOMAIN queue |-> [queue[n] EXCEPT !.age = @ + 1]]
        /\ beat' = beat - 1 /\ recent' = Older(recent, Window["burst"])
    BY DEF Pass, SchedulerPass, ThrottlePass
  <1>2. /\ DOMAIN queue' = DOMAIN queue
        /\ \A n \in DOMAIN queue : /\ queue'[n].task = queue[n].task
                                   /\ queue'[n].age = queue[n].age + 1
    <2>1. ASSUME NEW n \in DOMAIN queue
          PROVE  queue'[n].task = queue[n].task /\ queue'[n].age = queue[n].age + 1
      <3>1. queue'[n] = [queue[n] EXCEPT !.age = @ + 1] /\ queue[n] \in Task
        BY <1>0, <1>1
      <3> QED BY <3>1, TaskType, Zenon
    <2> QED BY <1>1, <2>1
  <1>3. recent' \in Seq(Nat)
        /\ \A b \in 1 .. Window["burst"] : YoungSet(recent', b) = YoungSet(recent, b - 1)
    <2> DEFINE old == Older(recent, Window["burst"])
    <2>1. /\ old \in Seq(Nat)
          /\ \A i \in DOMAIN old : i \in DOMAIN recent /\ old[i] = recent[i] + 1
          /\ \A i \in DOMAIN recent :
                (\E j \in i .. Len(recent) : recent[j] + 1 < Window["burst"])
                    => i \in DOMAIN old
      BY <1>0, OlderKeeps
    <2> HIDE DEF old
    <2>2. recent' = old
      BY <1>1 DEF old
    <2>3. ASSUME NEW b \in 1 .. Window["burst"]
          PROVE  YoungSet(old, b) = YoungSet(recent, b - 1)
      <3>1. ASSUME NEW i \in DOMAIN recent, recent[i] < b - 1 PROVE i \in DOMAIN old
        <4>1. i \in i .. Len(recent) /\ recent[i] \in Nat
          BY <1>0, <3>1
        <4>2. recent[i] + 1 < Window["burst"]
          BY <1>0, <3>1, <4>1
        <4> QED BY <2>1, <4>1, <4>2
      <3>2. \A i \in DOMAIN recent : recent[i] \in Nat
        BY <1>0
      <3>3. \A i \in DOMAIN old : (old[i] < b) = (recent[i] < b - 1)
        BY <2>1, <3>2
      <3> QED BY <2>1, <3>1, <3>3 DEF YoungSet
    <2> QED BY <2>1, <2>2, <2>3
  <1>4. ASSUME NEW a \in Nat \ {0}, NEW b \in Nat \ {0}
        PROVE  Asked(queue', a, b) = Asked(queue, a - 1, b - 1)
    <2>1. \A n \in DOMAIN queue :
              (a <= queue'[n].age /\ queue'[n].age < b)
                  = (a - 1 <= queue[n].age /\ queue[n].age < b - 1)
      BY <1>0, <1>2
    <2>2. AskedSet(queue', a, b) = AskedSet(queue, a - 1, b - 1)
      BY <1>2, <2>1 DEF AskedSet
    <2> QED BY <2>2 DEF Asked
  <1>5. queue' \in Seq(Task)
    <2>1. ASSUME NEW n \in 1 .. Len(queue)
          PROVE  [queue[n] EXCEPT !.age = @ + 1] \in Task
      <3>1. queue[n] \in Task
        BY <1>0
      <3> QED BY <3>1, TaskType, Zenon
    <2>2. queue' = [n \in 1 .. Len(queue) |-> [queue[n] EXCEPT !.age = @ + 1]]
      BY <1>0, <1>1
    <2> QED BY <1>0, <2>1, <2>2
  <1>6. AskedByGrant'
    <2> SUFFICES ASSUME NEW b \in 0 .. Window["burst"]
                 PROVE  Asked(queue', 0, b) <= Young(recent', b)
      BY <1>3 DEF AskedByGrant
    <2>1. CASE b = 0
      <3>1. AskedSet(queue', 0, 0) = {}
        <4>1. \A n \in DOMAIN queue' : queue'[n].age \in Nat
          BY <1>0, <1>2
        <4> QED BY <4>1 DEF AskedSet
      <3>2. Asked(queue', 0, b) = 0 /\ Young(recent', b) \in Nat
        BY <1>3, <1>5, <2>1, <3>1, FS_EmptySet, CountTypes DEF Asked
      <3> QED BY <3>2
    <2>2. CASE b # 0
      <3>1. b \in 1 .. Window["burst"] /\ b - 1 \in 0 .. Window["burst"] /\ b \in Nat \ {0}
        BY <1>0, <2>2
      <3>2. AskedSet(queue', 0, b) = AskedSet(queue, 0, b - 1)
        <4>1. \A n \in DOMAIN queue :
                (0 <= queue'[n].age /\ queue'[n].age < b)
                    = (0 <= queue[n].age /\ queue[n].age < b - 1)
          BY <1>0, <1>2, <3>1
        <4> QED BY <1>2, <4>1 DEF AskedSet
      <3>3. Asked(queue, 0, b - 1) <= Young(recent, b - 1)
        BY <3>1 DEF BacklogInv, AskedByGrant
      <3> QED BY <1>3, <3>1, <3>2, <3>3 DEF Asked, Young
    <2> QED BY <2>1, <2>2
  <1>7. AskedBefore'
    <2> SUFFICES ASSUME NEW a \in Nat \ {0}
                 PROVE  Asked(queue', a, a + Window["burst"]) <= MostGranted
      BY DEF AskedBefore
    <2>1. /\ a + Window["burst"] \in Nat \ {0}
          /\ (a + Window["burst"]) - 1 = (a - 1) + Window["burst"]
      <3>1. a \in Nat /\ a # 0 /\ Window["burst"] \in Nat
        BY <1>0
      <3> QED BY <3>1
    <2>2. Asked(queue', a, a + Window["burst"]) = Asked(queue, a - 1, (a - 1) + Window["burst"])
      BY <1>4, <2>1
    <2>3. CASE a = 1
      <3>1. /\ Asked(queue, 0, Window["burst"]) <= Young(recent, Window["burst"])
            /\ Young(recent, Window["burst"]) <= Len(recent)
            /\ Asked(queue, 0, Window["burst"]) \in Nat
            /\ Young(recent, Window["burst"]) \in Nat /\ Len(recent) \in Nat
        BY <1>0, CountTypes DEF BacklogInv, AskedByGrant
      <3>2. Len(recent) <= MostGranted
        BY DEF RateHolds
      <3>3. a - 1 = 0 /\ (a - 1) + Window["burst"] = Window["burst"]
        BY <1>0, <2>3
      <3> QED BY <2>2, <3>1, <3>2, <3>3, MostGrantedType
    <2>4. CASE a # 1
      <3>1. a - 1 \in Nat \ {0}
        BY <2>4
      <3> QED BY <2>2, <3>1 DEF BacklogInv, AskedBefore
    <2> QED BY <2>3, <2>4
  <1>8. Beaten' /\ OnePerBeat'
    <2>1. Beaten'
      BY <1>0, <1>1, <1>2 DEF BacklogInv, Beaten
    <2>2. OnePerBeat'
      <3> SUFFICES ASSUME NEW i \in DOMAIN queue, NEW j \in DOMAIN queue, i # j,
                          queue[i].task # "manual", queue[j].task # "manual"
                   PROVE  \/ queue'[i].age >= queue'[j].age + Period
                          \/ queue'[j].age >= queue'[i].age + Period
        BY <1>2 DEF OnePerBeat
      <3>1. \/ queue[i].age >= queue[j].age + Period
            \/ queue[j].age >= queue[i].age + Period
        BY DEF BacklogInv, OnePerBeat
      <3> QED BY <1>0, <1>2, <3>1
    <2> QED BY <2>1, <2>2
  <1> QED BY <1>6, <1>7, <1>8 DEF BacklogInv

LEMMA NextBacklog ==
    ASSUME GapInv, RateHolds, BacklogInv, [Next]_vars PROVE BacklogInv'
  <1>1. CASE UNCHANGED vars
    BY <1>1 DEF vars, throttleVars, schedulerVars, BacklogInv, AskedByGrant,
                AskedBefore, Beaten, OnePerBeat
  <1> QED BY <1>1, ManualBacklog, WorkBacklog, PassBacklog DEF Next

LEMMA BacklogBound == ASSUME GapInv, RateHolds, BacklogInv PROVE BacklogBounded
  <1>0. /\ queue \in Seq(Task) /\ recent \in Seq(Nat) /\ Window["burst"] \in Nat \ {0}
        /\ \A n \in DOMAIN queue : queue[n].age \in Nat
    BY QueueTypes
  <1>1. ASSUME NEW a \in Nat PROVE Asked(queue, a, a + Window["burst"]) <= MostGranted
    <2>1. CASE a = 0
      <3>1. /\ Asked(queue, 0, Window["burst"]) <= Young(recent, Window["burst"])
            /\ Young(recent, Window["burst"]) <= Len(recent)
            /\ Asked(queue, 0, Window["burst"]) \in Nat
            /\ Young(recent, Window["burst"]) \in Nat /\ Len(recent) \in Nat
        BY <1>0, CountTypes DEF BacklogInv, AskedByGrant
      <3>2. Len(recent) <= MostGranted
        BY DEF RateHolds
      <3>3. a + Window["burst"] = Window["burst"]
        BY <1>0, <2>1
      <3> QED BY <2>1, <3>1, <3>2, <3>3, MostGrantedType
    <2>2. CASE a # 0
      BY <2>2 DEF BacklogInv, AskedBefore
    <2> QED BY <2>1, <2>2
  <1>2. ManualPaced
    <2> SUFFICES ASSUME NEW m \in DOMAIN queue
                 PROVE  Cardinality({n \in DOMAIN queue :
                          /\ queue[n].task = "manual"
                          /\ queue[n].age \in queue[m].age .. queue[m].age + Window["burst"] - 1})
                            <= MostGranted
      BY DEF ManualPaced
    <2> DEFINE a == queue[m].age
    <2>1. a \in Nat
      BY <1>0
    <2>2. \A n \in DOMAIN queue : (queue[n].age \in a .. a + Window["burst"] - 1)
                = (a <= queue[n].age /\ queue[n].age < a + Window["burst"])
      BY <1>0, <2>1
    <2>3. {n \in DOMAIN queue :
              queue[n].task = "manual" /\ queue[n].age \in a .. a + Window["burst"] - 1}
            = AskedSet(queue, a, a + Window["burst"])
      BY <2>2 DEF AskedSet
    <2> QED BY <1>1, <2>1, <2>3 DEF Asked
  <1> QED BY <1>2 DEF BacklogInv, BacklogBounded

(* Nothing in the code bounds task_queue, but how fast it fills is bounded,   *)
(* with workers that are slow, away or stuck in fallbacks for any time, for   *)
(* every rate and window and one or two requests at a time: the manual checks *)
(* asked for within one window are no more than the throttles grant in one,   *)
(* and there is no more than one tick, or check ordered by one, for each beat.*)
THEOREM BacklogIsBounded ==
    ASSUME Cardinality(Client) \in {1, 2}, superuser = FALSE
    PROVE  Spec => []BacklogBounded
  <1>1. GapInv /\ RateHolds /\ BacklogInv /\ [Next]_vars => BacklogInv'
    BY NextBacklog
  <1>2. GapInv /\ RateHolds /\ BacklogInv => BacklogBounded
    BY BacklogBound
  <1>3. Spec => []RateHolds
    BY RateIsBounded
  <1> QED BY <1>1, <1>2, <1>3, InitBacklog, InitGap, NextGap, PTL DEF Spec
=============================================================================
