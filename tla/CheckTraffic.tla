---------------------------- MODULE CheckTraffic ----------------------------
(***************************************************************************)
(* Everything that has a monitored site checked, with time: the scheduler  *)
(* and the manual checks that the throttles let through fill one queue,    *)
(* and the workers, which have other work too, empty it.                   *)
(***************************************************************************)
EXTENDS Throttle, Scheduler, CheckVerdict

vars == <<throttleVars, schedulerVars>>

-----------------------------------------------------------------------------
Init == ThrottleInit /\ SchedulerInit

(* ManualCheckView.post: run_single_monitor_task.delay.  A granted request may *)
(* also be for another monitor of the user, or end in 404 for one that is not *)
(* there or not theirs.                                                       *)
Manual(c) ==
    \/ (ManualCheck(c) \/ ReadHistory(c) \/ AskBurst(c)) /\ UNCHANGED schedulerVars
    \/ /\ AskDaily(c)
       /\ \/ Granted(c) /\ queue' = Append(queue, New("manual"))
          \/ UNCHANGED queue
       /\ UNCHANGED <<checked, age, beat, worker, lost, held>>

Work ==
    \/ Beat \/ Seed
    \/ \E w \in Worker : \/ RunTick(w) \/ StartCheck(w)
                         \/ RpcAnswers(w) \/ RpcFails(w) \/ LocalEnds(w)
                         \/ CheckLost(w) \/ Leave(w) \/ Return(w)

(* Requests are short: a unit does not end while one is in flight. *)
Pass ==
    /\ \A c \in Client : call[c] = None
    /\ ThrottlePass /\ SchedulerPass

Next ==
    \/ \E c \in Client : Manual(c)
    \/ Work /\ UNCHANGED throttleVars
    \/ Pass

Spec == Init /\ [][Next]_vars

-----------------------------------------------------------------------------
(* Properties *)

(* Histories stay within their rate and window, timers within their range. *)
TypeOK ==
    /\ history \in [Scope -> Seq(Nat)]
    /\ \A s \in Scope : /\ Len(history[s]) <= Rate[s]
                        /\ \A i \in DOMAIN history[s] : history[s][i] < Window[s]
    /\ checked \in BOOLEAN /\ age \in Nat /\ beat \in 0 .. Period
    /\ queue \in Seq(Task)
    /\ worker \in [Worker -> [pc : {"idle", "rpc", "local", "away"},
                              spent : 0 .. Deadline]]
    /\ lost \in 0 .. MaxLost /\ held \in 0 .. MaxHeld

(* Whichever path the check under way ends on, the verdict is the one the     *)
(* site deserves: probes that come and go do not turn a monitor up or down.   *)
(* Only a site with an invalid certificate is up for probes and down for the  *)
(* fallback.                                                                  *)
VerdictIndependent ==
    \A w \in Worker : /\ worker[w].pc = "rpc" => SoundByProbes
                      /\ worker[w].pc = "local" => SoundLocally

(* Nothing bounds task_queue: with workers that are slow or away, every tick  *)
(* orders another check of a monitor that is still without a result.  How     *)
(* fast the backlog grows is bounded all the same, however long it gets: of   *)
(* the manual checks that wait, those of any one window are no more than the  *)
(* throttles may grant in it, and of the ticks and the checks they ordered    *)
(* there is one per beat.                                                     *)
ManualPaced ==
    \A a \in {queue[n].age : n \in DOMAIN queue} :
        Cardinality({n \in DOMAIN queue :
            /\ queue[n].task = "manual"
            /\ queue[n].age \in a .. a + Window["burst"] - 1}) <= MostGranted

OnePerBeat ==
    \A i, j \in DOMAIN queue :
        /\ i # j
        /\ queue[i].task # "manual" /\ queue[j].task # "manual"
        => \/ queue[i].age >= queue[j].age + Period
           \/ queue[j].age >= queue[i].age + Period

BacklogBounded == ManualPaced /\ OnePerBeat
=============================================================================
