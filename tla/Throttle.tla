------------------------------ MODULE Throttle ------------------------------
(***************************************************************************)
(* The limits on manual checks of one user (monitors/throttling.py).  Two  *)
(* throttles, each with a history of its own in the cache, are asked one   *)
(* after the other.  Django REST framework reads a history, drops what is  *)
(* older than the window, and writes it back longer by one: two steps, with *)
(* other requests between them.                                            *)
(*                                                                         *)
(* Time is counted in units; a history holds the ages of its entries.      *)
(***************************************************************************)
EXTENDS Naturals, Sequences, FiniteSets

CONSTANTS
    Client,     \* the POST requests that can be in flight at once
    Rate,       \* per throttle: requests allowed ...
    Window,     \* ... in so many units of time
    superuser,  \* is the user exempt
    None        \* no request, no history read

Scope == {"burst", "daily"}

ASSUME ThrottleAssumption ==
    /\ Rate \in [Scope -> Nat] /\ Window \in [Scope -> Nat \ {0}]
    /\ superuser \in BOOLEAN
    /\ IsFiniteSet(Client)

(* A request in flight: the throttle to ask next, what was read of its *)
(* history, and whether a throttle has refused.                         *)
Request == [scope : Scope, seen : {None} \cup Seq(Nat), refused : BOOLEAN]

ASSUME NoRequestAssumption == None \notin Request

VARIABLES
    history,  \* the cache: ages of the requests a throttle remembers
    call,     \* the request each client has in flight
    recent    \* auxiliary: ages of the checks granted in the burst window

throttleVars == <<history, call, recent>>

-----------------------------------------------------------------------------
ThrottleInit ==
    /\ history = [s \in Scope |-> <<>>]
    /\ call = [c \in Client |-> None]
    /\ recent = <<>>

(* POST monitoring/{id}/manual/ *)
ManualCheck(c) ==
    /\ call[c] = None
    /\ call' = [call EXCEPT ![c] =
                   [scope |-> "burst", seen |-> None, refused |-> FALSE]]
    /\ UNCHANGED <<history, recent>>

(* cache.get; entries as old as the window are already gone, see Older. *)
ReadHistory(c) ==
    /\ call[c] # None
    /\ call[c].seen = None
    /\ call' = [call EXCEPT ![c].seen = history[call[c].scope]]
    /\ UNCHANGED <<history, recent>>

(* Mutant: one request too many. *)
Allows_oneMore(s, seen) == superuser \/ Len(seen) <= Rate[s]

(* SimpleRateThrottle.allow_request *)
Allows(s, seen) == superuser \/ Len(seen) < Rate[s]

(* insert(0, now) and cache.set; nothing is written for a superuser. *)
Remember(s, seen) ==
    history' = IF Allows(s, seen) /\ ~superuser
               THEN [history EXCEPT ![s] = <<0>> \o seen] ELSE history

(* Every throttle is asked, also when an earlier one has refused. *)
AskBurst(c) ==
    /\ call[c] # None
    /\ call[c].seen # None
    /\ call[c].scope = "burst"
    /\ Remember("burst", call[c].seen)
    /\ call' = [call EXCEPT ![c] = [scope |-> "daily", seen |-> None,
                  refused |-> ~Allows("burst", call[c].seen)]]
    /\ UNCHANGED recent

(* Mutant: only the last throttle counts. *)
Granted_daily(c) == Allows("daily", call[c].seen)

(* The last throttle decides: 202 and a task in the queue, or 429. *)
Granted(c) == ~call[c].refused /\ Allows("daily", call[c].seen)

AskDaily(c) ==
    /\ call[c] # None
    /\ call[c].seen # None
    /\ call[c].scope = "daily"
    /\ Remember("daily", call[c].seen)
    /\ recent' = IF Granted(c) THEN <<0>> \o recent ELSE recent
    /\ call' = [call EXCEPT ![c] = None]

(* Mutant: an entry as old as the window still counts. *)
Older_late(ages, window) ==
    LET kept == {i \in DOMAIN ages : \E j \in i .. Len(ages) : ages[j] < window}
    IN [i \in kept |-> ages[i] + 1]

(* One unit later: entries are popped from the end, oldest first, until one *)
(* is younger than the window.                                              *)
Older(ages, window) ==
    LET kept == {i \in DOMAIN ages : \E j \in i .. Len(ages) : ages[j] + 1 < window}
    IN [i \in kept |-> ages[i] + 1]

ThrottlePass ==
    /\ history' = [s \in Scope |-> Older(history[s], Window[s])]
    /\ recent' = Older(recent, Window["burst"])
    /\ UNCHANGED call

-----------------------------------------------------------------------------
(* The most a window can hold.  Of two requests that overlap, one may hold a  *)
(* history of k entries while the other fills it up to the rate, and then     *)
(* write back k + 1: for every k, the entries that filled it are lost again.  *)
MostGranted ==
    LET R == Rate["burst"] IN
    IF Cardinality(Client) = 1 THEN R ELSE (R * (R + 3)) \div 2

(* The checks granted in any window: the configured rate when requests do not *)
(* overlap, MostGranted when two can.                                         *)
RateHolds == Len(recent) <= MostGranted
=============================================================================
