------------------------------ MODULE RunRecord ------------------------------
(***************************************************************************)
(* What the evaluations promise those who start runs and follow them,      *)
(* without tasks, watchers, heartbeats or notifications: one run at a time *)
(* is active, every status it takes is recorded with an event, it ends     *)
(* once and with one outcome, and whoever follows it is told of the end    *)
(* when it has come and not before.                                        *)
(***************************************************************************)
EXTENDS Naturals, Sequences

CONSTANTS MaxRuns, Streams

VARIABLES
    status,     \* of each run
    events,     \* the statuses each run has had
    follower    \* each connection: whether and which run it follows

recordVars == <<status, events, follower>>

Runs == 1..MaxRuns

Active == {"start", "cancelling"}

Over == {"complete", "error", "cancelled"}

Nobody == [state |-> "off", run |-> 0]

Init ==
    /\ status = [r \in Runs |-> "none"]
    /\ events = [r \in Runs |-> <<>>]
    /\ follower = [s \in Streams |-> Nobody]

Record(X, st) ==
    /\ status' = [r \in Runs |-> IF r \in X THEN st ELSE status[r]]
    /\ events' = [r \in Runs |-> IF r \in X THEN Append(events[r], st) ELSE events[r]]
    /\ UNCHANGED follower

Begin(r) ==
    /\ status[r] = "none"
    /\ \A q \in Runs : status[q] \notin Active
    /\ Record({r}, "start")

RequestStop(r) == status[r] = "start" /\ Record({r}, "cancelling")

(* Several silent runs may be given up on at once. *)
End ==
    \E X \in SUBSET {r \in Runs : status[r] \in Active}, outcome \in Over :
        X # {} /\ Record(X, outcome)

Turns(s, st) ==
    /\ follower' = [follower EXCEPT ![s] = st]
    /\ UNCHANGED <<status, events>>

Follow(s, r) ==
    /\ follower[s].state # "following"
    /\ status[r] # "none"
    /\ Turns(s, [state |-> "following", run |-> r])

Hear(s) ==
    /\ follower[s].state = "following"
    /\ status[follower[s].run] \in Over
    /\ Turns(s, [state |-> "told", run |-> 0])

Leave(s) ==
    /\ follower[s].state = "following"
    /\ Turns(s, Nobody)

Next ==
    \/ \E r \in Runs : Begin(r) \/ RequestStop(r) \/ \E s \in Streams : Follow(s, r)
    \/ End
    \/ \E s \in Streams : Hear(s) \/ Leave(s)

Spec == Init /\ [][Next]_recordVars
=============================================================================
