----------------------------- MODULE TurnOutcome -----------------------------
(***************************************************************************)
(* What the internal chat promises its author, without requests, workers,  *)
(* streams or clocks: a turn that was accepted is stored once or fails,    *)
(* and no other answer is told of it; only of a turn that is known not to  *)
(* be stored, or not yet known to be, may a retry be offered.              *)
(***************************************************************************)
EXTENDS Naturals

CONSTANT MaxTurns

VARIABLES
    exists,     \* the conversation is there
    asked,      \* turns sent so far
    outcome,    \* of each turn
    told,       \* what the author was told of it at the end of its stream
    offered     \* turns with a Retry button

outcomeVars == <<exists, asked, outcome, told, offered>>

Turns == 1..MaxTurns

Init ==
    /\ exists = TRUE
    /\ asked = 0
    /\ outcome = [t \in Turns |-> "none"]
    /\ told = [t \in Turns |-> "nothing"]
    /\ offered = {}

Ask ==
    /\ asked < MaxTurns
    /\ asked' = asked + 1
    /\ UNCHANGED <<exists, outcome, told, offered>>

(* Another try at a failed turn, which may take later errors off the screen. *)
Retry(t) ==
    /\ t \in offered
    /\ asked < MaxTurns
    /\ asked' = asked + 1
    /\ offered' \in {offered, {u \in offered : u < t}}
    /\ UNCHANGED <<exists, outcome, told>>

(* The turn of a request that arrives may be accepted, but not twice. *)
Accept(t) ==
    /\ exists
    /\ t <= asked
    /\ outcome[t] = "none"
    /\ outcome' = [outcome EXCEPT ![t] = "open"]
    /\ UNCHANGED <<exists, asked, told, offered>>

Store(t) ==
    /\ exists
    /\ outcome[t] \in {"open", "doubtful"}
    /\ outcome' = [outcome EXCEPT ![t] = "stored"]
    /\ UNCHANGED <<exists, asked, told, offered>>

Fail(t) ==
    /\ outcome[t] \in {"open", "doubtful"}
    /\ outcome' = [outcome EXCEPT ![t] = "failed"]
    /\ \/ UNCHANGED told
       \/ told[t] = "nothing" /\ told' = [told EXCEPT ![t] = "error"]
    /\ UNCHANGED <<exists, asked, offered>>

(* Turns that are open for long are given up; whether they will be stored    *)
(* after all is in doubt for those that are still worked on.                 *)
GiveUp ==
    /\ \E late \in SUBSET {t \in Turns : outcome[t] = "open"} :
        /\ late # {}
        /\ \E over \in SUBSET late :
            outcome' = [t \in Turns |-> IF t \in over THEN "failed"
                                        ELSE IF t \in late THEN "doubtful"
                                        ELSE outcome[t]]
    /\ UNCHANGED <<exists, asked, told, offered>>

(* The answer is told once it is stored. *)
Tell(t) ==
    /\ outcome[t] \in {"stored", "deleted"}
    /\ told[t] = "nothing"
    /\ told' = [told EXCEPT ![t] = "answer"]
    /\ UNCHANGED <<exists, asked, outcome, offered>>

Offer(t) ==
    /\ outcome[t] \in {"failed", "doubtful", "deleted"}
    /\ offered' = offered \cup {t}
    /\ UNCHANGED <<exists, asked, outcome, told>>

(* The conversation is loaded again, without its errors. *)
Load ==
    /\ offered' = {}
    /\ UNCHANGED <<exists, asked, outcome, told>>

Delete ==
    /\ exists
    /\ exists' = FALSE
    /\ outcome' = [t \in Turns |-> IF outcome[t] = "none" THEN "none" ELSE "deleted"]
    /\ UNCHANGED <<asked, told, offered>>

Next ==
    \/ Ask \/ GiveUp \/ Load \/ Delete
    \/ \E t \in Turns : Retry(t) \/ Accept(t) \/ Store(t) \/ Fail(t) \/ Tell(t) \/ Offer(t)

Spec == Init /\ [][Next]_outcomeVars
=============================================================================
