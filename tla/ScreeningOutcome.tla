-------------------------- MODULE ScreeningOutcome --------------------------
(***************************************************************************)
(* What the screening queue promises a reviewer, without workers, leases,  *)
(* attempts or tokens: a requested screening of a chat stays open until it *)
(* is concluded with one set of flagged messages, given up with an error,  *)
(* or its chat is deleted. *)
(***************************************************************************)
EXTENDS Integers

CONSTANTS MaxScreenings, Chats, Messages

VARIABLES
    outcome,    \* of each screening and chat
    found       \* the flagged messages

outcomeVars == <<outcome, found>>

Requests == (1..MaxScreenings) \X Chats

Init ==
    /\ outcome = [r \in Requests |-> "none"]
    /\ found = [r \in Requests |-> {}]

(* A screening opens all its chats at once. *)
Request(s) ==
    /\ \A c \in Chats : outcome[<<s, c>>] = "none"
    /\ \E selected \in SUBSET Chats :
          /\ selected # {}
          /\ outcome' = [r \in Requests |-> IF r[1] = s /\ r[2] \in selected
                                            THEN "open" ELSE outcome[r]]
    /\ UNCHANGED found

(* The one step that stores findings: all those of a chat at once. *)
Conclude(r) ==
    /\ outcome[r] = "open"
    /\ outcome' = [outcome EXCEPT ![r] = "screened"]
    /\ \E flags \in SUBSET Messages : found' = [found EXCEPT ![r] = flags]

GiveUp(r) ==
    /\ outcome[r] = "open"
    /\ outcome' = [outcome EXCEPT ![r] = "error"]
    /\ UNCHANGED found

(* A retry reopens some failed chats of one screening. *)
Reopen(s) ==
    /\ \E failed \in SUBSET {r \in Requests : r[1] = s /\ outcome[r] = "error"} :
          /\ failed # {}
          /\ outcome' = [r \in Requests |-> IF r \in failed THEN "open" ELSE outcome[r]]
    /\ UNCHANGED found

Delete(c) ==
    /\ outcome' = [r \in Requests |-> IF r[2] = c /\ outcome[r] # "none"
                                      THEN "deleted" ELSE outcome[r]]
    /\ found' = [r \in Requests |-> IF r[2] = c THEN {} ELSE found[r]]

Next ==
    \/ \E s \in 1..MaxScreenings : Request(s) \/ Reopen(s)
    \/ \E r \in Requests : Conclude(r) \/ GiveUp(r)
    \/ \E c \in Chats : Delete(c)

Spec == Init /\ [][Next]_outcomeVars
=============================================================================
