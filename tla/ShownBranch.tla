------------------------------ MODULE ShownBranch ------------------------------
(***************************************************************************)
(* What a conversation shows its readers, without pointers and without     *)
(* requests that overlap: one branch, from a root down to a message that   *)
(* nothing follows.  A turn or another answer replaces what is shown below *)
(* the message it follows, if that message is shown, and else is stored    *)
(* without being seen; only a switch shows another branch as a whole.      *)
(***************************************************************************)
EXTENDS Naturals, Sequences

CONSTANT MaxMessages

VARIABLES
    exists,   \* the conversation is there
    stored,   \* its messages
    parent,   \* the message that each one follows
    shown     \* the branch that is shown

shownVars == <<exists, stored, parent, shown>>

None == 0
Ids == 1 .. MaxMessages

Init ==
    /\ exists = TRUE
    /\ stored = {}
    /\ parent = [m \in Ids |-> None]
    /\ shown = <<>>

(* The new messages come after the i-th message shown, or first of all. *)
Follows(p, i) == IF i = 0 THEN p = None ELSE shown[i] = p

Shows(p, new) ==
    \/ \E i \in 0 .. Len(shown) :
          Follows(p, i) /\ shown' = SubSeq(shown, 1, i) \o new
    \/ /\ \A i \in 0 .. Len(shown) : ~Follows(p, i)
       /\ UNCHANGED shown

(* Question and answer are seen together or not at all. *)
Turn(p, question, answer) ==
    /\ exists
    /\ question # answer
    /\ stored' = stored \cup {question, answer}
    /\ parent' = [parent EXCEPT ![question] = p, ![answer] = question]
    /\ Shows(p, <<question, answer>>)
    /\ UNCHANGED exists

AnotherAnswer(p, answer) ==
    /\ exists
    /\ stored' = stored \cup {answer}
    /\ parent' = [parent EXCEPT ![answer] = p]
    /\ Shows(p, <<answer>>)
    /\ UNCHANGED exists

(* From a root down, each message after its parent, to one without children. *)
IsBranch(path) ==
    /\ path # <<>>
    /\ \A i \in DOMAIN path : path[i] \in stored
    /\ parent[path[1]] = None
    /\ \A i \in 1 .. Len(path) - 1 : parent[path[i + 1]] = path[i]
    /\ \A m \in stored : parent[m] # path[Len(path)]

Switch ==
    /\ IsBranch(shown')
    /\ UNCHANGED <<exists, stored, parent>>

Delete ==
    /\ exists
    /\ exists' = FALSE
    /\ stored' = {}
    /\ shown' = <<>>
    /\ UNCHANGED parent

Next ==
    \/ \E p \in stored \cup {None}, question, answer \in Ids \ stored :
          Turn(p, question, answer)
    \/ \E p \in stored, answer \in Ids \ stored : AnotherAnswer(p, answer)
    \/ Switch
    \/ Delete

Spec == Init /\ [][Next]_shownVars
=============================================================================
