------------------------- MODULE MessageTree_proofs -------------------------
(***************************************************************************)
(* Proofs about MessageTree: the pointers always follow the edges of the   *)
(* forest, branches end with answers, an answer moves what is shown        *)
(* exactly when its branch is shown, and a switch that was not disturbed   *)
(* shows its target.                                                       *)
(***************************************************************************)
EXTENDS MessageTree, TLAPS

(* The parent of a stored message is stored and older than the message. *)
ParentsAreOlder ==
    \A m \in stored : parent[m] # None => parent[m] \in stored /\ parent[m] < m

(* What a switch remembers of the way to its target is still there, for    *)
(* messages go only with their conversation.                               *)
SwitchesKnowTheWay ==
    \A r \in Requests :
        requests[r].kind = "switch" /\ exists =>
            requests[r].path \subseteq stored /\ IsRooted(requests[r].path)

Inv ==
    /\ ParentsAreOlder
    /\ SwitchesKnowTheWay
    /\ PointersFollowEdges
    /\ BranchesEndWithAnswers

(* Ids are given in order, so every row names an older one, in stored rows  *)
(* and in those of a deleted conversation.                                  *)
AllParentsOlder == \A m \in Ids : parent[m] < m

(* A switch under way remembers the whole lineage of its target, which no   *)
(* step changes while the conversation is there.                            *)
SwitchesHoldLineages ==
    \A r \in Requests :
        requests[r].kind = "switch" /\ exists =>
            requests[r].at \in stored /\ requests[r].path = Lineage(requests[r].at)

(* What the walk, the preview and the switch rest on besides Inv. *)
WalkInv == AllParentsOlder /\ SwitchesHoldLineages

-----------------------------------------------------------------------------
(* Types                                                                   *)

SwitchRequests ==
    [kind : {"switch"}, at : Ids, path : SUBSET Ids,
     seenActive : [Ids -> Pointers], seenRoot : Pointers]

LEMMA RequestsByKind ==
    ASSUME TypeOK, NEW r \in Requests
    PROVE  /\ requests[r].kind = "turn" => requests[r].at \in Pointers
           /\ requests[r].kind = "regeneration" => requests[r].at \in Ids
           /\ requests[r].kind = "switch" => requests[r] \in SwitchRequests
  <1>1. requests[r] \in Requested
    BY DEF TypeOK
  <1> QED BY <1>1 DEF Requested, Idle, SwitchRequests

LEMMA RequestsTyped ==
    /\ Idle \in Requested
    /\ \A p \in Pointers : Turn(p) \in Requested
    /\ \A p \in Ids : Regeneration(p) \in Requested
  BY DEF Requested, Idle, Turn, Regeneration

LEMMA SwitchTyped ==
    ASSUME TypeOK, NEW m \in Ids, NEW path \in SUBSET Ids
    PROVE  Switch(m, path) \in Requested
  BY DEF TypeOK, Switch, Requested

LEMMA StoredAreIds == TypeOK => stored \subseteq Ids
  BY MaxMessagesAssumption DEF TypeOK, Ids

(* The ids of new messages are unused ids. *)
LEMMA NewIds ==
    ASSUME TypeOK
    PROVE  /\ count + 1 <= MaxMessages => count + 1 \in Ids /\ count + 1 \notin stored
           /\ count + 2 <= MaxMessages => count + 2 \in Ids /\ count + 2 \notin stored
           /\ None \notin Ids /\ None \notin stored
           /\ \A m \in stored : m <= count
  BY MaxMessagesAssumption DEF TypeOK, Ids, None

LEMMA WayUpIsStored == \A m, ids, up : WayUp(m, ids, up) \subseteq ids
  BY DEF WayUp

LEMMA SwitchedTyped ==
    ASSUME TypeOK, NEW request \in SwitchRequests, IsRooted(request.path)
    PROVE  /\ SwitchedActive(request) \in [Ids -> Pointers]
           /\ SwitchedRoot(request) \in request.path \cup {activeRoot}
           /\ SwitchedRoot(request) \in Pointers
  <1>1. request.path \subseteq Ids
    BY DEF SwitchRequests
  <1>2. SwitchedActive(request) \in [Ids -> Pointers]
    BY <1>1 DEF SwitchedActive, TypeOK, Pointers
  <1>3. SwitchedRoot(request) \in request.path \cup {activeRoot}
    BY DEF SwitchedRoot, IsRooted
  <1> QED BY <1>1, <1>2, <1>3 DEF TypeOK, Pointers

LEMMA TypeStep == TypeOK /\ SwitchesKnowTheWay /\ [Next]_vars => TypeOK'
  <1> SUFFICES ASSUME TypeOK, SwitchesKnowTheWay, [Next]_vars PROVE TypeOK'
    OBVIOUS
  <1>1. CASE UNCHANGED vars
    BY <1>1 DEF TypeOK, vars
  <1>2. ASSUME NEW r \in Requests, NEW request \in Requested, Begin(r, request)
        PROVE  TypeOK'
    BY <1>2 DEF Begin, TypeOK, rows
  <1>3. ASSUME NEW r \in Requests, BeginTurn(r) PROVE TypeOK'
    <2>1. PICK p \in stored \cup {None} : Begin(r, Turn(p))
      BY <1>3 DEF BeginTurn
    <2>2. p \in Pointers
      BY StoredAreIds DEF Pointers
    <2> QED BY <2>1, <2>2, <1>2, RequestsTyped
  <1>4. ASSUME NEW r \in Requests, BeginRegeneration(r) PROVE TypeOK'
    <2>1. PICK p \in stored : Begin(r, Regeneration(p))
      BY <1>4 DEF BeginRegeneration
    <2> QED BY <2>1, <1>2, RequestsTyped, StoredAreIds
  <1>5. ASSUME NEW r \in Requests, BeginSwitch(r) PROVE TypeOK'
    <2>1. PICK m \in stored : Begin(r, Switch(m, Lineage(m)))
      BY <1>5 DEF BeginSwitch
    <2>2. Lineage(m) \in SUBSET Ids
      BY WayUpIsStored, StoredAreIds DEF Lineage
    <2> QED BY <2>1, <2>2, <1>2, SwitchTyped, StoredAreIds
  <1>6. ASSUME NEW r \in Requests, TurnFails(r) PROVE TypeOK'
    BY <1>6, RequestsTyped DEF TurnFails, TypeOK, rows
  <1>7. ASSUME NEW r \in Requests, CommitTurn(r) PROVE TypeOK'
    <2> DEFINE p == requests[r].at
               question == count + 1
               answer == count + 2
    <2>1. p \in Pointers
      BY <1>7, RequestsByKind DEF CommitTurn
    <2>2. question \in Ids /\ answer \in Ids /\ answer \in 0 .. MaxMessages
      BY <1>7, MaxMessagesAssumption DEF CommitTurn, TypeOK, Ids
    <2>3. stored' \subseteq 1 .. count'
      BY <1>7, MaxMessagesAssumption DEF CommitTurn, TypeOK
    <2>4. active' \in [Ids -> Pointers]
      BY <1>7, <2>2 DEF CommitTurn, TurnPointers, TypeOK, Pointers
    <2>5. /\ count' = answer
          /\ parent' = [parent EXCEPT ![question] = p, ![answer] = question]
          /\ role' = [role EXCEPT ![question] = "user", ![answer] = "assistant"]
          /\ activeRoot' = IF p = None THEN question ELSE activeRoot
          /\ requests' = [requests EXCEPT ![r] = Idle]
          /\ exists' = exists /\ exists
      BY <1>7 DEF CommitTurn, StillThere
    <2> HIDE DEF p, question, answer
    <2> QED BY <2>1, <2>2, <2>3, <2>4, <2>5, RequestsTyped DEF TypeOK, Pointers
  <1>8. ASSUME NEW r \in Requests, CommitRegeneration(r) PROVE TypeOK'
    <2> DEFINE p == requests[r].at
               answer == count + 1
    <2>1. p \in Ids
      BY <1>8, RequestsByKind DEF CommitRegeneration
    <2>2. answer \in Ids /\ answer \in 0 .. MaxMessages
      BY <1>8, MaxMessagesAssumption DEF CommitRegeneration, TypeOK, Ids
    <2>3. stored' \subseteq 1 .. count'
      BY <1>8, MaxMessagesAssumption DEF CommitRegeneration, TypeOK
    <2>4. /\ count' = answer
          /\ parent' = [parent EXCEPT ![answer] = p]
          /\ role' = [role EXCEPT ![answer] = "assistant"]
          /\ active' = [active EXCEPT ![p] = answer]
          /\ requests' = [requests EXCEPT ![r] = Idle]
          /\ exists' = exists /\ exists /\ activeRoot' = activeRoot
      BY <1>8 DEF CommitRegeneration, AnswerPointers, StillThere
    <2> HIDE DEF p, answer
    <2> QED BY <2>1, <2>2, <2>3, <2>4, RequestsTyped DEF TypeOK, Pointers
  <1>9. ASSUME NEW r \in Requests, CommitSwitch(r) PROVE TypeOK'
    <2>1. /\ requests' = [requests EXCEPT ![r] = Idle]
          /\ UNCHANGED rows
          /\ requests[r].kind = "switch"
      BY <1>9 DEF CommitSwitch
    <2>2. CASE exists
      <3>1. requests[r] \in SwitchRequests /\ IsRooted(requests[r].path)
        BY <2>1, <2>2, RequestsByKind DEF SwitchesKnowTheWay
      <3>2. /\ active' = SwitchedActive(requests[r])
            /\ activeRoot' = SwitchedRoot(requests[r])
        BY <1>9, <2>2 DEF CommitSwitch
      <3>3. active' \in [Ids -> Pointers] /\ activeRoot' \in Pointers
        BY <3>1, <3>2, SwitchedTyped
      <3> QED BY <2>1, <2>2, <3>3, RequestsTyped DEF TypeOK, rows
    <2>3. CASE ~exists
      BY <1>9, <2>1, <2>3, RequestsTyped DEF CommitSwitch, TypeOK, rows
    <2> QED BY <2>2, <2>3
  <1>10. ASSUME Delete PROVE TypeOK'
    BY <1>10 DEF Delete, TypeOK, Pointers
  <1> QED BY <1>1, <1>3, <1>4, <1>5, <1>6, <1>7, <1>8, <1>9, <1>10 DEF Next

-----------------------------------------------------------------------------
(* Steps of the tree                                                       *)

(* What a turn under p changes, said of one message at a time. *)
LEMMA TurnWrites ==
    ASSUME TypeOK, NEW r \in Requests, CommitTurn(r)
    PROVE  LET p == requests[r].at
               question == count + 1
               answer == count + 2
           IN  /\ p \in stored \cup {None}
               /\ question \in Ids /\ answer \in Ids /\ question < answer
               /\ question \notin stored /\ answer \notin stored
               /\ stored' = stored \cup {question, answer}
               /\ parent'[question] = p /\ parent'[answer] = question
               /\ role'[question] = "user" /\ role'[answer] = "assistant"
               /\ \A m \in stored : parent'[m] = parent[m] /\ role'[m] = role[m]
               /\ active'[question] = answer
               /\ \A m \in Ids \ {question} :
                        active'[m] = IF m = p THEN question ELSE active[m]
               /\ activeRoot' = IF p = None THEN question ELSE activeRoot
               /\ exists /\ exists'
               /\ requests' = [requests EXCEPT ![r] = Idle]
  <1> DEFINE p == requests[r].at
             question == count + 1
             answer == count + 2
  <1>1. /\ question \in Ids /\ answer \in Ids /\ question < answer
        /\ question \notin stored /\ answer \notin stored
    BY NewIds, MaxMessagesAssumption DEF CommitTurn, TypeOK, Ids
  <1>2. /\ parent' = [parent EXCEPT ![question] = p, ![answer] = question]
        /\ role' = [role EXCEPT ![question] = "user", ![answer] = "assistant"]
        /\ active' = TurnPointers(p, question, answer)
        /\ stored' = stored \cup {question, answer}
        /\ activeRoot' = IF p = None THEN question ELSE activeRoot
        /\ exists /\ exists'
        /\ p \in stored \cup {None}
        /\ requests' = [requests EXCEPT ![r] = Idle]
    BY DEF CommitTurn, StillThere
  <1>3. stored \subseteq Ids /\ parent \in [Ids -> Pointers] /\ role \in [Ids -> {"user", "assistant"}]
    BY StoredAreIds DEF TypeOK
  <1> HIDE DEF p, question, answer
  <1>4. active'[question] = answer
    BY <1>1, <1>2 DEF TurnPointers
  <1>5. \A m \in Ids \ {question} : active'[m] = IF m = p THEN question ELSE active[m]
    BY <1>1, <1>2 DEF TurnPointers
  <1>6. /\ parent'[question] = p /\ parent'[answer] = question
        /\ role'[question] = "user" /\ role'[answer] = "assistant"
        /\ \A m \in stored : parent'[m] = parent[m] /\ role'[m] = role[m]
    BY <1>1, <1>2, <1>3
  <1>7. QED
    BY <1>1, <1>2, <1>4, <1>5, <1>6 DEF p, question, answer

(* What a regeneration changes. *)
LEMMA RegenerationWrites ==
    ASSUME TypeOK, NEW r \in Requests, CommitRegeneration(r)
    PROVE  LET p == requests[r].at
               answer == count + 1
           IN  /\ p \in stored /\ p # None
               /\ answer \in Ids /\ answer \notin stored
               /\ stored' = stored \cup {answer}
               /\ parent'[answer] = p /\ role'[answer] = "assistant"
               /\ \A m \in stored : parent'[m] = parent[m] /\ role'[m] = role[m]
               /\ \A m \in Ids : active'[m] = IF m = p THEN answer ELSE active[m]
               /\ activeRoot' = activeRoot
               /\ exists /\ exists'
               /\ requests' = [requests EXCEPT ![r] = Idle]
  <1> DEFINE p == requests[r].at
             answer == count + 1
  <1>1. answer \in Ids /\ answer \notin stored
    BY NewIds DEF CommitRegeneration
  <1>2. /\ parent' = [parent EXCEPT ![answer] = p]
        /\ role' = [role EXCEPT ![answer] = "assistant"]
        /\ active' = [active EXCEPT ![p] = answer]
        /\ stored' = stored \cup {answer}
        /\ activeRoot' = activeRoot
        /\ exists /\ exists'
        /\ p \in stored \cup {None}
        /\ requests' = [requests EXCEPT ![r] = Idle]
    BY DEF CommitRegeneration, StillThere, AnswerPointers
  <1>3. p \in Ids
    BY RequestsByKind DEF CommitRegeneration
  <1>4. /\ stored \subseteq Ids /\ parent \in [Ids -> Pointers]
        /\ role \in [Ids -> {"user", "assistant"}] /\ active \in [Ids -> Pointers]
    BY StoredAreIds DEF TypeOK
  <1>5. p # None
    BY <1>3, NewIds
  <1> HIDE DEF p, answer
  <1>6. \A m \in Ids : active'[m] = IF m = p THEN answer ELSE active[m]
    BY <1>2, <1>3, <1>4
  <1>7. /\ parent'[answer] = p /\ role'[answer] = "assistant"
        /\ \A m \in stored : parent'[m] = parent[m] /\ role'[m] = role[m]
    BY <1>1, <1>2, <1>4
  <1>8. QED
    BY <1>1, <1>2, <1>5, <1>6, <1>7 DEF p, answer

(* A switch moves pointers along edges only. *)
LEMMA SwitchWrites ==
    ASSUME TypeOK, NEW request \in SwitchRequests,
           request.path \subseteq stored, IsRooted(request.path)
    PROVE  /\ \A m \in Ids : SwitchedActive(request)[m] \in Children(m) \cup {active[m]}
           /\ SwitchedRoot(request) \in Children(None) \cup {activeRoot}
  BY DEF SwitchedActive, SwitchedRoot, Children, IsRooted

LEMMA InvInit == Init => TypeOK /\ Inv
  <1> SUFFICES ASSUME Init PROVE TypeOK /\ Inv
    OBVIOUS
  <1>1. TypeOK
    BY RequestsTyped, MaxMessagesAssumption DEF Init, TypeOK, Pointers, None
  <1>2. Inv
    BY DEF Init, Inv, ParentsAreOlder, SwitchesKnowTheWay, PointersFollowEdges,
           BranchesEndWithAnswers, Children, Idle
  <1> QED BY <1>1, <1>2

LEMMA BeginKeepsInv ==
    ASSUME TypeOK, Inv, NEW r \in Requests, NEW request, Begin(r, request),
           request.kind = "switch" /\ exists =>
                request.path \subseteq stored /\ IsRooted(request.path)
    PROVE  Inv'
  <1>1. /\ requests' = [requests EXCEPT ![r] = request]
        /\ UNCHANGED <<exists, stored, parent, role, active, activeRoot>>
    BY DEF Begin, rows
  <1>2. \A m : Children(m)' = Children(m)
    BY <1>1 DEF Children
  <1>3. SwitchesKnowTheWay'
    BY <1>1 DEF Inv, SwitchesKnowTheWay, IsRooted, TypeOK
  <1>4. PointersFollowEdges' /\ BranchesEndWithAnswers'
    BY <1>1, <1>2 DEF Inv, PointersFollowEdges, BranchesEndWithAnswers
  <1> QED BY <1>1, <1>3, <1>4 DEF Inv, ParentsAreOlder

LEMMA TurnKeepsInv ==
    ASSUME TypeOK, Inv, NEW r \in Requests, CommitTurn(r)
    PROVE  Inv'
  <1>0. PICK p, question, answer :
            p = requests[r].at /\ question = count + 1 /\ answer = count + 2
    OBVIOUS
  <1>1. /\ p \in stored \cup {None}
        /\ question \in Ids /\ answer \in Ids /\ question < answer
        /\ question \notin stored /\ answer \notin stored
        /\ stored' = stored \cup {question, answer}
        /\ parent'[question] = p /\ parent'[answer] = question
        /\ role'[question] = "user" /\ role'[answer] = "assistant"
        /\ \A m \in stored : parent'[m] = parent[m] /\ role'[m] = role[m]
        /\ active'[question] = answer
        /\ \A m \in Ids \ {question} :
                active'[m] = IF m = p THEN question ELSE active[m]
        /\ activeRoot' = IF p = None THEN question ELSE activeRoot
        /\ exists /\ exists'
        /\ requests' = [requests EXCEPT ![r] = Idle]
    BY <1>0, TurnWrites
  <1>2. /\ stored \subseteq Ids /\ None \notin Ids
        /\ \A m \in stored : m < question
    BY <1>0, StoredAreIds, NewIds, MaxMessagesAssumption DEF TypeOK, Ids
  <1>3. question # None /\ answer # None /\ question # answer
    BY <1>1, <1>2 DEF Ids
  <1>4. ParentsAreOlder'
    <2>1. \A m \in stored : parent'[m] # None => parent'[m] \in stored' /\ parent'[m] < m
      BY <1>1 DEF Inv, ParentsAreOlder
    <2>2. p # None => p \in stored /\ p < question
      BY <1>1, <1>2
    <2> QED BY <1>1, <2>1, <2>2 DEF ParentsAreOlder
  <1>5. SwitchesKnowTheWay'
    <2>1. \A s \in Requests : requests'[s].kind = "switch" => requests'[s] = requests[s]
      BY <1>1 DEF Idle, TypeOK
    <2>2. \A s \in Requests : requests[s].kind = "switch" =>
              /\ requests[s].path \subseteq stored'
              /\ \E x \in requests[s].path : parent'[x] = None
      BY <1>1 DEF Inv, SwitchesKnowTheWay, IsRooted
    <2> QED BY <2>1, <2>2 DEF SwitchesKnowTheWay, IsRooted
  <1>6. /\ Children(question) = {} /\ Children(answer) = {}
        /\ Children(question)' = {answer} /\ Children(answer)' = {}
        /\ \A m \in Ids \cup {None} : m \notin {question, answer} =>
              Children(m)' = IF m = p THEN Children(m) \cup {question} ELSE Children(m)
    <2>1. \A c \in stored : parent[c] \notin {question, answer}
      BY <1>1, <1>3 DEF Inv, ParentsAreOlder
    <2>2. p \notin {question, answer}
      BY <1>1, <1>3
    <2> QED BY <1>1, <1>3, <2>1, <2>2 DEF Children
  <1>7. PointersFollowEdges'
    <2>1. ASSUME NEW m \in Ids
          PROVE  IF Children(m)' = {} THEN active'[m] = None
                                      ELSE active'[m] \in Children(m)'
      <3>1. CASE m = question
        BY <1>1, <1>6, <3>1
      <3>2. CASE m = answer
        <4>1. active'[answer] = active[answer]
          BY <1>1, <1>3
        <4> QED BY <1>1, <1>6, <3>2, <4>1 DEF Inv, PointersFollowEdges
      <3>3. CASE m \notin {question, answer} /\ m = p
        BY <1>1, <1>6, <3>3
      <3>4. CASE m \notin {question, answer} /\ m # p
        BY <1>1, <1>6, <3>4 DEF Inv, PointersFollowEdges
      <3> QED BY <3>1, <3>2, <3>3, <3>4
    <2>2. IF Children(None)' = {} THEN activeRoot' = None
                                  ELSE activeRoot' \in Children(None)'
      BY <1>1, <1>3, <1>6 DEF Inv, PointersFollowEdges
    <2> QED BY <2>1, <2>2 DEF PointersFollowEdges
  <1>8. BranchesEndWithAnswers'
    BY <1>1, <1>2, <1>6 DEF Inv, BranchesEndWithAnswers
  <1> QED BY <1>4, <1>5, <1>7, <1>8 DEF Inv

LEMMA RegenerationKeepsInv ==
    ASSUME TypeOK, Inv, NEW r \in Requests, CommitRegeneration(r)
    PROVE  Inv'
  <1>0. PICK p, answer : p = requests[r].at /\ answer = count + 1
    OBVIOUS
  <1>1. /\ p \in stored /\ p # None
        /\ answer \in Ids /\ answer \notin stored
        /\ stored' = stored \cup {answer}
        /\ parent'[answer] = p /\ role'[answer] = "assistant"
        /\ \A m \in stored : parent'[m] = parent[m] /\ role'[m] = role[m]
        /\ \A m \in Ids : active'[m] = IF m = p THEN answer ELSE active[m]
        /\ activeRoot' = activeRoot
        /\ exists /\ exists'
        /\ requests' = [requests EXCEPT ![r] = Idle]
    BY <1>0, RegenerationWrites
  <1>2. /\ stored \subseteq Ids /\ None \notin Ids
        /\ \A m \in stored : m < answer
    BY <1>0, StoredAreIds, NewIds, MaxMessagesAssumption DEF TypeOK, Ids
  <1>3. ParentsAreOlder'
    BY <1>1, <1>2 DEF Inv, ParentsAreOlder
  <1>4. SwitchesKnowTheWay'
    <2>1. \A s \in Requests : requests'[s].kind = "switch" => requests'[s] = requests[s]
      BY <1>1 DEF Idle, TypeOK
    <2>2. \A s \in Requests : requests[s].kind = "switch" =>
              /\ requests[s].path \subseteq stored'
              /\ \E x \in requests[s].path : parent'[x] = None
      BY <1>1 DEF Inv, SwitchesKnowTheWay, IsRooted
    <2> QED BY <2>1, <2>2 DEF SwitchesKnowTheWay, IsRooted
  <1>5. /\ Children(answer) = {} /\ Children(answer)' = {}
        /\ \A m \in Ids \cup {None} : m # answer =>
              Children(m)' = IF m = p THEN Children(m) \cup {answer} ELSE Children(m)
    <2>1. \A c \in stored : parent[c] # answer
      BY <1>1, <1>2 DEF Inv, ParentsAreOlder
    <2> QED BY <1>1, <1>2, <2>1 DEF Children
  <1>6. PointersFollowEdges'
    <2>1. ASSUME NEW m \in Ids
          PROVE  IF Children(m)' = {} THEN active'[m] = None
                                      ELSE active'[m] \in Children(m)'
      <3>1. CASE m = answer
        BY <1>1, <1>5, <3>1 DEF Inv, PointersFollowEdges
      <3>2. CASE m # answer /\ m = p
        BY <1>1, <1>5, <3>2
      <3>3. CASE m # answer /\ m # p
        BY <1>1, <1>5, <3>3 DEF Inv, PointersFollowEdges
      <3> QED BY <3>1, <3>2, <3>3
    <2>2. IF Children(None)' = {} THEN activeRoot' = None
                                  ELSE activeRoot' \in Children(None)'
      BY <1>1, <1>2, <1>5 DEF Inv, PointersFollowEdges
    <2> QED BY <2>1, <2>2 DEF PointersFollowEdges
  <1>7. BranchesEndWithAnswers'
    BY <1>1, <1>2, <1>5 DEF Inv, BranchesEndWithAnswers
  <1> QED BY <1>3, <1>4, <1>6, <1>7 DEF Inv

LEMMA SwitchKeepsInv ==
    ASSUME TypeOK, Inv, NEW r \in Requests, CommitSwitch(r)
    PROVE  Inv'
  <1>1. /\ requests' = [requests EXCEPT ![r] = Idle]
        /\ UNCHANGED <<exists, stored, parent, role>>
        /\ requests[r].kind = "switch"
    BY DEF CommitSwitch, rows
  <1>2. \A m : Children(m)' = Children(m)
    BY <1>1 DEF Children
  <1>3. SwitchesKnowTheWay'
    BY <1>1 DEF Inv, SwitchesKnowTheWay, IsRooted, TypeOK, Idle
  <1>4. PointersFollowEdges'
    <2>1. CASE exists
      <3>1. /\ requests[r] \in SwitchRequests
            /\ requests[r].path \subseteq stored /\ IsRooted(requests[r].path)
        BY <1>1, <2>1, RequestsByKind DEF Inv, SwitchesKnowTheWay
      <3>2. /\ active' = SwitchedActive(requests[r])
            /\ activeRoot' = SwitchedRoot(requests[r])
        BY <2>1 DEF CommitSwitch
      <3>3. /\ \A m \in Ids : active'[m] \in Children(m) \cup {active[m]}
            /\ activeRoot' \in Children(None) \cup {activeRoot}
        BY <3>1, <3>2, SwitchWrites
      <3> QED BY <1>2, <3>3 DEF Inv, PointersFollowEdges
    <2>2. CASE ~exists
      BY <1>2, <2>2 DEF CommitSwitch, Inv, PointersFollowEdges
    <2> QED BY <2>1, <2>2
  <1> QED BY <1>1, <1>2, <1>3, <1>4 DEF Inv, ParentsAreOlder, BranchesEndWithAnswers

LEMMA InvStep == TypeOK /\ Inv /\ [Next]_vars => Inv'
  <1> SUFFICES ASSUME TypeOK, Inv, [Next]_vars PROVE Inv'
    OBVIOUS
  <1>1. CASE UNCHANGED vars
    BY <1>1 DEF vars, Inv, ParentsAreOlder, SwitchesKnowTheWay, IsRooted,
                PointersFollowEdges, BranchesEndWithAnswers, Children
  <1>2. ASSUME NEW r \in Requests, BeginTurn(r) PROVE Inv'
    <2>1. PICK p \in stored \cup {None} : Begin(r, Turn(p))
      BY <1>2 DEF BeginTurn
    <2>2. Turn(p).kind # "switch"
      BY DEF Turn
    <2> QED BY <2>1, <2>2, BeginKeepsInv
  <1>3. ASSUME NEW r \in Requests, BeginRegeneration(r) PROVE Inv'
    <2>1. PICK p \in stored : Begin(r, Regeneration(p))
      BY <1>3 DEF BeginRegeneration
    <2>2. Regeneration(p).kind # "switch"
      BY DEF Regeneration
    <2> QED BY <2>1, <2>2, BeginKeepsInv
  <1>4. ASSUME NEW r \in Requests, BeginSwitch(r) PROVE Inv'
    <2>1. PICK m \in stored : /\ IsRooted(Lineage(m))
                              /\ Begin(r, Switch(m, Lineage(m)))
      BY <1>4 DEF BeginSwitch
    <2>2. Switch(m, Lineage(m)).path = Lineage(m) /\ Lineage(m) \subseteq stored
      BY WayUpIsStored DEF Switch, Lineage
    <2> QED BY <2>1, <2>2, BeginKeepsInv
  <1>5. ASSUME NEW r \in Requests, TurnFails(r) PROVE Inv'
    <2>1. /\ requests' = [requests EXCEPT ![r] = Idle]
          /\ UNCHANGED <<exists, stored, parent, role, active, activeRoot>>
      BY <1>5 DEF TurnFails, rows
    <2>2. SwitchesKnowTheWay'
      BY <2>1 DEF Inv, SwitchesKnowTheWay, IsRooted, TypeOK, Idle
    <2>3. \A m : Children(m)' = Children(m)
      BY <2>1 DEF Children
    <2>4. PointersFollowEdges' /\ BranchesEndWithAnswers'
      BY <2>1, <2>3 DEF Inv, PointersFollowEdges, BranchesEndWithAnswers
    <2> QED BY <2>1, <2>2, <2>4 DEF Inv, ParentsAreOlder
  <1>6. ASSUME Delete PROVE Inv'
    BY <1>6 DEF Delete, Inv, ParentsAreOlder, SwitchesKnowTheWay,
                PointersFollowEdges, BranchesEndWithAnswers, Children
  <1> QED BY <1>1, <1>2, <1>3, <1>4, <1>5, <1>6, TurnKeepsInv, RegenerationKeepsInv,
             SwitchKeepsInv DEF Next

(* The rows, the pointers and the handlers keep their types, and nothing    *)
(* is left of a deleted conversation, for any number of handlers.           *)
THEOREM TypeCorrect == Spec => []TypeOK
  <1>1. TypeOK /\ Inv /\ [Next]_vars => TypeOK' /\ Inv'
    BY TypeStep, InvStep DEF Inv
  <1> QED BY <1>1, InvInit, PTL DEF Spec

THEOREM InvCorrect == Spec => []Inv
  <1>1. TypeOK /\ Inv /\ [Next]_vars => TypeOK' /\ Inv'
    BY TypeStep, InvStep DEF Inv
  <1> QED BY <1>1, InvInit, PTL DEF Spec

(* No reader ever falls back to the oldest child, or crosses to another     *)
(* branch, however turns, switches and a deletion interleave.               *)
THEOREM PointersAlwaysFollowEdges == Spec => []PointersFollowEdges
  BY InvCorrect, PTL DEF Inv

(* Every branch ends with an answer. *)
THEOREM BranchesAlwaysEndWithAnswers == Spec => []BranchesEndWithAnswers
  BY InvCorrect, PTL DEF Inv

-----------------------------------------------------------------------------
(* The way up                                                              *)

LEMMA WayUpIsLeast ==
    ASSUME NEW m, NEW ids, NEW up, NEW S \in SUBSET ids, m \in S, ClosedUpward(S, up)
    PROVE  WayUp(m, ids, up) \subseteq S
  BY DEF WayUp

LEMMA WayUpIsClosed ==
    ASSUME NEW ids, NEW up, ClosedUpward(ids, up), NEW m \in ids
    PROVE  m \in WayUp(m, ids, up) /\ ClosedUpward(WayUp(m, ids, up), up)
  <1>1. m \in WayUp(m, ids, up)
    BY DEF WayUp
  <1>2. ASSUME NEW y \in WayUp(m, ids, up), up[y] # None
        PROVE  up[y] \in WayUp(m, ids, up)
    <2>1. up[y] \in ids
      BY <1>2 DEF WayUp, ClosedUpward
    <2>2. \A S \in SUBSET ids : m \in S /\ ClosedUpward(S, up) => up[y] \in S
      BY <1>2 DEF WayUp, ClosedUpward
    <2> QED BY <2>1, <2>2 DEF WayUp
  <1> QED BY <1>1, <1>2 DEF ClosedUpward

(* The way up from a message on the way is part of the way. *)
LEMMA WayUpNests ==
    ASSUME NEW ids, NEW up, ClosedUpward(ids, up),
           NEW m \in ids, NEW x \in WayUp(m, ids, up)
    PROVE  WayUp(x, ids, up) \subseteq WayUp(m, ids, up)
  BY WayUpIsClosed, WayUpIsLeast, WayUpIsStored

(* New messages below do not change the way up from an old one. *)
LEMMA WayUpIsStable ==
    ASSUME NEW ids, NEW up, NEW more, NEW up2, ids \subseteq more,
           ClosedUpward(ids, up), ClosedUpward(more, up2),
           \A x \in ids : up2[x] = up[x],
           NEW m \in ids
    PROVE  WayUp(m, more, up2) = WayUp(m, ids, up)
  <1>1. WayUp(m, ids, up) \subseteq ids /\ WayUp(m, more, up2) \subseteq more
    BY WayUpIsStored
  <1>2. m \in WayUp(m, ids, up) /\ ClosedUpward(WayUp(m, ids, up), up)
    BY WayUpIsClosed
  <1>3. ClosedUpward(WayUp(m, ids, up), up2)
    BY <1>1, <1>2 DEF ClosedUpward
  <1>4. WayUp(m, more, up2) \subseteq WayUp(m, ids, up)
    BY <1>1, <1>2, <1>3, WayUpIsLeast
  <1>5. m \in WayUp(m, more, up2) /\ ClosedUpward(WayUp(m, more, up2), up2)
    BY WayUpIsClosed
  <1>6. ClosedUpward(WayUp(m, more, up2), up)
    BY <1>1, <1>4, <1>5 DEF ClosedUpward
  <1>7. WayUp(m, ids, up) \subseteq WayUp(m, more, up2)
    <2>1. WayUp(m, more, up2) \in SUBSET ids
      BY <1>1, <1>4
    <2> QED BY <2>1, <1>5, <1>6, WayUpIsLeast
  <1> QED BY <1>4, <1>7

(* Parents come before their children, so m is the newest on its way up. *)
LEMMA WayUpIsOlder ==
    ASSUME TypeOK, ParentsAreOlder, NEW m \in stored
    PROVE  \A x \in Lineage(m) : x <= m
  <1> DEFINE S == {x \in stored : x <= m}
  <1>1. stored \subseteq Nat
    BY StoredAreIds, MaxMessagesAssumption DEF Ids
  <1>2. ClosedUpward(S, parent)
    <2> SUFFICES ASSUME NEW y \in S, parent[y] # None PROVE parent[y] \in S
      BY DEF ClosedUpward
    <2>1. y \in stored /\ y <= m /\ parent[y] \in stored /\ parent[y] < y
      BY DEF ParentsAreOlder
    <2>2. y \in Nat /\ m \in Nat /\ parent[y] \in Nat
      BY <1>1, <2>1
    <2>3. parent[y] <= m
      BY <2>1, <2>2
    <2> QED BY <2>1, <2>3
  <1>3. m \in S /\ S \in SUBSET stored
    BY <1>1
  <1> HIDE DEF S
  <1>4. Lineage(m) \subseteq S
    BY <1>2, <1>3, WayUpIsLeast DEF Lineage
  <1> QED BY <1>4 DEF S

LEMMA StoredIsClosed == ParentsAreOlder => ClosedUpward(stored, parent)
  BY DEF ParentsAreOlder, ClosedUpward

(* Nothing below a message that is not shown is shown. *)
LEMMA HiddenBelow ==
    ASSUME ParentsAreOlder, NEW m \in stored, NEW x \in Lineage(m), IsShown(m)
    PROVE  IsShown(x)
  <1>1. Lineage(x) \subseteq Lineage(m)
    BY StoredIsClosed, WayUpNests DEF Lineage
  <1> QED BY <1>1 DEF IsShown

(* The way up from m is m and the way up from its parent. *)
LEMMA WayUpAbove ==
    ASSUME NEW ids, NEW up, ClosedUpward(ids, up), NEW m \in ids
    PROVE  /\ up[m] = None => WayUp(m, ids, up) = {m}
           /\ up[m] # None => WayUp(m, ids, up) = {m} \cup WayUp(up[m], ids, up)
  <1>1. m \in WayUp(m, ids, up) /\ ClosedUpward(WayUp(m, ids, up), up)
    BY WayUpIsClosed
  <1>2. CASE up[m] = None
    <2>1. {m} \in SUBSET ids /\ ClosedUpward({m}, up)
      BY <1>2 DEF ClosedUpward
    <2>2. WayUp(m, ids, up) \subseteq {m}
      BY <2>1, WayUpIsLeast
    <2> QED BY <1>1, <1>2, <2>2
  <1>3. CASE up[m] # None
    <2> DEFINE S == {m} \cup WayUp(up[m], ids, up)
    <2>1. up[m] \in ids /\ up[m] \in WayUp(m, ids, up)
      BY <1>1, <1>3 DEF ClosedUpward
    <2>2. up[m] \in WayUp(up[m], ids, up) /\ ClosedUpward(WayUp(up[m], ids, up), up)
      BY <2>1, WayUpIsClosed
    <2>3. WayUp(up[m], ids, up) \subseteq WayUp(m, ids, up)
      BY <2>1, WayUpNests
    <2>4. m \in S /\ S \in SUBSET ids /\ ClosedUpward(S, up)
      BY <2>2, WayUpIsStored DEF ClosedUpward
    <2> HIDE DEF S
    <2>5. WayUp(m, ids, up) \subseteq S
      BY <2>4, WayUpIsLeast
    <2> QED BY <1>1, <1>3, <2>3, <2>5 DEF S
  <1> QED BY <1>2, <1>3

(* Of two messages on one way up, one is above the other. *)
LEMMA WayUpIsAChain ==
    ASSUME NEW ids, NEW up, ClosedUpward(ids, up), NEW m \in ids,
           NEW x \in WayUp(m, ids, up), NEW y \in WayUp(m, ids, up)
    PROVE  x \in WayUp(y, ids, up) \/ y \in WayUp(x, ids, up)
  <1> DEFINE way == WayUp(m, ids, up)
             S == {z \in way : \A v \in way : z \in WayUp(v, ids, up) \/ v \in WayUp(z, ids, up)}
  <1>1. m \in way /\ ClosedUpward(way, up) /\ way \subseteq ids
    BY WayUpIsClosed, WayUpIsStored
  <1>2. m \in S
    BY <1>1
  <1>3. ASSUME NEW z \in S, up[z] # None PROVE up[z] \in S
    <2>1. up[z] \in way /\ z \in ids
      BY <1>1, <1>3 DEF ClosedUpward
    <2>2. WayUp(z, ids, up) = {z} \cup WayUp(up[z], ids, up)
      BY <1>3, <2>1, WayUpAbove
    <2>3. up[z] \in WayUp(up[z], ids, up)
      BY <1>1, <2>1, WayUpIsClosed
    <2>4. ASSUME NEW v \in way
          PROVE  up[z] \in WayUp(v, ids, up) \/ v \in WayUp(up[z], ids, up)
      <3>1. CASE z \in WayUp(v, ids, up)
        <4>1. WayUp(z, ids, up) \subseteq WayUp(v, ids, up)
          BY <1>1, <3>1, WayUpNests
        <4> QED BY <2>2, <2>3, <4>1
      <3>2. CASE v \in WayUp(z, ids, up)
        BY <2>2, <2>3, <3>2
      <3> QED BY <1>3, <3>1, <3>2
    <2> QED BY <2>1, <2>4
  <1>4. ClosedUpward(S, up) /\ S \in SUBSET ids
    BY <1>1, <1>3 DEF ClosedUpward
  <1> HIDE DEF S
  <1>5. way \subseteq S
    BY <1>2, <1>4, WayUpIsLeast
  <1> QED BY <1>5 DEF S

(* A lineage meets the children of a message, or the roots, once. *)
LEMMA LineageBranchesOnce ==
    ASSUME TypeOK, ParentsAreOlder, NEW m \in stored,
           NEW x \in Lineage(m), NEW y \in Lineage(m), parent[x] = parent[y]
    PROVE  x = y
  <1>1. ClosedUpward(stored, parent) /\ stored \subseteq Nat
    BY StoredIsClosed, StoredAreIds, MaxMessagesAssumption DEF Ids
  <1>2. x \in stored /\ y \in stored
    BY WayUpIsStored DEF Lineage
  <1>3. ASSUME NEW v \in stored, NEW z \in stored, v \in Lineage(z), parent[v] = parent[z], v # z
        PROVE  FALSE
    <2>1. parent[z] # None /\ v \in Lineage(parent[z])
      BY <1>1, <1>3, WayUpAbove DEF Lineage
    <2>2. parent[z] \in stored /\ parent[v] < v
      BY <1>3, <2>1 DEF ParentsAreOlder
    <2>3. v <= parent[v]
      BY <1>3, <2>1, <2>2, WayUpIsOlder
    <2>4. v \in Nat /\ parent[z] \in Nat /\ parent[z] < v /\ v <= parent[z]
      BY <1>1, <1>3, <2>2, <2>3
    <2> QED BY <2>4
  <1>4. x \in Lineage(y) \/ y \in Lineage(x)
    BY <1>1, WayUpIsAChain DEF Lineage
  <1> QED BY <1>2, <1>3, <1>4

(* A lineage goes on below each message but its last. *)
LEMMA LineageDescends ==
    ASSUME ParentsAreOlder, NEW m \in stored, NEW x \in Lineage(m), x # m
    PROVE  \E c \in Lineage(m) : parent[c] = x
  <1> DEFINE S == Lineage(m) \ {x}
  <1>1. ClosedUpward(stored, parent)
    BY StoredIsClosed
  <1>2. m \in Lineage(m) /\ ClosedUpward(Lineage(m), parent) /\ Lineage(m) \subseteq stored
    BY <1>1, WayUpIsClosed, WayUpIsStored DEF Lineage
  <1> SUFFICES ASSUME \A c \in Lineage(m) : parent[c] # x PROVE FALSE
    OBVIOUS
  <1>3. m \in S /\ S \in SUBSET stored /\ ClosedUpward(S, parent)
    BY <1>2 DEF ClosedUpward
  <1> HIDE DEF S
  <1>4. Lineage(m) \subseteq S
    BY <1>3, WayUpIsLeast DEF Lineage
  <1> QED BY <1>4 DEF S

(* Rows that are added leave the lineages of the others as they are. *)
LEMMA LineageKept ==
    ASSUME ParentsAreOlder, ParentsAreOlder', stored \subseteq stored',
           \A m \in stored : parent'[m] = parent[m]
    PROVE  \A m \in stored : Lineage(m)' = Lineage(m)
  BY StoredIsClosed, WayUpIsStable DEF Lineage, ParentsAreOlder, ClosedUpward

-----------------------------------------------------------------------------
(* What an answer does to what is shown                                    *)

(* A child of p is added and p now points to it; whatever points below *)
(* the new child does not matter to the messages that were there.            *)
LEMMA OldMessages ==
    ASSUME TypeOK, ParentsAreOlder, ParentsAreOlder', stored \subseteq stored',
           \A m \in stored : parent'[m] = parent[m],
           NEW p \in stored, p # None, NEW child \in stored' \ stored, activeRoot' = activeRoot,
           active'[p] = child,
           \A m \in stored : m # p => active'[m] = active[m]
    PROVE  /\ \A m \in stored : Lineage(m)' = Lineage(m)
           /\ ~IsShown(p) => \A m \in stored : IsShown(m)' <=> IsShown(m)
           /\ IsShown(p) => IsShown(p)'
  <1>1. ASSUME NEW m \in stored PROVE Lineage(m)' = Lineage(m)
    BY StoredIsClosed, WayUpIsStable DEF Lineage, ParentsAreOlder, ClosedUpward
  <1>2. \A m \in stored : Lineage(m) \subseteq stored
    BY WayUpIsStored DEF Lineage
  <1>3. \A m \in stored : \A x \in Lineage(m) :
            parent[x] # None => parent[x] \in Lineage(m)
    BY StoredIsClosed, WayUpIsClosed DEF Lineage, ClosedUpward
  <1>4. ASSUME NEW m \in stored, \A x \in Lineage(m) : parent[x] # p
        PROVE  IsShown(m)' <=> IsShown(m)
    <2>1. \A x \in Lineage(m) : /\ parent'[x] = parent[x]
                                /\ parent[x] # None => active'[parent[x]] = active[parent[x]]
      BY <1>2, <1>3, <1>4
    <2> QED BY <1>1, <2>1 DEF IsShown
  <1>5. ASSUME NEW m \in stored, NEW x \in Lineage(m), parent[x] = p
        PROVE  ~IsShown(m)' /\ (IsShown(m) => IsShown(p))
    <2>1. x \in stored /\ parent'[x] = p
      BY <1>2, <1>5
    <2>2. active'[p] # x
      BY <2>1
    <2>3. ~IsShown(m)'
      BY <1>1, <1>5, <2>1, <2>2 DEF IsShown
    <2>4. p \in Lineage(m)
      BY <1>3, <1>5
    <2> QED BY <2>3, <2>4, HiddenBelow
  <1>6. \A x \in Lineage(p) : parent[x] # p
    <2>1. \A x \in Lineage(p) : x <= p
      BY WayUpIsOlder
    <2>2. stored \subseteq Nat
      BY StoredAreIds, MaxMessagesAssumption DEF Ids
    <2>3. SUFFICES ASSUME NEW x \in Lineage(p), parent[x] = p PROVE FALSE
      OBVIOUS
    <2>4. x \in stored /\ p < x /\ x <= p
      BY <1>2, <2>1, <2>3 DEF ParentsAreOlder
    <2>5. x \in Nat /\ p \in Nat
      BY <2>2, <2>4
    <2> QED BY <2>4, <2>5
  <1>7. ~IsShown(p) => \A m \in stored : IsShown(m)' <=> IsShown(m)
    BY <1>4, <1>5
  <1>8. IsShown(p) => IsShown(p)'
    BY <1>4, <1>6
  <1> QED BY <1>1, <1>7, <1>8

(* After the step: a message is shown if its parent is and points to it.    *)
LEMMA NewMessage ==
    ASSUME ParentsAreOlder', NEW m \in stored', NEW p \in stored',
           parent'[m] = p, p # None
    PROVE  IsShown(m)' <=> IsShown(p)' /\ active'[p] = m
  <1> DEFINE way(x) == WayUp(x, stored', parent')
  <1>1. \A x : Lineage(x)' = way(x)
    BY DEF Lineage
  <1>2. ClosedUpward(stored', parent')
    BY DEF ParentsAreOlder, ClosedUpward
  <1>3. m \in way(m) /\ p \in way(m) /\ way(p) \subseteq way(m)
    BY <1>2, WayUpIsClosed, WayUpNests DEF ClosedUpward
  <1>4. way(m) \subseteq way(p) \cup {m}
    <2> DEFINE S == way(p) \cup {m}
    <2>1. p \in way(p) /\ ClosedUpward(way(p), parent')
      BY <1>2, WayUpIsClosed
    <2>2. ClosedUpward(S, parent')
      BY <2>1 DEF ClosedUpward
    <2>3. S \in SUBSET stored'
      BY WayUpIsStored
    <2> HIDE DEF S
    <2>4. m \in S
      BY DEF S
    <2>5. way(m) \subseteq S
      BY <2>2, <2>3, <2>4, WayUpIsLeast
    <2> QED BY <2>5 DEF S
  <1> HIDE DEF way
  <1>5. \A x : IsShown(x)' <=>
            \A y \in way(x) : IF parent'[y] = None THEN activeRoot' = y
                                                   ELSE active'[parent'[y]] = y
    BY <1>1 DEF IsShown
  <1> QED BY <1>3, <1>4, <1>5

LEMMA NewRoot ==
    ASSUME ParentsAreOlder', NEW m \in stored', parent'[m] = None
    PROVE  IsShown(m)' <=> activeRoot' = m
  <1> DEFINE way == WayUp(m, stored', parent')
  <1>1. ClosedUpward(stored', parent')
    BY DEF ParentsAreOlder, ClosedUpward
  <1>2. m \in way
    BY <1>1, WayUpIsClosed
  <1>3. {m} \in SUBSET stored' /\ ClosedUpward({m}, parent')
    BY DEF ClosedUpward
  <1>4. way \subseteq {m}
    BY <1>3, WayUpIsLeast
  <1> QED BY <1>2, <1>4 DEF IsShown, Lineage

LEMMA BackgroundStep ==
    ASSUME TypeOK, Inv, Inv', NEW r \in Requests,
           CommitTurn(r) \/ CommitRegeneration(r),
           requests[r].at # None, requests[r].at \notin Shown
    PROVE  Shown' = Shown
  <1>0. PICK p, first, second :
            p = requests[r].at /\ first = count + 1 /\ second = count + 2
    OBVIOUS
  <1>1. stored \subseteq Ids /\ p # None
    BY <1>0, StoredAreIds
  <1>2. CASE CommitTurn(r)
    <2>1. /\ p \in stored
          /\ first \in Ids /\ second \in Ids
          /\ first \notin stored /\ second \notin stored
          /\ stored' = stored \cup {first, second}
          /\ parent'[first] = p /\ parent'[second] = first
          /\ \A m \in stored : parent'[m] = parent[m]
          /\ \A m \in Ids \ {first} : active'[m] = IF m = p THEN first ELSE active[m]
          /\ activeRoot' = activeRoot
      BY <1>0, <1>1, <1>2, TurnWrites
    <2>2. ~IsShown(p)
      BY <1>0, <2>1 DEF Shown
    <2>3. active'[p] = first /\ \A m \in stored : m # p => active'[m] = active[m]
      BY <1>1, <2>1
    <2>4. \A m \in stored : IsShown(m)' <=> IsShown(m)
      BY <1>1, <2>1, <2>2, <2>3, OldMessages DEF Inv
    <2>5. ParentsAreOlder' /\ first # None
      BY <1>1, <2>1, NewIds DEF Inv
    <2>6. ~IsShown(first)'
      BY <1>1, <2>1, <2>2, <2>4, <2>5, NewMessage
    <2>7. ~IsShown(second)'
      BY <2>1, <2>5, <2>6, NewMessage
    <2> QED BY <2>1, <2>4, <2>6, <2>7 DEF Shown
  <1>3. CASE CommitRegeneration(r)
    <2>1. /\ p \in stored
          /\ first \in Ids /\ first \notin stored
          /\ stored' = stored \cup {first}
          /\ parent'[first] = p
          /\ \A m \in stored : parent'[m] = parent[m]
          /\ \A m \in Ids : active'[m] = IF m = p THEN first ELSE active[m]
          /\ activeRoot' = activeRoot
      BY <1>0, <1>1, <1>3, RegenerationWrites
    <2>2. ~IsShown(p)
      BY <1>0, <2>1 DEF Shown
    <2>3. active'[p] = first /\ \A m \in stored : m # p => active'[m] = active[m]
      BY <1>1, <2>1
    <2>4. \A m \in stored : IsShown(m)' <=> IsShown(m)
      BY <1>1, <2>1, <2>2, <2>3, OldMessages DEF Inv
    <2>5. ParentsAreOlder'
      BY DEF Inv
    <2>6. ~IsShown(first)'
      BY <1>1, <2>1, <2>2, <2>4, <2>5, NewMessage
    <2> QED BY <2>1, <2>4, <2>6 DEF Shown
  <1> QED BY <1>2, <1>3

LEMMA ShownStep ==
    ASSUME TypeOK, Inv, Inv', NEW r \in Requests,
           CommitTurn(r) \/ CommitRegeneration(r),
           requests[r].at \in Shown \cup {None}
    PROVE  NewestEndsTheBranch'
  <1>0. PICK p, first, second :
            p = requests[r].at /\ first = count + 1 /\ second = count + 2
    OBVIOUS
  <1>1. stored \subseteq Ids /\ None \notin Ids /\ ParentsAreOlder'
    BY StoredAreIds, NewIds DEF Inv
  <1>2. CASE CommitTurn(r)
    <2>1. /\ p \in stored \cup {None}
          /\ first \in Ids /\ second \in Ids /\ first # second
          /\ first \notin stored /\ second \notin stored
          /\ stored' = stored \cup {first, second}
          /\ parent'[first] = p /\ parent'[second] = first
          /\ \A m \in stored : parent'[m] = parent[m]
          /\ active'[first] = second
          /\ \A m \in Ids \ {first} : active'[m] = IF m = p THEN first ELSE active[m]
          /\ activeRoot' = IF p = None THEN first ELSE activeRoot
      BY <1>0, <1>2, TurnWrites, MaxMessagesAssumption DEF Ids
    <2>2. count' = second
      BY <1>0, <1>2 DEF CommitTurn
    <2>3. IsShown(first)'
      <3>1. CASE p = None
        BY <1>1, <2>1, <3>1, NewRoot
      <3>2. CASE p # None
        <4>1. p \in stored /\ IsShown(p)
          BY <1>0, <2>1, <3>2 DEF Shown
        <4>2. /\ active'[p] = first /\ activeRoot' = activeRoot
              /\ \A m \in stored : m # p => active'[m] = active[m]
          BY <1>1, <2>1, <3>2
        <4>3. IsShown(p)'
          BY <1>1, <2>1, <3>2, <4>1, <4>2, OldMessages DEF Inv
        <4> QED BY <1>1, <2>1, <3>2, <4>1, <4>2, <4>3, NewMessage
      <3> QED BY <3>1, <3>2
    <2>4. IsShown(second)'
      BY <1>1, <2>1, <2>3, NewMessage
    <2>5. \A c \in stored' : parent'[c] # second
      <3>1. \A c \in stored : parent[c] \in stored \cup {None}
        BY DEF Inv, ParentsAreOlder
      <3> QED BY <1>1, <2>1, <3>1
    <2> QED BY <2>1, <2>2, <2>4, <2>5 DEF NewestEndsTheBranch, Shown, Children
  <1>3. CASE CommitRegeneration(r)
    <2>1. /\ p \in stored /\ p # None
          /\ first \in Ids /\ first \notin stored
          /\ stored' = stored \cup {first}
          /\ parent'[first] = p
          /\ \A m \in stored : parent'[m] = parent[m]
          /\ \A m \in Ids : active'[m] = IF m = p THEN first ELSE active[m]
          /\ activeRoot' = activeRoot
      BY <1>0, <1>3, RegenerationWrites
    <2>2. count' = first
      BY <1>0, <1>3 DEF CommitRegeneration
    <2>3. IsShown(p)
      BY <1>0, <2>1 DEF Shown
    <2>4. active'[p] = first /\ \A m \in stored : m # p => active'[m] = active[m]
      BY <1>1, <2>1
    <2>5. IsShown(p)'
      BY <1>1, <2>1, <2>3, <2>4, OldMessages DEF Inv
    <2>6. IsShown(first)'
      BY <1>1, <2>1, <2>4, <2>5, NewMessage
    <2>7. \A c \in stored' : parent'[c] # first
      <3>1. \A c \in stored : parent[c] \in stored \cup {None}
        BY DEF Inv, ParentsAreOlder
      <3> QED BY <1>1, <2>1, <3>1
    <2> QED BY <2>1, <2>2, <2>6, <2>7 DEF NewestEndsTheBranch, Shown, Children
  <1> QED BY <1>2, <1>3

(* An answer for a branch that is not shown changes nothing of what is.      *)
THEOREM AnswersStayInBackground == Spec => BackgroundAnswersStayInBackground
  <1>1. TypeOK /\ Inv /\ Inv' /\ [Next]_vars =>
            [\A r \in Requests :
                /\ CommitTurn(r) \/ CommitRegeneration(r)
                /\ requests[r].at # None
                /\ requests[r].at \notin Shown
                => Shown' = Shown]_vars
    BY BackgroundStep
  <1> QED BY <1>1, TypeCorrect, InvCorrect, PTL
          DEF Spec, BackgroundAnswersStayInBackground

(* An answer for the branch that is shown becomes its last message.          *)
THEOREM AnswersAreShown == Spec => AnswersToTheShownBranchAreShown
  <1>1. TypeOK /\ Inv /\ Inv' /\ [Next]_vars =>
            [\A r \in Requests :
                /\ CommitTurn(r) \/ CommitRegeneration(r)
                /\ requests[r].at \in Shown \cup {None}
                => NewestEndsTheBranch']_vars
    BY ShownStep
  <1> QED BY <1>1, TypeCorrect, InvCorrect, PTL
          DEF Spec, AnswersToTheShownBranchAreShown

-----------------------------------------------------------------------------
(* A switch shows its target                                               *)

(* What a switch leaves in the pointers above a message of its path, if they*)
(* were not moved since it read them: the message itself.                   *)
LEMMA SwitchPoints ==
    ASSUME TypeOK, ParentsAreOlder, NEW m \in stored, IsRooted(Lineage(m)),
           NEW request, request.path = Lineage(m), NEW x \in Lineage(m)
    PROVE  /\ parent[x] = None /\ request.seenRoot = activeRoot => SwitchedRoot(request) = x
           /\ parent[x] # None /\ request.seenActive[parent[x]] = active[parent[x]]
                => SwitchedActive(request)[parent[x]] = x
  <1>1. \A c \in Lineage(m) : parent[c] = parent[x] => c = x
    BY LineageBranchesOnce
  <1>2. CASE parent[x] = None
    <2>1. (CHOOSE c \in request.path : parent[c] = None) = x
      BY <1>1, <1>2
    <2> QED BY <1>2, <2>1 DEF SwitchedRoot
  <1>3. CASE parent[x] # None
    <2>1. parent[x] \in Ids
      BY <1>3, StoredAreIds, WayUpIsStored DEF ParentsAreOlder, Lineage
    <2>2. CASE request.seenActive[parent[x]] = x
      <3>1. ~(\E c \in request.path : parent[c] = parent[x] /\ request.seenActive[parent[x]] # c)
        BY <1>1, <2>2
      <3>2. SwitchedActive(request)[parent[x]] = active[parent[x]]
        BY <2>1, <3>1 DEF SwitchedActive
      <3> QED BY <1>3, <2>2, <3>2
    <2>3. CASE request.seenActive[parent[x]] # x
      <3>1. (CHOOSE c \in request.path : parent[c] = parent[x] /\ request.seenActive[parent[x]] # c) = x
        BY <1>1, <2>3
      <3>2. SwitchedActive(request)[parent[x]] = x
        BY <2>1, <2>3, <3>1 DEF SwitchedActive
      <3> QED BY <1>3, <3>2
    <2> QED BY <2>2, <2>3
  <1> QED BY <1>2, <1>3

LEMMA WalkInvInit == Init => WalkInv
  BY MaxMessagesAssumption DEF Init, WalkInv, AllParentsOlder, SwitchesHoldLineages, Idle, Ids, None

LEMMA WalkInvStep ==
    ASSUME TypeOK, Inv, Inv', WalkInv, [Next]_vars
    PROVE  WalkInv'
  <1>1. ASSUME UNCHANGED <<exists, stored, parent>>,
               \A r \in Requests :
                  requests'[r] = requests[r] \/
                  (requests'[r].kind = "switch" /\ exists =>
                      requests'[r].at \in stored /\ requests'[r].path = Lineage(requests'[r].at))
        PROVE  WalkInv'
    <2>1. \A m : Lineage(m)' = Lineage(m)
      BY <1>1 DEF Lineage
    <2>2. AllParentsOlder'
      BY <1>1 DEF WalkInv, AllParentsOlder
    <2>3. SwitchesHoldLineages'
      BY <1>1, <2>1 DEF WalkInv, SwitchesHoldLineages
    <2> QED BY <2>2, <2>3 DEF WalkInv
  <1>2. ASSUME stored \subseteq stored', \A m \in stored : parent'[m] = parent[m],
               exists, AllParentsOlder',
               \A r \in Requests : requests'[r] = requests[r] \/ requests'[r] = Idle
        PROVE  WalkInv'
    <2>1. \A m \in stored : Lineage(m)' = Lineage(m)
      BY <1>2, LineageKept DEF Inv
    <2>2. \A m \in stored : WayUp(m, stored', parent') = WayUp(m, stored, parent)
      BY <2>1 DEF Lineage
    <2>3. ASSUME NEW r \in Requests, requests'[r].kind = "switch"
          PROVE  /\ requests'[r].at \in stored'
                 /\ requests'[r].path = WayUp(requests'[r].at, stored', parent')
      <3>1. requests'[r] = requests[r]
        BY <1>2, <2>3 DEF Idle
      <3>2. /\ requests[r].at \in stored
            /\ requests[r].path = WayUp(requests[r].at, stored, parent)
        BY <1>2, <2>3, <3>1 DEF WalkInv, SwitchesHoldLineages, Lineage
      <3> QED BY <1>2, <2>2, <3>1, <3>2
    <2>4. SwitchesHoldLineages'
      BY <2>3 DEF SwitchesHoldLineages, Lineage
    <2> QED BY <1>2, <2>4 DEF WalkInv
  <1>3. CASE UNCHANGED vars
    BY <1>1, <1>3 DEF vars
  <1>4. ASSUME NEW r \in Requests, NEW request, Begin(r, request),
               request.kind = "switch" => request.at \in stored /\ request.path = Lineage(request.at)
        PROVE  WalkInv'
    <2>1. \A s \in Requests : requests'[s] = IF s = r THEN request ELSE requests[s]
      BY <1>4 DEF Begin, TypeOK
    <2> QED BY <1>1, <1>4, <2>1 DEF Begin, rows
  <1>5. ASSUME NEW r \in Requests, BeginTurn(r) PROVE WalkInv'
    BY <1>4, <1>5 DEF BeginTurn, Turn
  <1>6. ASSUME NEW r \in Requests, BeginRegeneration(r) PROVE WalkInv'
    BY <1>4, <1>6 DEF BeginRegeneration, Regeneration
  <1>7. ASSUME NEW r \in Requests, BeginSwitch(r) PROVE WalkInv'
    <2>1. PICK m \in stored : Begin(r, Switch(m, Lineage(m)))
      BY <1>7 DEF BeginSwitch
    <2>2. Switch(m, Lineage(m)).at = m /\ Switch(m, Lineage(m)).path = Lineage(m)
      BY DEF Switch
    <2> QED BY <1>4, <2>1, <2>2
  <1>8. ASSUME NEW r \in Requests, requests' = [requests EXCEPT ![r] = Idle]
        PROVE  \A s \in Requests : requests'[s] = requests[s] \/ requests'[s] = Idle
    BY <1>8 DEF TypeOK
  <1>9. ASSUME NEW r \in Requests, TurnFails(r) \/ CommitSwitch(r) PROVE WalkInv'
    <2>1. UNCHANGED rows /\ requests' = [requests EXCEPT ![r] = Idle]
      BY <1>9 DEF TurnFails, CommitSwitch
    <2>2. \A s \in Requests : requests'[s] = requests[s] \/ requests'[s].kind # "switch"
      BY <1>8, <2>1 DEF Idle
    <2> QED BY <1>1, <2>1, <2>2 DEF rows
  <1>10. ASSUME NEW r \in Requests, CommitTurn(r) PROVE WalkInv'
    <2> DEFINE p == requests[r].at
               question == count + 1
               answer == count + 2
    <2>1. /\ p \in stored \cup {None}
          /\ question \in Ids /\ answer \in Ids /\ question < answer
          /\ stored' = stored \cup {question, answer}
          /\ \A m \in stored : parent'[m] = parent[m]
          /\ exists
          /\ requests' = [requests EXCEPT ![r] = Idle]
      BY <1>10, TurnWrites
    <2>2. parent' = [parent EXCEPT ![question] = p, ![answer] = question]
      BY <1>10 DEF CommitTurn
    <2>3. p < question
      <3>1. count \in Nat /\ \A m \in stored : m \in Nat /\ m <= count
        BY MaxMessagesAssumption, NewIds, StoredAreIds DEF TypeOK, Ids
      <3> QED BY <2>1, <3>1 DEF None
    <2>4. parent \in [Ids -> Pointers]
      BY DEF TypeOK
    <2> HIDE DEF p, question, answer
    <2>5. AllParentsOlder'
      BY <2>1, <2>2, <2>3, <2>4 DEF WalkInv, AllParentsOlder
    <2> QED BY <1>2, <1>8, <2>1, <2>5
  <1>11. ASSUME NEW r \in Requests, CommitRegeneration(r) PROVE WalkInv'
    <2> DEFINE p == requests[r].at
               answer == count + 1
    <2>1. /\ p \in stored
          /\ answer \in Ids
          /\ stored' = stored \cup {answer}
          /\ \A m \in stored : parent'[m] = parent[m]
          /\ exists
          /\ requests' = [requests EXCEPT ![r] = Idle]
      BY <1>11, RegenerationWrites
    <2>2. parent' = [parent EXCEPT ![answer] = p]
      BY <1>11 DEF CommitRegeneration
    <2>3. p < answer
      <3>1. count \in Nat /\ \A m \in stored : m \in Nat /\ m <= count
        BY MaxMessagesAssumption, NewIds, StoredAreIds DEF TypeOK, Ids
      <3> QED BY <2>1, <3>1
    <2>4. parent \in [Ids -> Pointers]
      BY DEF TypeOK
    <2> HIDE DEF p, answer
    <2>5. AllParentsOlder'
      BY <2>1, <2>2, <2>3, <2>4 DEF WalkInv, AllParentsOlder
    <2> QED BY <1>2, <1>8, <2>1, <2>5
  <1>12. ASSUME Delete PROVE WalkInv'
    BY <1>12 DEF Delete, WalkInv, AllParentsOlder, SwitchesHoldLineages
  <1> QED BY <1>3, <1>5, <1>6, <1>7, <1>9, <1>10, <1>11, <1>12 DEF Next

(* After the switch every pointer along the path leads on along it, and the *)
(* lineage of each message of the path is part of the path.                 *)
LEMMA UndisturbedStep ==
    ASSUME TypeOK, Inv, Inv', WalkInv, NEW r \in Requests, CommitSwitch(r), exists, Unmoved(requests[r])
    PROVE  requests[r].path \subseteq Shown'
  <1> DEFINE path == requests[r].path
  <1>1. PICK m \in stored : path = Lineage(m)
    BY DEF CommitSwitch, WalkInv, SwitchesHoldLineages
  <1>2. IsRooted(Lineage(m)) /\ path \subseteq stored
    BY <1>1 DEF CommitSwitch, Inv, SwitchesKnowTheWay
  <1>3. /\ active' = SwitchedActive(requests[r]) /\ activeRoot' = SwitchedRoot(requests[r])
        /\ UNCHANGED <<stored, parent>>
    BY DEF CommitSwitch, rows
  <1>4. ASSUME NEW x \in Lineage(m)
        PROVE  IF parent'[x] = None THEN activeRoot' = x ELSE active'[parent'[x]] = x
    <2>1. /\ parent[x] = None /\ requests[r].seenRoot = activeRoot => SwitchedRoot(requests[r]) = x
          /\ parent[x] # None /\ requests[r].seenActive[parent[x]] = active[parent[x]]
                  => SwitchedActive(requests[r])[parent[x]] = x
      BY <1>1, <1>2, SwitchPoints DEF Inv
    <2> QED BY <1>1, <1>3, <2>1 DEF Unmoved
  <1>5. ASSUME NEW x \in Lineage(m) PROVE x \in stored' /\ IsShown(x)'
    <2>1. Lineage(x) \subseteq Lineage(m)
      BY StoredIsClosed, WayUpNests DEF Lineage, Inv
    <2>2. Lineage(x)' = Lineage(x)
      BY <1>3 DEF Lineage
    <2>3. x \in stored'
      BY <1>1, <1>2, <1>3
    <2> QED BY <1>4, <2>1, <2>2, <2>3 DEF IsShown
  <1> QED BY <1>1, <1>5 DEF Shown

(* Rows are created in order, and a switch never holds a stale lineage. *)
THEOREM WalkInvCorrect == Spec => []WalkInv
  <1>1. TypeOK /\ Inv /\ Inv' /\ WalkInv /\ [Next]_vars => WalkInv'
    BY WalkInvStep
  <1> QED BY <1>1, WalkInvInit, TypeCorrect, InvCorrect, PTL DEF Spec

(* A switch whose way was not disturbed shows its target. *)
THEOREM UndisturbedSwitchesAreAlwaysShown == Spec => UndisturbedSwitchesAreShown
  <1>1. TypeOK /\ Inv /\ Inv' /\ WalkInv /\ [Next]_vars =>
           [\A r \in Requests :
              /\ CommitSwitch(r)
              /\ exists
              /\ Unmoved(requests[r])
              => requests[r].path \subseteq Shown']_vars
    BY UndisturbedStep
  <1> QED BY <1>1, TypeCorrect, InvCorrect, WalkInvCorrect, PTL DEF Spec, UndisturbedSwitchesAreShown

=============================================================================
