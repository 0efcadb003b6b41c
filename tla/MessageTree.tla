----------------------------- MODULE MessageTree -----------------------------
(***************************************************************************)
(* The messages of one conversation and the branch that is shown.          *)
(*                                                                         *)
(* Messages form a forest: an edited question is a new child of the same   *)
(* parent, a regenerated answer a new child of the same question.  The     *)
(* database keeps what is shown as pointers: Conversation.                 *)
(* active_root_message_id and, in each message, active_child_id.  Readers  *)
(* follow them down (chat/tree_utils.py); a turn of the engine moves the   *)
(* pointer of its parent when the answer is stored (chat/engine.py); the   *)
(* branch switch of the client moves every pointer down to a message       *)
(* (api/routes/conversations.py).                                          *)
(*                                                                         *)
(* A turn reads its parent, ends its transaction, waits for the model and  *)
(* writes in a second transaction.  A switch reads all the rows and then   *)
(* updates the pointers that differ from what it read, without a lock.     *)
(* So each is two actions with anything in between.                        *)
(*                                                                         *)
(* Message ids are numbers in the order of creation, the order             *)
(* (created_at, id) of _index_messages.                                    *)
(***************************************************************************)
EXTENDS Naturals, Sequences

CONSTANTS Requests,     \* request handlers that may be under way at once
          MaxMessages   \* bound: how many messages are ever created

ASSUME MaxMessagesAssumption == MaxMessages \in Nat

None == 0
Ids == 1 .. MaxMessages
Pointers == Ids \cup {None}

VARIABLES
    exists,      \* the row of the conversation is there
    count,       \* how many messages were ever created
    stored,      \* the messages whose rows are there
    parent,      \* Message.parent_id, None for a root
    role,        \* Message.role
    active,      \* Message.active_child_id
    activeRoot,  \* Conversation.active_root_message_id
    requests     \* what each handler remembers between its two transactions

rows == <<exists, count, stored, parent, role>>
vars == <<exists, count, stored, parent, role, active, activeRoot, requests>>

-----------------------------------------------------------------------------
(* Reading the forest: chat/tree_utils.py                                  *)

(* The rows on the way from m up to a root: the fewest that hold m and,     *)
(* with each row, the parent it names.                                      *)
ClosedUpward(S, up) == \A y \in S : up[y] = None \/ up[y] \in S

WayUp(m, ids, up) ==
    {x \in ids : \A S \in SUBSET ids :
                        m \in S /\ ClosedUpward(S, up) => x \in S}

Lineage(m) == WayUp(m, stored, parent)

Children(m) == {c \in stored : parent[c] = m}

(* Mutant: the choice of the author is ignored. *)
FollowedMutant(candidates, preferred) ==
    CHOOSE c \in candidates : \A d \in candidates : c <= d

(* The child that is followed: the preferred one, or else the oldest. *)
Followed(candidates, preferred) ==
    IF preferred \in candidates
    THEN preferred
    ELSE CHOOSE c \in candidates : \A d \in candidates : c <= d

(* The branch below m, m included, when `pointer` names the active children. *)
BranchFrom(m, pointer) ==
    LET below[x \in Ids] ==
            IF Children(x) = {}
            THEN <<x>>
            ELSE <<x>> \o below[Followed(Children(x), pointer[x])]
    IN  below[m]

(* The messages that are shown, in order. *)
CurrentPath(pointer, root) ==
    IF Children(None) = {}
    THEN <<>>
    ELSE BranchFrom(Followed(Children(None), root), pointer)

(* Mutant: below m the preview shows the oldest branch. *)
PathThroughMutant(m) ==
    LET to[x \in Ids] == IF parent[x] = None
                         THEN <<x>>
                         ELSE to[parent[x]] \o <<x>>
    IN  to[m] \o Tail(BranchFrom(m, [x \in Ids |-> None]))

(* The branch through m that a reader without the right to switch is shown. *)
PathThrough(m) ==
    LET to[x \in Ids] == IF parent[x] = None
                         THEN <<x>>
                         ELSE to[parent[x]] \o <<x>>
    IN  to[m] \o Tail(BranchFrom(m, active))

(* A lineage that reaches a root: anything else is "not in this conversation". *)
IsRooted(path) == \E r \in path : parent[r] = None

-----------------------------------------------------------------------------
(* Requests                                                                *)

Idle == [kind |-> "idle"]
Turn(p) == [kind |-> "turn", at |-> p]
Regeneration(p) == [kind |-> "regeneration", at |-> p]
Switch(m, path) ==
    [kind |-> "switch", at |-> m, path |-> path,
     seenActive |-> active, seenRoot |-> activeRoot]

Init ==
    /\ exists = TRUE
    /\ count = 0
    /\ stored = {}
    /\ parent = [m \in Ids |-> None]
    /\ role = [m \in Ids |-> "user"]
    /\ active = [m \in Ids |-> None]
    /\ activeRoot = None
    /\ requests = [r \in Requests |-> Idle]

Begin(r, request) ==
    /\ requests[r].kind = "idle"
    /\ requests' = [requests EXCEPT ![r] = request]
    /\ UNCHANGED <<rows, active, activeRoot>>

(* A new question under p.  The client names the last message shown, the    *)
(* parent of the question it edits, or no parent at all: a new root.  A     *)
(* request that leaves the parent out continues the current path, whose     *)
(* last message is one of the choices here.                                 *)
BeginTurn(r) ==
    /\ exists
    /\ \E p \in stored \cup {None} : Begin(r, Turn(p))

(* Another answer to the question p. *)
BeginRegeneration(r) ==
    /\ exists
    /\ \E p \in stored : role[p] = "user" /\ Begin(r, Regeneration(p))

(* Mutant: the question is stored before the model is asked. *)
TurnFailsMutant(r) ==
    LET p == requests[r].at
        question == count + 1
    IN  /\ requests[r].kind = "turn"
        /\ exists
        /\ p = None \/ p \in stored
        /\ question <= MaxMessages
        /\ count' = question
        /\ stored' = stored \cup {question}
        /\ parent' = [parent EXCEPT ![question] = p]
        /\ role' = [role EXCEPT ![question] = "user"]
        /\ active' = [m \in Ids |-> IF m = p THEN question ELSE active[m]]
        /\ activeRoot' = IF p = None THEN question ELSE activeRoot
        /\ requests' = [requests EXCEPT ![r] = Idle]
        /\ UNCHANGED exists

(* The model, a tool or the process failed: the transaction left nothing. *)
TurnFails(r) ==
    /\ requests[r].kind \in {"turn", "regeneration"}
    /\ requests' = [requests EXCEPT ![r] = Idle]
    /\ UNCHANGED <<rows, active, activeRoot>>

(* Mutant: the insert does not meet the lock and the keys of a deletion. *)
StillThereMutant(p) == TRUE

(* A message can only be inserted under rows that are still there. *)
StillThere(p) == exists /\ p \in stored \cup {None}

(* Mutants: the question does not point to its answer, or the turn makes    *)
(* the whole branch active.                                                 *)
TurnPointersMutant(p, question, answer) ==
    [m \in Ids |-> IF m = p THEN question ELSE active[m]]
TurnSwitchesMutant(p, question, answer) ==
    [m \in Ids |->
        IF m = question THEN answer
        ELSE IF m = p THEN question
        ELSE IF p # None /\ \E c \in Lineage(p) : parent[c] = m
        THEN CHOOSE c \in Lineage(p) : parent[c] = m
        ELSE active[m]]

(* The pointers after a turn: the parent shows the question and the        *)
(* question the answer.                                                     *)
TurnPointers(p, question, answer) ==
    [m \in Ids |->
        IF m = question THEN answer
        ELSE IF m = p THEN question
        ELSE active[m]]

(* The pointers after a regeneration. *)
AnswerPointers(p, answer) == [active EXCEPT ![p] = answer]

(* Question and answer are stored together; the parent, or the conversation *)
(* for a new root, now shows the question and the question its answer.      *)
CommitTurn(r) ==
    LET p == requests[r].at
        question == count + 1
        answer == count + 2
    IN  /\ requests[r].kind = "turn"
        /\ StillThere(p)
        /\ answer <= MaxMessages
        /\ count' = answer
        /\ stored' = stored \cup {question, answer}
        /\ parent' = [parent EXCEPT ![question] = p, ![answer] = question]
        /\ role' = [role EXCEPT ![question] = "user", ![answer] = "assistant"]
        /\ active' = TurnPointers(p, question, answer)
        /\ activeRoot' = IF p = None THEN question ELSE activeRoot
        /\ requests' = [requests EXCEPT ![r] = Idle]
        /\ UNCHANGED exists

(* The new answer is stored and shown beneath its question. *)
CommitRegeneration(r) ==
    LET p == requests[r].at
        answer == count + 1
    IN  /\ requests[r].kind = "regeneration"
        /\ StillThere(p)
        /\ answer <= MaxMessages
        /\ count' = answer
        /\ stored' = stored \cup {answer}
        /\ parent' = [parent EXCEPT ![answer] = p]
        /\ role' = [role EXCEPT ![answer] = "assistant"]
        /\ active' = AnswerPointers(p, answer)
        /\ requests' = [requests EXCEPT ![r] = Idle]
        /\ UNCHANGED <<exists, activeRoot>>

(* The switch has found the target and read every row of the conversation. *)
BeginSwitch(r) ==
    /\ exists
    /\ \E m \in stored :
        /\ IsRooted(Lineage(m))
        /\ Begin(r, Switch(m, Lineage(m)))

(* The pointers after the switch.  The session writes only an attribute     *)
(* whose new value differs from the one it read.                            *)
SwitchedActive(request) ==
    [m \in Ids |->
        IF \E c \in request.path : parent[c] = m /\ request.seenActive[m] # c
        THEN CHOOSE c \in request.path :
                parent[c] = m /\ request.seenActive[m] # c
        ELSE active[m]]

(* Mutant: only the pointers between messages are moved. *)
SwitchedRootMutant(request) == activeRoot

SwitchedRoot(request) ==
    LET top == CHOOSE c \in request.path : parent[c] = None
    IN  IF request.seenRoot # top THEN top ELSE activeRoot

(* A row that was deleted meanwhile makes the update fail, or there was     *)
(* nothing to update: either way nothing is written.                        *)
CommitSwitch(r) ==
    /\ requests[r].kind = "switch"
    /\ IF exists
       THEN /\ active' = SwitchedActive(requests[r])
            /\ activeRoot' = SwitchedRoot(requests[r])
       ELSE UNCHANGED <<active, activeRoot>>
    /\ requests' = [requests EXCEPT ![r] = Idle]
    /\ UNCHANGED rows

(* The author deletes the conversation: pointers are cleared so that the    *)
(* rows may go, under a lock no insert of a message passes.                 *)
Delete ==
    /\ exists
    /\ exists' = FALSE
    /\ stored' = {}
    /\ active' = [m \in Ids |-> None]
    /\ activeRoot' = None
    /\ UNCHANGED <<count, parent, role, requests>>

Next ==
    \/ \E r \in Requests :
        \/ BeginTurn(r) \/ BeginRegeneration(r) \/ TurnFails(r)
        \/ CommitTurn(r) \/ CommitRegeneration(r)
        \/ BeginSwitch(r) \/ CommitSwitch(r)
    \/ Delete

Spec == Init /\ [][Next]_vars

-----------------------------------------------------------------------------
(* What must hold                                                          *)

(* The rows, the pointers and what a handler remembers keep their types;   *)
(* ids are never reused, and of a deleted conversation nothing is left.     *)
Requested ==
    {Idle}
    \cup [kind : {"turn"}, at : Pointers]
    \cup [kind : {"regeneration"}, at : Ids]
    \cup [kind : {"switch"}, at : Ids, path : SUBSET Ids,
          seenActive : [Ids -> Pointers], seenRoot : Pointers]

TypeOK ==
    /\ exists \in BOOLEAN
    /\ count \in 0 .. MaxMessages
    /\ stored \in SUBSET (1 .. count)
    /\ parent \in [Ids -> Pointers]
    /\ role \in [Ids -> {"user", "assistant"}]
    /\ active \in [Ids -> Pointers]
    /\ activeRoot \in Pointers
    /\ requests \in [Requests -> Requested]
    /\ ~exists => stored = {} /\ activeRoot = None

(* Every pointer names a message directly below it, and there is one       *)
(* wherever there is anything to show: no interleaving of turns and        *)
(* switches makes a reader fall back to the oldest child, or follow a      *)
(* pointer into another branch (tree_utils.py, get_current_branch_path).   *)
PointersFollowEdges ==
    /\ \A m \in Ids :
        IF Children(m) = {} THEN active[m] = None ELSE active[m] \in Children(m)
    /\ IF Children(None) = {}
       THEN activeRoot = None
       ELSE activeRoot \in Children(None)

(* Whatever branch is shown ends with an answer: a question is never stored *)
(* without one, in whatever order the writes of turns and switches fall     *)
(* (engine.py, handle_conversation_turn).                                   *)
BranchesEndWithAnswers ==
    \A m \in stored : Children(m) = {} => role[m] = "assistant"

(* A message is shown when every pointer above it leads to it.             *)
IsShown(m) ==
    \A x \in Lineage(m) :
        IF parent[x] = None THEN activeRoot = x ELSE active[parent[x]] = x

Shown == {m \in stored : IsShown(m)}

(* Walking down the pointers visits the messages all of whose ancestors     *)
(* point to them, and no others (get_current_branch_path_from_messages).    *)
WalkVisitsWhatIsShown ==
    LET path == CurrentPath(active, activeRoot)
    IN  {path[i] : i \in DOMAIN path} = Shown

(* The branch that a reviewer previews without writing is the one the       *)
(* author would see after switching to the message: below it, both keep the *)
(* branch that was chosen last (get_branch_path_through_message_from_       *)
(* messages and update_active_branch_to_message).                           *)
PreviewIsWhatASwitchShows ==
    \A m \in stored :
        LET request == Switch(m, Lineage(m))
        IN  PathThrough(m) =
                CurrentPath(SwitchedActive(request), SwitchedRoot(request))

(* An answer that arrives for a branch its author has left, by a switch or  *)
(* by a turn elsewhere, changes nothing of what is shown: the engine moves  *)
(* the pointer of the parent only.                                          *)
BackgroundAnswersStayInBackground ==
    [][\A r \in Requests :
        /\ CommitTurn(r) \/ CommitRegeneration(r)
        /\ requests[r].at # None
        /\ requests[r].at \notin Shown
        => Shown' = Shown]_vars

NewestEndsTheBranch == count \in Shown /\ Children(count) = {}

(* An answer for a branch that is still shown becomes its last message,     *)
(* whatever was stored or switched while the model was working.             *)
AnswersToTheShownBranchAreShown ==
    [][\A r \in Requests :
        /\ CommitTurn(r) \/ CommitRegeneration(r)
        /\ requests[r].at \in Shown \cup {None}
        => NewestEndsTheBranch']_vars

(* A switch shows its target if no pointer on the way to it moved since the *)
(* switch read them.  Without that condition it need not: the update leaves *)
(* out the pointers that were already right, so one that another switch has *)
(* moved meanwhile stays moved.                                             *)
Unmoved(request) ==
    /\ activeRoot = request.seenRoot
    /\ \A x \in request.path :
        parent[x] # None => active[parent[x]] = request.seenActive[parent[x]]

UndisturbedSwitchesAreShown ==
    [][\A r \in Requests :
        /\ CommitSwitch(r)
        /\ exists
        /\ Unmoved(requests[r])
        => requests[r].path \subseteq Shown']_vars

-----------------------------------------------------------------------------
(* Readers see one branch that is replaced as a whole or from one message   *)
(* downward, whatever turns, regenerations, switches and a deletion do      *)
(* between their transactions (engine.py, handle_conversation_turn, and     *)
(* conversations.py, update_active_branch_to_message).                      *)
View == INSTANCE ShownBranch WITH shown <- CurrentPath(active, activeRoot)

ImplementsShownBranch == View!Spec

=============================================================================
