------------------------- MODULE InstructionsStore -------------------------
(***************************************************************************)
(* The instructions workspace: the zustand store of one browser tab, the   *)
(* requests it has in flight, and the prompt-set versions on the server,   *)
(* which colleagues change too.  A request is sent, served and delivered   *)
(* in three steps, so answers arrive late and in any order, and no answer  *)
(* is matched with what the tab shows by then.  Only the templates on disk *)
(* and the live badge are read as they are delivered.                      *)
(*                                                                         *)
(* Every mount of the page makes a new store, filled from localStorage,    *)
(* and every update of a store is written there.  The store of a page left *)
(* inside the app lives on in the requests it had in flight: its answers   *)
(* update it, and write its state over what the new page has written.      *)
(*                                                                         *)
(* Every section here is an internal one (the sidebar offers no other), so *)
(* activePlatform never changes.  Display state (guide, diff, wrapping,    *)
(* expanded sections, error banner) is left out.                           *)
(***************************************************************************)
EXTENDS Naturals, FiniteSets

CONSTANTS
    Sections,      \* section ids
    Files,         \* template filenames
    Texts,         \* contents of templates
    Empty,         \* the empty editor
    None,          \* undefined
    SectionOf,     \* getSectionIdForTemplate
    FirstFile,     \* a section's first template
    Assistant,     \* the assistant section, whose versions the page always loads
    Disk,          \* the templates on disk
    Written,       \* bound: texts that colleagues write
    MaxVersions,   \* bound: version rows
    MaxGestures,   \* bound: what the user does
    MaxElsewhere,  \* bound: what colleagues do, and visits to other pages
    MaxCopies,     \* bound: equal requests in flight
    MaxInFlight    \* bound: requests of the page in flight when the user acts

Versions == 1..MaxVersions

ASSUME InstructionsConstants ==
    /\ SectionOf \in [Files -> Sections]
    /\ FirstFile \in [Sections -> Files]
    /\ \A s \in Sections : SectionOf[FirstFile[s]] = s
    /\ Assistant \in Sections
    /\ Disk \in [Files -> Texts] /\ Written \subseteq Texts
    /\ None \notin Sections \cup Files \cup Texts \cup {Empty}
    /\ MaxVersions \in Nat /\ MaxGestures \in Nat /\ MaxElsewhere \in Nat
    /\ MaxCopies \in Nat \ {0} /\ MaxInFlight \in Nat
    /\ None \notin Nat

VARIABLES
    table,     \* prompt_set_version, with the templates of each row
    store,     \* InstructionsState of the page
    old,       \* that of the page left behind, while it has requests in flight
    storage,   \* localStorage, as the next page reads it
    writer,    \* the page that wrote it last: "here" or "left"
    calls,     \* requests in flight
    gestures,  \* what the user has done so far
    elsewhere  \* what has happened away from the page so far

vars == <<table, store, old, storage, writer, calls, gestures, elsewhere>>

(***************************************************************************)
(* The server's rows.                                                      *)
(***************************************************************************)
NoVersion == [there |-> FALSE, sec |-> None, live |-> FALSE, text |-> Disk]

OfSection(tbl, s) == {v \in Versions : tbl[v].there /\ tbl[v].sec = s}

Listed(tbl, s) == [v \in OfSection(tbl, s) |-> tbl[v].live]

Deployed(tbl, s) ==
    LET live == {v \in OfSection(tbl, s) : tbl[v].live}
    IN  IF live = {} THEN {Empty} ELSE live

NextVersion(tbl) == {v \in Versions : tbl[v].sec = None /\ \A u \in 1..(v - 1) : tbl[u].sec # None}

Created(tbl, v, s, text) ==
    [tbl EXCEPT ![v] = [there |-> TRUE, sec |-> s, live |-> FALSE, text |-> text]]

Deploys(tbl, v) ==
    [u \in Versions |-> IF tbl[u].sec = tbl[v].sec THEN [tbl[u] EXCEPT !.live = (u = v)] ELSE tbl[u]]

Undeployed(tbl, s) ==
    [u \in Versions |-> IF tbl[u].sec = s THEN [tbl[u] EXCEPT !.live = FALSE] ELSE tbl[u]]

Deleted(tbl, v) == [tbl EXCEPT ![v].there = FALSE]

(***************************************************************************)
(* The store's pure updates, each from a state st to the next.             *)
(***************************************************************************)
FindTemplateContent(f, v, disk) ==
    IF v # None /\ table[v].sec = SectionOf[f] THEN table[v].text[f]
    ELSE IF disk THEN Disk[f] ELSE Empty

GetBaseContent(st, f) == FindTemplateContent(f, st.detail, st.disk)

NoDrafts == [f \in Files |-> None]

(* Mutant: choosing another version throws away every draft. *)
DraftsOutsideMutant(st, s) == NoDrafts

DraftsOutside(st, s) == [f \in Files |-> IF SectionOf[f] = s THEN None ELSE st.drafts[f]]

HasUnsavedChangesInSection(st, s) == \E f \in Files : SectionOf[f] = s /\ st.drafts[f] # None

StoredVersion(st, s) == IF st.defBy[s] THEN None ELSE st.selBy[s]

SetActiveSection(st, s) ==
    [st EXCEPT !.active = s, !.template = None, !.sel = StoredVersion(st, s),
               !.isDef = st.defBy[s], !.detail = None]

SelectTemplate(st, f) ==
    LET s       == SectionOf[f]
        at      == IF s = st.active THEN st
                   ELSE [st EXCEPT !.active = s, !.sel = StoredVersion(st, s),
                                   !.isDef = st.defBy[s], !.detail = None]
    IN  [at EXCEPT !.template = f,
                   !.edited = IF st.drafts[f] # None THEN st.drafts[f] ELSE GetBaseContent(at, f)]

(* Mutant: the editor is cleared to undefined. *)
SelectVersionMutant(st, v) ==
    [st EXCEPT !.sel = v, !.isDef = FALSE, !.template = None, !.edited = None, !.detail = None,
               !.drafts = DraftsOutside(st, st.active),
               !.selBy[st.active] = v, !.defBy[st.active] = FALSE]

SelectVersion(st, v) ==
    [st EXCEPT !.sel = v, !.isDef = FALSE, !.template = None, !.edited = Empty, !.detail = None,
               !.drafts = DraftsOutside(st, st.active),
               !.selBy[st.active] = v, !.defBy[st.active] = FALSE]

SelectDefault(st) ==
    [st EXCEPT !.sel = None, !.isDef = TRUE, !.template = None, !.edited = Empty, !.detail = None,
               !.drafts = DraftsOutside(st, st.active),
               !.selBy[st.active] = None, !.defBy[st.active] = TRUE]

UpdateContent(st, f, text) ==
    [st EXCEPT !.edited = text,
               !.drafts[f] = IF text = GetBaseContent(st, f) THEN None ELSE text]

ResetTemplate(st) ==
    [st EXCEPT !.edited = GetBaseContent(st, st.template), !.drafts[st.template] = None]

LoadedDiskTemplates(st) ==
    LET st1 == [st EXCEPT !.disk = TRUE]
    IN  IF st.template = None
        THEN SelectTemplate(st1, FirstFile[IF st.active = None THEN Assistant ELSE st.active])
        ELSE IF st.edited = Empty THEN SelectTemplate(st1, st.template) ELSE st1

(* A list without the version this section has selected resets that selection. *)
LoadedVersions(st, s, list) ==
    LET stored == st.selBy[s]
        reset  == stored # None /\ stored \notin DOMAIN list
        here   == reset /\ st.active = s
        same   == here /\ st.sel = stored
    IN  [st EXCEPT !.list[s]  = list,
                   !.selBy    = IF reset THEN [@ EXCEPT ![s] = None] ELSE @,
                   !.defBy    = IF reset THEN [@ EXCEPT ![s] = TRUE] ELSE @,
                   !.sel      = IF same THEN None ELSE @,
                   !.detail   = IF same THEN None ELSE @,
                   !.isDef    = IF here THEN TRUE ELSE @]

(* A version's prompts go into the editor, unless its file has a draft. *)
KeepsDraft(st) == st.template = None \/ st.drafts[st.template] # None

(* Mutant: the loaded prompts replace a draft too. *)
LoadedDetailMutant(st, v) ==
    [st EXCEPT !.detail = v,
               !.edited = IF st.template = None THEN @
                          ELSE FindTemplateContent(st.template, v, st.disk)]

LoadedDetail(st, v) ==
    [st EXCEPT !.detail = v,
               !.edited = IF KeepsDraft(st) THEN @ ELSE FindTemplateContent(st.template, v, st.disk)]

(* Mutant: a failed load forgets to fall back to the default in the section's memory. *)
DetailFailedMutant(st) ==
    [st EXCEPT !.sel = None, !.detail = None, !.isDef = TRUE,
               !.selBy = IF st.active = None THEN @ ELSE [@ EXCEPT ![st.active] = None]]

DetailFailed(st) ==
    [st EXCEPT !.sel = None, !.detail = None, !.isDef = TRUE,
               !.selBy = IF st.active = None THEN @ ELSE [@ EXCEPT ![st.active] = None],
               !.defBy = IF st.active = None THEN @ ELSE [@ EXCEPT ![st.active] = TRUE]]

CreatedVersion(st) == [st EXCEPT !.drafts = NoDrafts, !.edited = Empty, !.template = None]

(* The selections are those read before the request, with the deleted version's dropped. *)
DeletedVersion(st, v, read) ==
    [st EXCEPT !.sel    = IF read.sel = v THEN None ELSE read.sel,
               !.detail = IF read.sel = v THEN None ELSE @,
               !.isDef  = IF read.sel = v THEN TRUE ELSE @,
               !.selBy  = [s \in Sections |-> IF read.selBy[s] = v THEN None ELSE read.selBy[s]],
               !.defBy  = [s \in Sections |-> read.selBy[s] = v \/ read.defBy[s]]]

CloseConfirmDialog(st) == [st EXCEPT !.dialog = "none", !.target = None]

Fresh ==
    [disk |-> FALSE, list |-> [s \in Sections |-> None], deployed |-> None,
     detail |-> None, active |-> None, sel |-> None, isDef |-> FALSE,
     selBy |-> [s \in Sections |-> None], defBy |-> [s \in Sections |-> TRUE],
     template |-> None, edited |-> Empty, drafts |-> NoDrafts,
     dialog |-> "none", target |-> None]

(* What a new page makes of the state st that localStorage holds. *)
Merged(st) ==
    [st EXCEPT !.disk = FALSE, !.list = [s \in Sections |-> None], !.deployed = None,
               !.detail = None, !.dialog = "none", !.target = None,
               !.isDef  = st.active = None \/ st.defBy[st.active],
               !.sel    = IF st.active = None \/ st.defBy[st.active] THEN None
                          ELSE IF st.selBy[st.active] # None THEN st.selBy[st.active] ELSE @,
               !.edited = IF st.template = None THEN Empty ELSE @,
               !.drafts = IF KeepsDraft(st) /\ st.template # None
                          THEN [@ EXCEPT ![st.template] = st.edited] ELSE @]

(***************************************************************************)
(* Requests.  "by" is the operation that awaits the answer, "at" the page  *)
(* it runs on; "gone" is a write whose page was loaded anew.               *)
(***************************************************************************)
NoRead == [sel |-> None, selBy |-> [s \in Sections |-> None], defBy |-> [s \in Sections |-> TRUE]]

NoList == [v \in {} |-> FALSE]

Call(op, s, v, by) ==
    [op |-> op, sec |-> s, ver |-> v, by |-> by, at |-> "here", text |-> Disk, read |-> NoRead,
     answered |-> FALSE, ok |-> FALSE, list |-> NoList, copy |-> 1]

(* Equal requests in flight are told apart by their number. *)
Copies(C, c) == {n \in 1..MaxCopies : [c EXCEPT !.copy = n] \notin C}

Sent(C, cs) ==
    C \cup {[c EXCEPT !.copy = CHOOSE n \in Copies(C, c) : TRUE] :
               c \in {d \in cs : Copies(C, d) # {}}}

(* Mutant: once the page is up, versions are no longer loaded. *)
LoadDetailMutant(st, v) == IF v = None \/ st.disk THEN {} ELSE {Call("detail", None, v, "page")}

LoadDetail(st, v) == IF v = None THEN {} ELSE {Call("detail", None, v, "page")}

LoadUnlisted(st, s) ==
    IF s # None /\ st.list[s] = None THEN {Call("list", s, None, "page")} ELSE {}

LoadDeployed(s) == IF s = None THEN {} ELSE {Call("deployed", s, None, "page")}

(* What the effects of the page request after the store went from st to st1; *)
(* any list that arrives, changed or not, runs the ones that watch the lists. *)
ListEffects(st) ==
    LoadUnlisted(st, Assistant) \cup LoadUnlisted(st, st.active) \cup LoadDeployed(st.active)

PageEffects(st, st1) ==
    (IF st.active = st1.active THEN {} ELSE LoadUnlisted(st1, st1.active) \cup LoadDeployed(st1.active))
    \cup (IF st.sel = st1.sel /\ st.detail = st1.detail THEN {}
          ELSE IF st1.sel # st1.detail THEN LoadDetail(st1, st1.sel) ELSE {})

MountCalls(st) ==
    {Call("disk", None, None, "page")} \cup ListEffects(st) \cup LoadDetail(st, st.sel)

(* The store becomes st1; C are the requests still in flight, cs the new ones. *)
Becomes(st1, C, cs) ==
    /\ store' = st1
    /\ storage' = Merged(st1) /\ writer' = "here"
    /\ calls' = Sent(Sent(C, cs), PageEffects(store, st1))
    /\ UNCHANGED old

(* The page left behind: nobody needs its store once nothing is in flight for it. *)
LeftBehind(C, st) == IF \E c \in C : c.at = "left" THEN st ELSE Fresh

(* The store left behind becomes st1, with no page to run effects. *)
BecomesLeft(st1, C, cs) ==
    /\ calls' = Sent(C, {[c EXCEPT !.at = "left"] : c \in cs})
    /\ old' = LeftBehind(calls', st1)
    /\ storage' = Merged(st1) /\ writer' = "left"
    /\ UNCHANGED store

Busy(op) == \E c \in calls : c.at = "here" /\ c.by = op

(***************************************************************************)
(* What the user does.  An open dialog takes every click.                  *)
(***************************************************************************)
Acts ==
    /\ gestures < MaxGestures /\ Cardinality({c \in calls : c.at = "here"}) <= MaxInFlight
    /\ gestures' = gestures + 1
    /\ UNCHANGED table

Gesture == Acts /\ UNCHANGED elsewhere

OnPage == Gesture /\ store.dialog = "none"

ClickSection(s) ==
    /\ OnPage /\ store.disk
    /\ Becomes(SetActiveSection(store, s), calls,
               LoadUnlisted(store, s) \cup LoadDeployed(s) \cup LoadDetail(store, StoredVersion(store, s)))

ClickTemplate(f) ==
    /\ OnPage /\ store.disk
    /\ Becomes(SelectTemplate(store, f), calls,
               IF SectionOf[f] = store.active THEN {}
               ELSE LoadDetail(store, StoredVersion(store, SectionOf[f])))

Offered == IF store.active = None \/ store.list[store.active] = None THEN {}
           ELSE DOMAIN store.list[store.active]

RequestSelectVersion(v) ==
    /\ OnPage /\ v \in Offered /\ v # store.sel
    /\ IF HasUnsavedChangesInSection(store, store.active)
       THEN Becomes([store EXCEPT !.dialog = "switch", !.target = v], calls, {})
       ELSE Becomes(SelectVersion(store, v), calls, LoadDetail(store, v))

RequestSelectDefault ==
    /\ OnPage /\ store.active # None
    /\ IF HasUnsavedChangesInSection(store, store.active)
       THEN Becomes([store EXCEPT !.dialog = "default", !.target = None], calls, {})
       ELSE Becomes(SelectDefault(store), calls, {})

Edit(text) ==
    /\ OnPage /\ store.template # None /\ text # store.edited
    /\ Becomes(UpdateContent(store, store.template, text), calls, {})

RequestResetTemplate ==
    /\ OnPage /\ store.template # None /\ store.drafts[store.template] # None
    /\ Becomes([store EXCEPT !.dialog = "reset"], calls, {})

CreateVersion ==
    /\ OnPage /\ ~Busy("create") /\ store.active # None /\ store.disk
    /\ HasUnsavedChangesInSection(store, store.active)
    /\ Becomes(store, calls,
               {[Call("create", store.active, None, "create") EXCEPT !.text =
                    [f \in Files |-> IF SectionOf[f] = store.active /\ store.drafts[f] # None
                                    THEN store.drafts[f] ELSE Disk[f]]]})

CanDeploy(v) == ~Busy("deploy") /\ v \in Offered /\ ~store.list[store.active][v]

DeployVersion ==
    /\ OnPage /\ CanDeploy(store.sel)
    /\ Becomes(store, calls, {Call("deploy", store.active, store.sel, "deploy")})

UndeployVersion ==
    /\ OnPage /\ ~Busy("deploy") /\ store.active # None /\ store.isDef
    /\ store.deployed \notin {None, Empty}
    /\ Becomes(store, calls, {Call("undeploy", store.active, None, "deploy")})

RequestDeleteVersion ==
    /\ OnPage /\ CanDeploy(store.sel)
    /\ Becomes([store EXCEPT !.dialog = "delete", !.target = store.sel], calls, {})

CancelDialog ==
    /\ Gesture /\ store.dialog # "none" /\ ~Busy("delete")
    /\ Becomes(CloseConfirmDialog(store), calls, {})

DeleteVersion ==
    /\ store.dialog = "delete" /\ ~Busy("delete")
    /\ Becomes(store, calls,
               {[Call("delete", None, store.target, "delete") EXCEPT !.read =
                    [sel |-> store.sel, selBy |-> store.selBy, defBy |-> store.defBy]]})

ConfirmAction ==
    /\ Gesture
    /\ \/ /\ store.dialog = "switch"
          /\ Becomes(CloseConfirmDialog(SelectVersion(store, store.target)), calls,
                     LoadDetail(store, store.target))
       \/ /\ store.dialog = "default"
          /\ Becomes(CloseConfirmDialog(SelectDefault(store)), calls, {})
       \/ /\ store.dialog = "reset"
          /\ Becomes(CloseConfirmDialog(IF store.template = None THEN store ELSE ResetTemplate(store)),
                     calls, {})
       \/ DeleteVersion

Writes == {"create", "deploy", "undeploy", "delete"}

(* The browser loads the page anew: no answer of an old one is delivered. *)
Reload ==
    /\ Gesture
    /\ store' = storage /\ old' = Fresh
    /\ writer' = "here" /\ UNCHANGED storage
    /\ calls' = MountCalls(storage)
                \cup {[c EXCEPT !.at = "gone"] : c \in {d \in calls : d.op \in Writes /\ ~d.answered}}

(* To another page of the app and back; one page at a time is left behind. *)
Navigate ==
    /\ Acts /\ elsewhere < MaxElsewhere
    /\ elsewhere' = elsewhere + 1
    /\ \A c \in calls : c.at # "left"
    /\ store' = storage
    /\ writer' = "here" /\ UNCHANGED storage
    /\ calls' = MountCalls(storage)
                \cup {[c EXCEPT !.at = IF @ = "here" THEN "left" ELSE @] : c \in calls}
    /\ old' = LeftBehind(calls', store)

User ==
    \/ \E s \in Sections : ClickSection(s)
    \/ \E f \in Files : ClickTemplate(f)
    \/ \E v \in Versions : RequestSelectVersion(v)
    \/ RequestSelectDefault
    \/ \E text \in Texts : Edit(text)
    \/ RequestResetTemplate
    \/ CreateVersion \/ DeployVersion \/ UndeployVersion \/ RequestDeleteVersion
    \/ ConfirmAction \/ CancelDialog \/ Reload \/ Navigate

(***************************************************************************)
(* The server answers a request; then the answer is delivered, or lost.    *)
(***************************************************************************)
Answered(c, ok, list) ==
    /\ calls' = (calls \ {c}) \cup
                (IF c.at = "gone" THEN {}
                 ELSE {[c EXCEPT !.answered = TRUE, !.ok = ok, !.list = list]})
    /\ UNCHANGED <<store, old, storage, writer, gestures, elsewhere>>

Serve(c) ==
    /\ c \in calls /\ ~c.answered
    /\ \/ /\ c.op = "list"
          /\ Answered(c, TRUE, Listed(table, c.sec)) /\ UNCHANGED table
       \/ /\ c.op = "detail"
          /\ Answered(c, table[c.ver].there, NoList) /\ UNCHANGED table
       \/ /\ c.op = "create"
          /\ \E v \in NextVersion(table) : table' = Created(table, v, c.sec, c.text)
          /\ Answered(c, TRUE, NoList)
       \/ /\ c.op = "deploy"
          /\ table' = IF table[c.ver].there THEN Deploys(table, c.ver) ELSE table
          /\ Answered(c, table[c.ver].there, NoList)
       \/ /\ c.op = "undeploy"
          /\ table' = Undeployed(table, c.sec)
          /\ Answered(c, TRUE, NoList)
       \/ /\ c.op = "delete"
          /\ LET may == table[c.ver].there /\ ~table[c.ver].live
             IN  /\ table' = IF may THEN Deleted(table, c.ver) ELSE table
                 /\ Answered(c, may, NoList)

(* deleteVersion ends, however it ends, and its dialog closes. *)
DialogGone(st) == [st EXCEPT !.dialog = "none"]

AfterDelete(st, c) == IF c.by = "delete" THEN DialogGone(st) ELSE st

StoreOf(c) == IF c.at = "left" THEN old ELSE store

Lands(c, st1, cs) ==
    \/ c.at = "here" /\ Becomes(st1, calls \ {c}, cs)
    \/ c.at = "left" /\ BecomesLeft(st1, calls \ {c}, cs)

Deliver(c) ==
    /\ c \in calls /\ c.at # "gone" /\ (c.ok \/ c.op \in {"disk", "deployed"})
    /\ UNCHANGED <<table, gestures, elsewhere>>
    /\ LET from == StoreOf(c)
       IN  \/ /\ c.op = "disk"
              /\ LET st == LoadedDiskTemplates(from)
                 IN  Lands(c, st, IF st.active = from.active THEN {} ELSE LoadDetail(st, st.sel))
           \/ /\ c.op = "list"
              /\ LET st == AfterDelete(LoadedVersions(from, c.sec, c.list), c)
                 IN  Lands(c, st, IF c.at = "here" THEN ListEffects(st) ELSE {})
           \/ /\ c.op = "deployed"
              /\ \E v \in Deployed(table, c.sec) : Lands(c, [from EXCEPT !.deployed = v], {})
           \/ /\ c.op = "detail"
              /\ Lands(c, LoadedDetail(from, c.ver), {})
           \/ /\ c.op = "create"
              /\ Lands(c, CreatedVersion(from), {Call("list", c.sec, None, "create")})
           \/ /\ c.op \in {"deploy", "undeploy"}
              /\ calls' = Sent(calls \ {c}, {[d EXCEPT !.at = c.at] :
                              d \in {Call("list", c.sec, None, "deploy"),
                                     Call("deployed", c.sec, None, "deploy")}})
              /\ UNCHANGED <<store, old, storage, writer>>
           \/ /\ c.op = "delete"
              /\ Lands(c, DeletedVersion(from, c.ver, c.read),
                       {Call("list", from.active, None, "delete")})

(* The server refused, or the request or its answer was lost. *)
Fail(c) ==
    /\ c \in calls /\ c.at # "gone"
    /\ UNCHANGED <<table, gestures, elsewhere>>
    /\ Lands(c, IF c.op = "detail" THEN DetailFailed(StoreOf(c)) ELSE AfterDelete(StoreOf(c), c), {})

Colleague ==
    /\ elsewhere < MaxElsewhere
    /\ elsewhere' = elsewhere + 1
    /\ \/ \E v \in NextVersion(table), s \in Sections, text \in Written :
             table' = Created(table, v, s, [f \in Files |-> text])
       \/ \E v \in Versions : table[v].there /\ table' = Deploys(table, v)
       \/ \E s \in Sections : table' = Undeployed(table, s)
       \/ \E v \in Versions : table[v].there /\ ~table[v].live /\ table' = Deleted(table, v)
    /\ UNCHANGED <<store, old, storage, writer, calls, gestures>>

(* A first visit; a colleague may have saved a version before. *)
Init ==
    /\ \E text \in Written, saved \in SUBSET {1} :
          table = [v \in Versions |->
                      IF v \in saved
                      THEN [there |-> TRUE, sec |-> Assistant, live |-> FALSE,
                            text |-> [f \in Files |-> text]]
                      ELSE NoVersion]
    /\ store = Merged(Fresh) /\ old = Fresh
    /\ storage = store /\ writer = "here"
    /\ calls = MountCalls(store)
    /\ gestures = 0 /\ elsewhere = 0

Next ==
    \/ User
    \/ \E c \in calls : Serve(c) \/ Deliver(c) \/ Fail(c)
    \/ Colleague

Spec == Init /\ [][Next]_vars

(* Requests are answered or fail, and answers are delivered. *)
FairSpec ==
    /\ Spec
    /\ WF_vars(\E c \in calls : Serve(c))
    /\ WF_vars(\E c \in calls : Deliver(c))
    /\ WF_vars(\E c \in calls : c.answered /\ ~c.ok /\ Fail(c))

-----------------------------------------------------------------------------
Lists == UNION {[V -> BOOLEAN] : V \in SUBSET Versions}

Reads == [sel : Versions \cup {None}, selBy : [Sections -> Versions \cup {None}],
          defBy : [Sections -> BOOLEAN]]

Requests ==
    [op : {"disk", "list", "deployed", "detail", "create", "deploy", "undeploy", "delete"},
     by : {"page", "create", "deploy", "delete"}, at : {"here", "left", "gone"},
     sec : Sections \cup {None}, ver : Versions \cup {None}, copy : 1..MaxCopies,
     text : [Files -> Texts \cup {Empty}], answered : BOOLEAN, ok : BOOLEAN,
     list : Lists,
     read : Reads]

Stores ==
    [disk : BOOLEAN,
     list : [Sections -> {None} \cup Lists],
     deployed : Versions \cup {None, Empty}, detail : Versions \cup {None},
     active : Sections \cup {None}, sel : Versions \cup {None}, isDef : BOOLEAN,
     selBy : [Sections -> Versions \cup {None}], defBy : [Sections -> BOOLEAN],
     template : Files \cup {None}, edited : Texts \cup {Empty},
     drafts : [Files -> Texts \cup {Empty, None}],
     dialog : {"none", "switch", "default", "reset", "delete"}, target : Versions \cup {None}]

Tables == [Versions -> [there : BOOLEAN, sec : Sections \cup {None}, live : BOOLEAN,
                        text : [Files -> Texts \cup {Empty}]]]

(* The rows, the stores and every request in flight have their types. *)
TypeOK ==
    /\ table \in Tables
    /\ store \in Stores /\ old \in Stores /\ storage \in Stores
    /\ writer \in {"here", "left"}
    /\ calls \subseteq Requests
    /\ gestures \in 0..MaxGestures /\ elsewhere \in 0..MaxElsewhere

(* The editor shows the draft of the open template, whatever arrives late   *)
(* (loadVersionDetail's hasDraft) and across reloads (merge).               *)
EditorShowsDraft ==
    store.template # None /\ store.drafts[store.template] # None
        => store.edited = store.drafts[store.template]

(* The version in the toolbar is the one remembered for the open section.   *)
(* deleteVersion restores selections read before its request, and lists and *)
(* details that arrive late reset one or both; none may part the two.       *)
SelectionAgrees ==
    store.active # None =>
        /\ store.sel = StoredVersion(store, store.active)
        /\ store.isDef = store.defBy[store.active]

SaveReturns == \E c \in calls : c.op = "create" /\ c.at = "here" /\ Deliver(c)

(* The draft of a template is changed by typing in it, by a confirmed reset *)
(* of it, by a confirmed switch of its section to other instructions, and   *)
(* by a save; no other step, of the user or of an answer, touches it.  The  *)
(* one exception: a page shown anew (Reload, Navigate) finds the drafts of  *)
(* the page left before it, if an answer to that one was the last to write  *)
(* localStorage.                                                            *)
DraftsAreKept ==
    [][\A f \in Files :
          store.drafts[f] # None /\ store'.drafts[f] # store.drafts[f] =>
             \/ store.template = f /\ \E text \in Texts : Edit(text)
             \/ store.template = f /\ store.dialog = "reset" /\ ConfirmAction
             \/ SectionOf[f] = store.active /\ store.dialog \in {"switch", "default"} /\ ConfirmAction
             \/ SaveReturns
             \/ writer = "left" /\ (Reload \/ Navigate)]_vars

(* A save takes off the list of "Modified instructions" (save-panel.tsx)    *)
(* only the drafts it wrote into the new version.                           *)
SavesDropOnlyWhatTheyWrote ==
    [][\A c \in calls : c.op = "create" /\ c.at = "here" /\ Deliver(c) =>
          \A f \in Files : store.drafts[f] # store'.drafts[f] =>
             SectionOf[f] = c.sec /\ c.text[f] = store.drafts[f]]_vars

(* The selected version is shown in the end, with answers of other versions *)
(* arriving in any order, unless the selection is reset (the page's reload  *)
(* effect); the user does not choose for ever.                              *)
SelectedIsShown == store.sel # None ~> (store.detail = store.sel \/ store.sel = None)
=============================================================================
