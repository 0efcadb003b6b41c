---------------------- MODULE InstructionsStore_proofs ----------------------
(***************************************************************************)
(* What the instructions store keeps, for all sections, templates, bounds  *)
(* and interleavings of answers.                                           *)
(*                                                                         *)
(* Each update of the store keeps a good store good (Keeps...).  The hard  *)
(* one is the return of a deletion, which writes back what it had read     *)
(* before its request: it does no harm because its dialog, still open,     *)
(* keeps every click off the page, so that what it read is the selection   *)
(* of today, or was reset meanwhile like today's (Restorable).  The store  *)
(* of the page left behind is as good as the page's own, so what its late  *)
(* answers write into localStorage makes a good store for the next page.   *)
(***************************************************************************)
EXTENDS InstructionsStore, TLAPS

(* No version is remembered exactly where the default is. *)
Remembered(r) == \A s \in Sections : r.defBy[s] <=> r.selBy[s] = None

Shows(st) ==
    st.template # None /\ st.drafts[st.template] # None => st.edited = st.drafts[st.template]

Agrees(st) ==
    st.active # None =>
        st.sel = StoredVersion(st, st.active) /\ st.isDef = st.defBy[st.active]

GoodStore(st) ==
    /\ st \in Stores
    /\ Shows(st)
    /\ Agrees(st)
    /\ Remembered(st)
    /\ st.template # None => st.active = SectionOf[st.template]

(* What an open dialog is about: a section, a version to switch to, or to  *)
(* delete, which is the selected one unless the selection was reset.       *)
DialogOK(st) ==
    /\ st.dialog \in {"switch", "default", "delete"} => st.active # None
    /\ st.dialog \in {"switch", "delete"} => st.target # None
    /\ st.dialog = "delete" => st.sel \in {st.target, None}

Restorable(c, st) ==
    /\ st.dialog = "delete" /\ st.active # None /\ c.ver = st.target
    /\ c.read.sel = c.read.selBy[st.active]
    /\ c.read.sel \in {c.ver, None}
    /\ c.read.sel = None => st.sel = None

GoodCall(c) ==
    /\ c \in Requests
    /\ Remembered(c.read)
    /\ c.ok => c.answered
    /\ c.at = "gone" => ~c.answered
    /\ c.op = "delete" => c.by = "delete" /\ c.ver # None
    /\ c.by = "delete" => c.op \in {"delete", "list"}
    /\ c.op \in {"detail", "deploy"} => c.ver # None
    /\ c.op \in {"list", "create", "deploy", "undeploy"} => c.sec # None

(* A page has at most one deletion in flight, and its store can take what it read. *)
PageInv(C, p, st) ==
    /\ \A c \in C : c.at = p /\ c.op = "delete" => Restorable(c, st)
    /\ \A c, e \in C : c.at = p /\ e.at = p /\ c.by = "delete" /\ e.by = "delete" => c = e

CallsInv ==
    /\ \A c \in calls : GoodCall(c)
    /\ PageInv(calls, "here", store)
    /\ PageInv(calls, "left", old)

(* What the next page reads is good, and the drafts are those of the page  *)
(* unless the one left behind wrote last.                                  *)
StorageInv ==
    /\ writer \in {"here", "left"}
    /\ GoodStore(storage) /\ storage.dialog = "none"
    /\ writer = "here" => storage.drafts = store.drafts

IInv ==
    /\ table \in Tables /\ gestures \in 0..MaxGestures /\ elsewhere \in 0..MaxElsewhere
    /\ GoodStore(store) /\ DialogOK(store)
    /\ GoodStore(old) /\ DialogOK(old)
    /\ StorageInv
    /\ CallsInv

-----------------------------------------------------------------------------
(* The updates of the store. *)
LEMMA ContentTyped ==
    ASSUME table \in Tables, NEW f \in Files, NEW v \in Versions \cup {None}, NEW disk \in BOOLEAN
    PROVE  FindTemplateContent(f, v, disk) \in Texts \cup {Empty}
  BY InstructionsConstants DEF Tables, FindTemplateContent

LEMMA NoneIsNothing ==
    /\ None \notin Sections /\ None \notin Files /\ None \notin Texts /\ None # Empty
    /\ None \notin Versions
<1>1. Versions \subseteq Nat
  BY InstructionsConstants DEF Versions
<1> QED
  BY <1>1, InstructionsConstants

LEMMA KeepsSetActiveSection ==
    ASSUME NEW st, GoodStore(st), NEW s \in Sections
    PROVE  GoodStore(SetActiveSection(st, s))
<1> DEFINE to == SetActiveSection(st, s)
<1>1. StoredVersion(st, s) \in Versions \cup {None}
  BY DEF GoodStore, Stores, StoredVersion
<1>2. to \in Stores
  BY <1>1 DEF GoodStore, Stores, SetActiveSection
<1>3. Shows(to) /\ Agrees(to) /\ Remembered(to) /\ to.template = None
  BY DEF GoodStore, Stores, SetActiveSection, Shows, Agrees, Remembered, StoredVersion
<1> QED
  BY <1>2, <1>3 DEF GoodStore

LEMMA KeepsSelectTemplate ==
    ASSUME NEW st, GoodStore(st), table \in Tables, NEW f \in Files
    PROVE  GoodStore(SelectTemplate(st, f))
<1> DEFINE s  == SectionOf[f]
           at == IF s = st.active THEN st
                 ELSE [st EXCEPT !.active = s, !.sel = StoredVersion(st, s),
                                 !.isDef = st.defBy[s], !.detail = None]
           ed == IF st.drafts[f] # None THEN st.drafts[f] ELSE GetBaseContent(at, f)
           to == SelectTemplate(st, f)
<1>1. StoredVersion(st, s) \in Versions \cup {None} /\ s \in Sections
  BY InstructionsConstants DEF GoodStore, Stores, StoredVersion
<1>2. at \in Stores /\ at.active = s /\ at.drafts = st.drafts
  <2>1. CASE s = st.active
    BY <2>1 DEF GoodStore
  <2>2. CASE s # st.active
    BY <1>1, <2>2 DEF GoodStore, Stores
  <2> QED
    BY <2>1, <2>2
<1>3. at.selBy = st.selBy /\ at.defBy = st.defBy
  BY DEF GoodStore, Stores
<1>4. Agrees(at) /\ Remembered(at)
  <2>1. CASE s = st.active
    BY <2>1 DEF GoodStore
  <2>2. CASE s # st.active
    <3>1. at.sel = StoredVersion(st, s) /\ at.isDef = st.defBy[s]
      BY <2>2 DEF GoodStore, Stores
    <3> QED
      BY <1>2, <1>3, <3>1 DEF GoodStore, Agrees, Remembered, StoredVersion
  <2> QED
    BY <2>1, <2>2
<1>5. ed \in Texts \cup {Empty}
  <2>1. GetBaseContent(at, f) \in Texts \cup {Empty}
    BY <1>2, ContentTyped DEF GetBaseContent, Stores
  <2>2. st.drafts[f] \in Texts \cup {Empty, None}
    BY DEF GoodStore, Stores
  <2> QED
    BY <2>1, <2>2
<1> HIDE DEF ed
<1>6. to = [at EXCEPT !.template = f, !.edited = ed]
  BY DEF SelectTemplate, ed
<1> HIDE DEF at, to
<1>7. to \in Stores
  BY <1>2, <1>5, <1>6 DEF Stores
<1>8. Shows(to)
  <2>1. to.template = f /\ to.drafts = st.drafts /\ to.edited = ed
    BY <1>2, <1>6 DEF Stores
  <2> QED
    BY <2>1 DEF Shows, ed
<1>9. Agrees(to) /\ Remembered(to) /\ to.active = s /\ to.template = f
  BY <1>2, <1>4, <1>6 DEF Agrees, Remembered, StoredVersion, Stores
<1> QED
  BY <1>7, <1>8, <1>9 DEF GoodStore, to

LEMMA DraftsOutsideTyped ==
    ASSUME NEW st, GoodStore(st), NEW s
    PROVE  DraftsOutside(st, s) \in [Files -> Texts \cup {Empty, None}]
  BY DEF DraftsOutside, GoodStore, Stores

LEMMA KeepsSelectVersion ==
    ASSUME NEW st, GoodStore(st), NEW v \in Versions, st.active # None
    PROVE  GoodStore(SelectVersion(st, v))
<1> DEFINE to == SelectVersion(st, v)
<1>1. st.active \in Sections
  BY DEF GoodStore, Stores
<1>2. to \in Stores
  <2> DEFINE dr == DraftsOutside(st, st.active)
  <2>1. dr \in [Files -> Texts \cup {Empty, None}]
    BY DraftsOutsideTyped
  <2> HIDE DEF dr
  <2> QED
    BY <1>1, <2>1 DEF GoodStore, Stores, SelectVersion, dr
<1>3. to.template = None /\ to.active = st.active /\ to.sel = v /\ to.isDef = FALSE
  BY DEF GoodStore, Stores, SelectVersion
<1>4. /\ to.selBy = [st.selBy EXCEPT ![st.active] = v]
      /\ to.defBy = [st.defBy EXCEPT ![st.active] = FALSE]
  BY DEF GoodStore, Stores, SelectVersion
<1>5. st.selBy \in [Sections -> Versions \cup {None}] /\ st.defBy \in [Sections -> BOOLEAN]
  BY DEF GoodStore, Stores
<1> HIDE DEF to
<1>6. Remembered(to)
  BY <1>1, <1>4, <1>5, NoneIsNothing DEF Remembered, GoodStore
<1> QED
  BY <1>1, <1>2, <1>3, <1>4, <1>5, <1>6 DEF GoodStore, Shows, Agrees, StoredVersion, to

LEMMA KeepsSelectDefault ==
    ASSUME NEW st, GoodStore(st), st.active # None
    PROVE  GoodStore(SelectDefault(st))
<1> DEFINE to == SelectDefault(st)
<1>1. st.active \in Sections
  BY DEF GoodStore, Stores
<1>2. to \in Stores
  <2> DEFINE dr == DraftsOutside(st, st.active)
  <2>1. dr \in [Files -> Texts \cup {Empty, None}]
    BY DraftsOutsideTyped
  <2> HIDE DEF dr
  <2> QED
    BY <1>1, <2>1 DEF GoodStore, Stores, SelectDefault, dr
<1>3. to.template = None /\ to.active = st.active /\ to.sel = None /\ to.isDef = TRUE
  BY DEF GoodStore, Stores, SelectDefault
<1>4. /\ to.selBy = [st.selBy EXCEPT ![st.active] = None]
      /\ to.defBy = [st.defBy EXCEPT ![st.active] = TRUE]
  BY DEF GoodStore, Stores, SelectDefault
<1>5. st.selBy \in [Sections -> Versions \cup {None}] /\ st.defBy \in [Sections -> BOOLEAN]
  BY DEF GoodStore, Stores
<1> HIDE DEF to
<1>6. Remembered(to)
  BY <1>1, <1>4, <1>5 DEF Remembered, GoodStore
<1> QED
  BY <1>1, <1>2, <1>3, <1>4, <1>5, <1>6 DEF GoodStore, Shows, Agrees, StoredVersion, to

(* Updates that touch neither the selection nor the open template. *)
LEMMA KeepsOtherFields ==
    ASSUME NEW st, GoodStore(st), NEW to \in Stores, Shows(to),
           to.active = st.active, to.template = st.template, to.sel = st.sel,
           to.isDef = st.isDef, to.selBy = st.selBy, to.defBy = st.defBy
    PROVE  GoodStore(to)
  BY DEF GoodStore, Agrees, Remembered, StoredVersion

LEMMA KeepsUpdateContent ==
    ASSUME NEW st, GoodStore(st), NEW text \in Texts, st.template # None
    PROVE  GoodStore(UpdateContent(st, st.template, text))
<1> DEFINE f  == st.template
           to == UpdateContent(st, f, text)
           dr == IF text = GetBaseContent(st, f) THEN None ELSE text
<1>1. f \in Files /\ st.drafts \in [Files -> Texts \cup {Empty, None}] /\ dr \in Texts \cup {None}
  BY DEF GoodStore, Stores
<1> HIDE DEF dr
<1>2. to = [st EXCEPT !.edited = text, !.drafts[f] = dr]
  BY DEF UpdateContent, dr
<1>3. to \in Stores
  <2> DEFINE all == [st.drafts EXCEPT ![f] = dr]
  <2>1. all \in [Files -> Texts \cup {Empty, None}]
    BY <1>1
  <2>2. to = [st EXCEPT !.edited = text, !.drafts = all]
    BY <1>2
  <2> HIDE DEF all, to
  <2> QED
    BY <2>1, <2>2 DEF GoodStore, Stores
<1>4. to.edited = text /\ to.drafts[f] = dr /\ to.template = f
  BY <1>1, <1>2 DEF GoodStore, Stores
<1>5. Shows(to)
  BY <1>4 DEF Shows, dr
<1> QED
  BY <1>2, <1>3, <1>5, KeepsOtherFields DEF GoodStore, Stores

LEMMA KeepsResetTemplate ==
    ASSUME NEW st, GoodStore(st), table \in Tables, st.template # None
    PROVE  GoodStore(ResetTemplate(st))
<1> DEFINE f  == st.template
           ed == GetBaseContent(st, f)
           to == ResetTemplate(st)
<1>1. f \in Files /\ st.drafts \in [Files -> Texts \cup {Empty, None}]
  BY DEF GoodStore, Stores
<1>2. ed \in Texts \cup {Empty}
  BY <1>1, ContentTyped DEF GetBaseContent, GoodStore, Stores
<1> HIDE DEF ed
<1>3. to = [st EXCEPT !.edited = ed, !.drafts[f] = None]
  BY DEF ResetTemplate, ed
<1>4. to \in Stores
  <2> DEFINE all == [st.drafts EXCEPT ![f] = None]
  <2>1. all \in [Files -> Texts \cup {Empty, None}]
    BY <1>1
  <2>2. to = [st EXCEPT !.edited = ed, !.drafts = all]
    BY <1>3
  <2> HIDE DEF all, to
  <2> QED
    BY <1>2, <2>1, <2>2 DEF GoodStore, Stores
<1>5. to.drafts[f] = None /\ to.template = f
  BY <1>1, <1>3 DEF GoodStore, Stores
<1>6. Shows(to)
  BY <1>5 DEF Shows
<1> QED
  BY <1>3, <1>4, <1>6, KeepsOtherFields DEF GoodStore, Stores

LEMMA KeepsCloseDialog ==
    ASSUME NEW st, GoodStore(st)
    PROVE  GoodStore(CloseConfirmDialog(st))
<1> DEFINE to == CloseConfirmDialog(st)
<1>1. st \in Stores
  BY DEF GoodStore
<1>2. to \in Stores
  BY <1>1 DEF Stores, CloseConfirmDialog
<1>3. /\ to.active = st.active /\ to.template = st.template /\ to.sel = st.sel
      /\ to.isDef = st.isDef /\ to.selBy = st.selBy /\ to.defBy = st.defBy
      /\ to.edited = st.edited /\ to.drafts = st.drafts
  BY <1>1 DEF Stores, CloseConfirmDialog
<1>4. Shows(to)
  BY <1>3 DEF GoodStore, Shows
<1> QED
  BY <1>2, <1>3, <1>4, KeepsOtherFields

LEMMA KeepsDialogGone ==
    ASSUME NEW st, GoodStore(st)
    PROVE  GoodStore(DialogGone(st))
<1> DEFINE to == DialogGone(st)
<1>1. st \in Stores
  BY DEF GoodStore
<1>2. to \in Stores
  BY <1>1 DEF Stores, DialogGone
<1>3. /\ to.active = st.active /\ to.template = st.template /\ to.sel = st.sel
      /\ to.isDef = st.isDef /\ to.selBy = st.selBy /\ to.defBy = st.defBy
      /\ to.edited = st.edited /\ to.drafts = st.drafts
  BY <1>1 DEF Stores, DialogGone
<1>4. Shows(to)
  BY <1>3 DEF GoodStore, Shows
<1> QED
  BY <1>2, <1>3, <1>4, KeepsOtherFields

LEMMA KeepsOpenDialog ==
    ASSUME NEW st, GoodStore(st), NEW v \in Versions \cup {None},
           NEW d \in {"switch", "default", "reset", "delete"}
    PROVE  GoodStore([st EXCEPT !.dialog = d, !.target = v])
<1> DEFINE to == [st EXCEPT !.dialog = d, !.target = v]
<1>1. st \in Stores
  BY DEF GoodStore
<1>2. d \in {"none", "switch", "default", "reset", "delete"}
  OBVIOUS
<1>3. to \in Stores
  BY <1>1, <1>2 DEF Stores
<1>4. /\ to.active = st.active /\ to.template = st.template /\ to.sel = st.sel
      /\ to.isDef = st.isDef /\ to.selBy = st.selBy /\ to.defBy = st.defBy
      /\ to.edited = st.edited /\ to.drafts = st.drafts
  BY <1>1 DEF Stores
<1>5. Shows(to)
  BY <1>4 DEF GoodStore, Shows
<1> QED
  BY <1>3, <1>4, <1>5, KeepsOtherFields

LEMMA KeepsCreatedVersion ==
    ASSUME NEW st, GoodStore(st)
    PROVE  GoodStore(CreatedVersion(st))
<1> DEFINE to == CreatedVersion(st)
<1>1. NoDrafts \in [Files -> Texts \cup {Empty, None}]
  BY DEF NoDrafts
<1>2. to \in Stores
  BY <1>1 DEF GoodStore, Stores, CreatedVersion
<1>4. to.template = None /\ to.active = st.active /\ to.sel = st.sel
  BY DEF GoodStore, Stores, CreatedVersion
<1>3. to.isDef = st.isDef /\ to.selBy = st.selBy /\ to.defBy = st.defBy
  BY DEF GoodStore, Stores, CreatedVersion
<1> HIDE DEF to
<1> QED
  BY <1>2, <1>3, <1>4 DEF GoodStore, Shows, Agrees, Remembered, StoredVersion, to

-----------------------------------------------------------------------------
(* What arrives by itself leaves the dialog and the section, and a section  *)
(* has the selection it had, or none.                                      *)
Quiet(st, to) ==
    /\ GoodStore(to)
    /\ to.dialog = st.dialog /\ to.target = st.target
    /\ st.active # None => to.active = st.active
    /\ st.active # None => to.sel \in {st.sel, None}

LEMMA QuietLoadedDetail ==
    ASSUME NEW st, GoodStore(st), table \in Tables, NEW v \in Versions
    PROVE  Quiet(st, LoadedDetail(st, v)) /\ LoadedDetail(st, v).drafts = st.drafts
<1> DEFINE ed == IF KeepsDraft(st) THEN st.edited
                 ELSE FindTemplateContent(st.template, v, st.disk)
           to == LoadedDetail(st, v)
<1>1. ed \in Texts \cup {Empty}
  BY ContentTyped DEF KeepsDraft, GoodStore, Stores
<1> HIDE DEF ed
<1>2. to = [st EXCEPT !.detail = v, !.edited = ed]
  BY DEF LoadedDetail, ed, GoodStore, Stores
<1>3. to \in Stores
  BY <1>1, <1>2 DEF GoodStore, Stores
<1>4. to.template = st.template /\ to.drafts = st.drafts /\ to.edited = ed
  BY <1>2 DEF GoodStore, Stores
<1>5. Shows(to)
  BY <1>4 DEF Shows, GoodStore, ed, KeepsDraft
<1>6. GoodStore(to)
  BY <1>2, <1>3, <1>5, KeepsOtherFields DEF GoodStore, Stores
<1> QED
  BY <1>2, <1>6 DEF Quiet, GoodStore, Stores

LEMMA QuietDeployed ==
    ASSUME NEW st, GoodStore(st), NEW v \in Versions \cup {Empty}
    PROVE  /\ Quiet(st, [st EXCEPT !.deployed = v])
           /\ [st EXCEPT !.deployed = v].drafts = st.drafts
<1> DEFINE to == [st EXCEPT !.deployed = v]
<1>1. to \in Stores
  BY DEF GoodStore, Stores
<1>2. Shows(to)
  BY DEF GoodStore, Stores, Shows
<1>3. GoodStore(to)
  BY <1>1, <1>2, KeepsOtherFields DEF GoodStore, Stores
<1> QED
  BY <1>3 DEF Quiet, GoodStore, Stores

LEMMA QuietDetailFailed ==
    ASSUME NEW st, GoodStore(st)
    PROVE  Quiet(st, DetailFailed(st)) /\ DetailFailed(st).drafts = st.drafts
<1> DEFINE to == DetailFailed(st)
           sb == IF st.active = None THEN st.selBy ELSE [st.selBy EXCEPT ![st.active] = None]
           db == IF st.active = None THEN st.defBy ELSE [st.defBy EXCEPT ![st.active] = TRUE]
<1>1. st.selBy \in [Sections -> Versions \cup {None}] /\ st.defBy \in [Sections -> BOOLEAN]
  BY DEF GoodStore, Stores
<1>2. sb \in [Sections -> Versions \cup {None}] /\ db \in [Sections -> BOOLEAN]
  BY <1>1
<1>3. \A s \in Sections : db[s] <=> sb[s] = None
  BY <1>1 DEF GoodStore, Remembered
<1>4. st.active # None => st.active \in Sections /\ sb[st.active] = None /\ db[st.active] = TRUE
  BY <1>1 DEF GoodStore, Stores
<1> HIDE DEF sb, db
<1>5. to = [st EXCEPT !.sel = None, !.detail = None, !.isDef = TRUE, !.selBy = sb, !.defBy = db]
  BY DEF DetailFailed, sb, db, GoodStore, Stores
<1> HIDE DEF to
<1>6. to \in Stores
  BY <1>2, <1>5 DEF GoodStore, Stores
<1>7. /\ to.sel = None /\ to.isDef = TRUE /\ to.selBy = sb /\ to.defBy = db
      /\ to.active = st.active /\ to.template = st.template /\ to.drafts = st.drafts
      /\ to.edited = st.edited /\ to.dialog = st.dialog /\ to.target = st.target
  BY <1>5 DEF GoodStore, Stores
<1>8. GoodStore(to)
  BY <1>3, <1>4, <1>6, <1>7 DEF GoodStore, Shows, Agrees, Remembered, StoredVersion
<1> QED
  BY <1>7, <1>8 DEF Quiet, to

LEMMA QuietLoadedVersions ==
    ASSUME NEW st, GoodStore(st), NEW s \in Sections, NEW list \in Lists
    PROVE  Quiet(st, LoadedVersions(st, s, list)) /\ LoadedVersions(st, s, list).drafts = st.drafts
<1> DEFINE to    == LoadedVersions(st, s, list)
           reset == st.selBy[s] # None /\ st.selBy[s] \notin DOMAIN list
           here  == reset /\ st.active = s
           same  == here /\ st.sel = st.selBy[s]
           ls == [st.list EXCEPT ![s] = list]
           sb == IF reset THEN [st.selBy EXCEPT ![s] = None] ELSE st.selBy
           db == IF reset THEN [st.defBy EXCEPT ![s] = TRUE] ELSE st.defBy
<1>1. /\ st.selBy \in [Sections -> Versions \cup {None}] /\ st.defBy \in [Sections -> BOOLEAN]
      /\ st.list \in [Sections -> {None} \cup Lists]
  BY DEF GoodStore, Stores
<1>2. /\ sb \in [Sections -> Versions \cup {None}] /\ db \in [Sections -> BOOLEAN]
      /\ ls \in [Sections -> {None} \cup Lists]
  BY <1>1
<1>3. \A u \in Sections : db[u] <=> sb[u] = None
  BY <1>1 DEF GoodStore, Remembered
<1>4. ASSUME here PROVE sb[st.active] = None /\ db[st.active] = TRUE /\ same
  <2>1. st.active = s /\ st.active # None /\ st.selBy[s] # None
    BY <1>4, NoneIsNothing
  <2>2. ~st.defBy[s] /\ st.sel = StoredVersion(st, s)
    BY <2>1 DEF GoodStore, Remembered, Agrees
  <2> QED
    BY <1>1, <1>4, <2>1, <2>2 DEF StoredVersion
<1>5. st.active # None /\ ~here => sb[st.active] = st.selBy[st.active] /\ db[st.active] = st.defBy[st.active]
  BY <1>1 DEF GoodStore, Stores
<1> HIDE DEF sb, db, ls
<1>6. to = [st EXCEPT !.list = ls, !.selBy = sb, !.defBy = db,
                      !.sel = IF same THEN None ELSE st.sel,
                      !.detail = IF same THEN None ELSE st.detail,
                      !.isDef = IF here THEN TRUE ELSE st.isDef]
  BY DEF LoadedVersions, sb, db, ls, GoodStore, Stores
<1> HIDE DEF to, here, same
<1>7. to \in Stores
  <2> DEFINE sl == IF same THEN None ELSE st.sel
             dt == IF same THEN None ELSE st.detail
             df == IF here THEN TRUE ELSE st.isDef
  <2>1. sl \in Versions \cup {None} /\ dt \in Versions \cup {None}
    BY DEF GoodStore, Stores
  <2>2. df \in BOOLEAN
    BY DEF GoodStore, Stores
  <2>3. to = [st EXCEPT !.list = ls, !.selBy = sb, !.defBy = db, !.sel = sl, !.detail = dt, !.isDef = df]
    BY <1>6
  <2> HIDE DEF sl, dt, df
  <2> QED
    BY <1>2, <2>1, <2>2, <2>3 DEF GoodStore, Stores
<1>8. /\ to.sel = (IF same THEN None ELSE st.sel) /\ to.isDef = (IF here THEN TRUE ELSE st.isDef)
      /\ to.selBy = sb /\ to.defBy = db
      /\ to.active = st.active /\ to.template = st.template /\ to.drafts = st.drafts
      /\ to.edited = st.edited /\ to.dialog = st.dialog /\ to.target = st.target
  BY <1>6 DEF GoodStore, Stores
<1>9. Agrees(to)
  <2>1. CASE here
    BY <1>4, <1>8, <2>1 DEF Agrees, StoredVersion
  <2>2. CASE ~here
    <3>1. to.sel = st.sel /\ to.isDef = st.isDef
      BY <1>8, <2>2 DEF same
    <3> QED
      BY <1>5, <1>8, <2>2, <3>1 DEF Agrees, StoredVersion, GoodStore
  <2> QED
    BY <2>1, <2>2
<1>10. GoodStore(to)
  BY <1>3, <1>7, <1>8, <1>9 DEF GoodStore, Shows, Remembered
<1> QED
  BY <1>8, <1>10 DEF Quiet, to

LEMMA SelectTemplateFrame ==
    ASSUME NEW st, GoodStore(st), NEW f \in Files
    PROVE  /\ SelectTemplate(st, f).dialog = st.dialog
           /\ SelectTemplate(st, f).target = st.target
           /\ SelectTemplate(st, f).drafts = st.drafts
           /\ SelectTemplate(st, f).active = SectionOf[f]
           /\ SectionOf[f] = st.active => SelectTemplate(st, f).sel = st.sel
<1> DEFINE s  == SectionOf[f]
           at == IF s = st.active THEN st
                 ELSE [st EXCEPT !.active = s, !.sel = StoredVersion(st, s),
                                 !.isDef = st.defBy[s], !.detail = None]
           ed == IF st.drafts[f] # None THEN st.drafts[f] ELSE GetBaseContent(at, f)
<1>1. /\ at.dialog = st.dialog /\ at.target = st.target /\ at.drafts = st.drafts /\ at.active = s
      /\ s = st.active => at.sel = st.sel
      /\ DOMAIN at = DOMAIN st
  BY DEF GoodStore, Stores
<1> HIDE DEF at, ed
<1>2. SelectTemplate(st, f) = [at EXCEPT !.template = f, !.edited = ed]
  BY DEF SelectTemplate, ed, at
<1> QED
  BY <1>1, <1>2 DEF GoodStore, Stores

LEMMA QuietLoadedDisk ==
    ASSUME NEW st, GoodStore(st), table \in Tables
    PROVE  Quiet(st, LoadedDiskTemplates(st)) /\ LoadedDiskTemplates(st).drafts = st.drafts
<1> DEFINE st1 == [st EXCEPT !.disk = TRUE]
<1>1. /\ st1.template = st.template /\ st1.active = st.active /\ st1.sel = st.sel
      /\ st1.dialog = st.dialog /\ st1.target = st.target /\ st1.drafts = st.drafts
  BY DEF GoodStore, Stores
<1>2. GoodStore(st1)
  <2>1. st \in Stores
    BY DEF GoodStore
  <2>2. st1 \in Stores
    BY <2>1 DEF Stores
  <2>3. /\ st1.isDef = st.isDef /\ st1.selBy = st.selBy /\ st1.defBy = st.defBy
        /\ st1.edited = st.edited
    BY <2>1 DEF Stores
  <2>4. Shows(st1)
    BY <1>1, <2>3 DEF GoodStore, Shows
  <2> QED
    BY <1>1, <2>2, <2>3, <2>4, KeepsOtherFields
<1> HIDE DEF st1
<1>3. ASSUME NEW f \in Files, st.active # None => SectionOf[f] = st.active
      PROVE  Quiet(st, SelectTemplate(st1, f)) /\ SelectTemplate(st1, f).drafts = st.drafts
  BY <1>1, <1>2, <1>3, KeepsSelectTemplate, SelectTemplateFrame DEF Quiet
<1>4. CASE st.template = None
  <2> DEFINE f == FirstFile[IF st.active = None THEN Assistant ELSE st.active]
  <2>1. f \in Files /\ (st.active # None => SectionOf[f] = st.active)
    BY InstructionsConstants DEF GoodStore, Stores
  <2> QED
    BY <1>3, <1>4, <2>1 DEF LoadedDiskTemplates, st1
<1>5. CASE st.template # None /\ st.edited = Empty
  BY <1>3, <1>5 DEF LoadedDiskTemplates, st1, GoodStore, Stores
<1>6. CASE st.template # None /\ st.edited # Empty
  BY <1>1, <1>2, <1>6 DEF LoadedDiskTemplates, st1, Quiet
<1> QED
  BY <1>4, <1>5, <1>6

(* The return of a deletion. *)
LEMMA QuietDeleted ==
    ASSUME NEW st, GoodStore(st), NEW c, GoodCall(c), c.op = "delete", Restorable(c, st),
           st.sel \in {st.target, None}
    PROVE  /\ Quiet(st, DeletedVersion(st, c.ver, c.read))
           /\ DeletedVersion(st, c.ver, c.read).drafts = st.drafts
<1> DEFINE to == DeletedVersion(st, c.ver, c.read)
           r  == c.read
           v  == c.ver
           a  == st.active
           sb == [s \in Sections |-> IF r.selBy[s] = v THEN None ELSE r.selBy[s]]
           db == [s \in Sections |-> r.selBy[s] = v \/ r.defBy[s]]
           df == IF r.sel = v THEN TRUE ELSE st.isDef
           dt == IF r.sel = v THEN None ELSE st.detail
<1>1. r \in Reads /\ v \in Versions /\ a \in Sections /\ Remembered(r)
  BY DEF GoodCall, Requests, Restorable, GoodStore, Stores
<1>2. sb \in [Sections -> Versions \cup {None}] /\ db \in [Sections -> BOOLEAN]
  BY <1>1 DEF Reads
<1>3. \A s \in Sections : db[s] <=> sb[s] = None
  BY <1>1 DEF Remembered, Reads
<1>4. sb[a] = None /\ db[a] = TRUE
  <2>1. sb[a] = None
    BY <1>1 DEF Restorable
  <2> QED
    BY <1>1, <1>2, <1>3, <2>1
<1>5. df = TRUE
  <2>1. CASE r.sel = v
    BY <2>1
  <2>2. CASE r.sel # v
    <3>1. st.sel = None
      BY <2>2 DEF Restorable
    <3>2. st.defBy[a] /\ st.isDef = st.defBy[a] /\ st.isDef \in BOOLEAN
      BY <1>1, <3>1 DEF GoodStore, Agrees, Remembered, StoredVersion, Restorable, Stores
    <3> QED
      BY <2>2, <3>2
  <2> QED
    BY <2>1, <2>2
<1>6. dt \in Versions \cup {None} /\ (IF r.sel = v THEN None ELSE r.sel) = None
  BY DEF GoodStore, Stores, Restorable
<1> HIDE DEF sb, db, df, dt
<1>7. to = [st EXCEPT !.sel = None, !.detail = dt, !.isDef = TRUE, !.selBy = sb, !.defBy = db]
  BY <1>5, <1>6 DEF DeletedVersion, sb, db, df, dt, GoodStore, Stores
<1> HIDE DEF to
<1>8. to \in Stores
  BY <1>2, <1>6, <1>7 DEF GoodStore, Stores
<1>9. /\ to.sel = None /\ to.isDef = TRUE /\ to.selBy = sb /\ to.defBy = db
      /\ to.active = st.active /\ to.template = st.template /\ to.drafts = st.drafts
      /\ to.edited = st.edited /\ to.dialog = st.dialog /\ to.target = st.target
  BY <1>7 DEF GoodStore, Stores
<1>10. GoodStore(to)
  BY <1>3, <1>4, <1>8, <1>9 DEF GoodStore, Shows, Agrees, Remembered, StoredVersion
<1> QED
  BY <1>9, <1>10 DEF Quiet, to

LEMMA KeepsMerged ==
    ASSUME NEW st, GoodStore(st)
    PROVE  GoodStore(Merged(st)) /\ Merged(st).dialog = "none"
<1> DEFINE to == Merged(st)
           s  == st.active
           no == s = None \/ st.defBy[s]
           sl == IF no THEN None ELSE IF st.selBy[s] # None THEN st.selBy[s] ELSE st.sel
           ed == IF st.template = None THEN Empty ELSE st.edited
           dr == IF KeepsDraft(st) /\ st.template # None
                 THEN [st.drafts EXCEPT ![st.template] = st.edited] ELSE st.drafts
           ls == [u \in Sections |-> None]
<1>1. no \in BOOLEAN /\ (s # None => no = st.defBy[s])
  <2>1. s # None => st.defBy[s] \in BOOLEAN
    BY DEF GoodStore, Stores
  <2> QED
    BY <2>1
<1>2. s # None => sl = StoredVersion(st, s)
  BY <1>1 DEF GoodStore, Stores, StoredVersion, Remembered
<1>3. sl \in Versions \cup {None} /\ ed \in Texts \cup {Empty} /\ ls \in [Sections -> {None} \cup Lists]
  BY DEF GoodStore, Stores
<1>4. dr \in [Files -> Texts \cup {Empty, None}]
  BY DEF GoodStore, Stores
<1>5. st.template # None /\ dr[st.template] # None => ed = dr[st.template]
  BY DEF GoodStore, Stores, KeepsDraft
<1> HIDE DEF no, sl, ed, dr, ls
<1>6. to = [st EXCEPT !.disk = FALSE, !.list = ls, !.deployed = None, !.detail = None,
                      !.dialog = "none", !.target = None, !.isDef = no, !.sel = sl,
                      !.edited = ed, !.drafts = dr]
  BY DEF Merged, no, sl, ed, dr, ls, GoodStore, Stores
<1> HIDE DEF to
<1>7. to \in Stores
  <2> DEFINE mid == [st EXCEPT !.disk = FALSE, !.list = ls, !.deployed = None, !.detail = None]
             end == [mid EXCEPT !.dialog = "none", !.target = None, !.isDef = no]
  <2>1. mid \in Stores
    BY <1>3 DEF GoodStore, Stores
  <2> HIDE DEF mid
  <2>2. end \in Stores
    BY <1>1, <2>1 DEF Stores
  <2>3. to = [end EXCEPT !.sel = sl, !.edited = ed, !.drafts = dr]
    BY <1>6 DEF mid, GoodStore, Stores
  <2> HIDE DEF end
  <2> QED
    BY <1>3, <1>4, <2>2, <2>3 DEF Stores
<1>8. /\ to.sel = sl /\ to.isDef = no /\ to.selBy = st.selBy /\ to.defBy = st.defBy
      /\ to.active = s /\ to.template = st.template /\ to.drafts = dr
      /\ to.edited = ed /\ to.dialog = "none"
  BY <1>6 DEF GoodStore, Stores
<1> QED
  BY <1>1, <1>2, <1>5, <1>7, <1>8 DEF GoodStore, Shows, Agrees, Remembered, StoredVersion, to

(* The draft of the open template is what the editor shows, so a new page  *)
(* finds the drafts as they were.                                          *)
LEMMA MergedDrafts ==
    ASSUME NEW st, GoodStore(st)
    PROVE  Merged(st).drafts = st.drafts
<1> DEFINE dr == IF KeepsDraft(st) /\ st.template # None
                 THEN [st.drafts EXCEPT ![st.template] = st.edited] ELSE st.drafts
<1>1. Merged(st).drafts = dr
  BY DEF Merged, GoodStore, Stores
<1>2. dr = st.drafts
  <2>1. CASE KeepsDraft(st) /\ st.template # None
    <3>1. st.drafts[st.template] = st.edited /\ st.template \in Files
      BY <2>1 DEF KeepsDraft, GoodStore, Shows, Stores
    <3> QED
      BY <2>1, <3>1 DEF GoodStore, Stores
  <2>2. CASE ~(KeepsDraft(st) /\ st.template # None)
    BY <2>2
  <2> QED
    BY <2>1, <2>2
<1> QED
  BY <1>1, <1>2

LEMMA FreshIsGood == GoodStore(Fresh) /\ DialogOK(Fresh)
<1>1. NoDrafts \in [Files -> Texts \cup {Empty, None}]
  BY DEF NoDrafts
<1>2. Fresh \in Stores
  BY <1>1 DEF Fresh, Stores
<1> QED
  BY <1>2 DEF Fresh, GoodStore, Shows, Agrees, Remembered, DialogOK

-----------------------------------------------------------------------------
(* The requests in flight. *)
Loads ==
    {c \in Requests :
        /\ c.op \in {"disk", "list", "deployed", "detail"} /\ c.by = "page" /\ c.at = "here"
        /\ c.read = NoRead /\ ~c.answered /\ ~c.ok
        /\ c.op = "detail" => c.ver # None
        /\ c.op = "list" => c.sec # None}

Ops == {"disk", "list", "deployed", "detail", "create", "deploy", "undeploy", "delete"}
Bys == {"page", "create", "deploy", "delete"}

LEMMA NothingRead == NoRead \in Reads /\ Remembered(NoRead)
  BY DEF NoRead, Reads, Remembered

LEMMA NothingListed == NoList \in Lists
<1>1. NoList \in [{} -> BOOLEAN] /\ {} \in SUBSET Versions
  BY DEF NoList
<1> QED
  BY <1>1 DEF Lists

LEMMA CallIs ==
    ASSUME NEW op \in Ops, NEW s \in Sections \cup {None}, NEW v \in Versions \cup {None},
           NEW by \in Bys
    PROVE  /\ Call(op, s, v, by) \in Requests
           /\ Call(op, s, v, by).op = op /\ Call(op, s, v, by).sec = s
           /\ Call(op, s, v, by).ver = v /\ Call(op, s, v, by).by = by
           /\ Call(op, s, v, by).at = "here" /\ Call(op, s, v, by).read = NoRead
           /\ ~Call(op, s, v, by).answered /\ ~Call(op, s, v, by).ok
<1>1. Disk \in [Files -> Texts] /\ 1 \in 1..MaxCopies
  BY InstructionsConstants
<1> QED
  BY <1>1, NothingRead, NothingListed DEF Call, Requests, Ops, Bys

LEMMA CallIsLoad ==
    ASSUME NEW op \in {"disk", "list", "deployed", "detail"}, NEW s \in Sections \cup {None},
           NEW v \in Versions \cup {None}, op = "detail" => v # None, op = "list" => s # None
    PROVE  Call(op, s, v, "page") \in Loads
<1> DEFINE e == Call(op, s, v, "page")
<1>1. op \in Ops /\ "page" \in Bys
  BY DEF Ops, Bys
<1>2. /\ e \in Requests /\ e.op = op /\ e.sec = s /\ e.ver = v /\ e.by = "page" /\ e.at = "here"
      /\ e.read = NoRead /\ ~e.answered /\ ~e.ok
  BY <1>1, CallIs
<1> HIDE DEF e
<1>3. e \in Loads
  BY <1>2 DEF Loads
<1> QED
  BY <1>3 DEF e

LEMMA LoadDetailLoads ==
    ASSUME NEW st, NEW v \in Versions \cup {None}
    PROVE  LoadDetail(st, v) \subseteq Loads
  BY CallIsLoad DEF LoadDetail

LEMMA LoadUnlistedLoads ==
    ASSUME NEW st, NEW s \in Sections \cup {None}
    PROVE  LoadUnlisted(st, s) \subseteq Loads
  BY CallIsLoad DEF LoadUnlisted

LEMMA LoadDeployedLoads ==
    ASSUME NEW s \in Sections \cup {None}
    PROVE  LoadDeployed(s) \subseteq Loads
  BY CallIsLoad DEF LoadDeployed

LEMMA ListEffectsLoad ==
    ASSUME NEW st \in Stores
    PROVE  ListEffects(st) \subseteq Loads
<1>1. st.active \in Sections \cup {None} /\ Assistant \in Sections \cup {None}
  BY InstructionsConstants DEF Stores
<1> QED
  BY <1>1, LoadUnlistedLoads, LoadDeployedLoads DEF ListEffects

LEMMA PageEffectsLoad ==
    ASSUME NEW st, NEW st1 \in Stores
    PROVE  PageEffects(st, st1) \subseteq Loads
<1>1. st1.active \in Sections \cup {None} /\ st1.sel \in Versions \cup {None}
  BY DEF Stores
<1> QED
  BY <1>1, LoadUnlistedLoads, LoadDeployedLoads, LoadDetailLoads DEF PageEffects

LEMMA MountCallsLoad ==
    ASSUME NEW st \in Stores
    PROVE  MountCalls(st) \subseteq Loads
<1>1. st.sel \in Versions \cup {None}
  BY DEF Stores
<1>2. Call("disk", None, None, "page") \in Loads
  BY CallIsLoad
<1> QED
  BY <1>1, <1>2, ListEffectsLoad, LoadDetailLoads DEF MountCalls

LEMMA SentIs ==
    ASSUME NEW C, NEW cs, NEW c \in Sent(C, cs)
    PROVE  c \in C \/ \E e \in cs, n \in 1..MaxCopies : c = [e EXCEPT !.copy = n]
  BY DEF Sent, Copies

LEMMA CopiesAreLoads ==
    ASSUME NEW e \in Loads, NEW n \in 1..MaxCopies
    PROVE  [e EXCEPT !.copy = n] \in Loads
<1>1. e \in Requests
  BY DEF Loads
<1>2. [e EXCEPT !.copy = n] \in Requests
  BY <1>1 DEF Requests
<1> QED
  BY <1>1, <1>2 DEF Loads, Requests

LEMMA LoadsAreGood ==
    ASSUME NEW c \in Loads
    PROVE  /\ GoodCall(c) /\ c.by = "page" /\ c.at = "here"
           /\ c.op # "delete" /\ c.op # "create"
  BY NothingRead DEF GoodCall, Loads

LEMMA BecomesStore == ASSUME NEW st1, NEW C, NEW cs, Becomes(st1, C, cs) PROVE store' = st1
  BY DEF Becomes

LEMMA BecomesFrame ==
    ASSUME NEW st1, GoodStore(st1), NEW C, NEW cs, Becomes(st1, C, cs)
    PROVE  store' = st1 /\ old' = old /\ StorageInv'
  BY KeepsMerged, MergedDrafts DEF Becomes, StorageInv

(* What is in flight once the store has become st1. *)
LEMMA BecomesCalls ==
    ASSUME NEW st1 \in Stores, NEW C, NEW cs, Becomes(st1, C, cs)
    PROVE  /\ store' = st1
           /\ \A c \in calls' :
                c \in C \/ c \in Loads \/ \E e \in cs, n \in 1..MaxCopies : c = [e EXCEPT !.copy = n]
<1>1. PageEffects(store, st1) \subseteq Loads
  BY PageEffectsLoad
<1> HIDE DEF Loads
<1>2. ASSUME NEW c \in calls'
      PROVE  c \in C \/ c \in Loads \/ \E e \in cs, n \in 1..MaxCopies : c = [e EXCEPT !.copy = n]
  <2>1. c \in Sent(Sent(C, cs), PageEffects(store, st1))
    BY DEF Becomes
  <2>2. c \in Sent(C, cs) \/ \E e \in PageEffects(store, st1), n \in 1..MaxCopies : c = [e EXCEPT !.copy = n]
    BY <2>1, SentIs
  <2> QED
    BY <1>1, <2>2, SentIs, CopiesAreLoads
<1> QED
  BY <1>2 DEF Becomes

(* The loads a gesture or an answer sends. *)
LEMMA BecomesWithLoads ==
    ASSUME NEW st1 \in Stores, NEW C, NEW cs, cs \subseteq Loads, Becomes(st1, C, cs)
    PROVE  store' = st1 /\ \A c \in calls' : c \in C \/ c \in Loads
  BY BecomesCalls, CopiesAreLoads

(* One more request beside the loads. *)
LEMMA BecomesWithOne ==
    ASSUME NEW st1 \in Stores, NEW C, NEW e, Becomes(st1, C, {e})
    PROVE  /\ store' = st1
           /\ \E n \in 1..MaxCopies : \A c \in calls' :
                c \in C \/ c \in Loads \/ c = [e EXCEPT !.copy = n]
<1> DEFINE n == IF Copies(C, e) = {} THEN 1 ELSE CHOOSE k \in Copies(C, e) : TRUE
<1>1. n \in 1..MaxCopies
  BY InstructionsConstants DEF Copies
<1>2. Sent(C, {e}) \subseteq C \cup {[e EXCEPT !.copy = n]}
  BY DEF Sent
<1>3. PageEffects(store, st1) \subseteq Loads
  BY PageEffectsLoad
<1> HIDE DEF Loads, n
<1>4. ASSUME NEW c \in calls'
      PROVE  c \in C \/ c \in Loads \/ c = [e EXCEPT !.copy = n]
  <2>1. c \in Sent(Sent(C, {e}), PageEffects(store, st1))
    BY DEF Becomes
  <2>2. c \in Sent(C, {e}) \/ \E d \in PageEffects(store, st1), k \in 1..MaxCopies : c = [d EXCEPT !.copy = k]
    BY <2>1, SentIs
  <2> QED
    BY <1>2, <1>3, <2>2, CopiesAreLoads
<1> QED
  BY <1>1, <1>4 DEF Becomes

LEMMA CopiesAreGood ==
    ASSUME NEW e, GoodCall(e), NEW n \in 1..MaxCopies
    PROVE  /\ GoodCall([e EXCEPT !.copy = n])
           /\ [e EXCEPT !.copy = n].op = e.op /\ [e EXCEPT !.copy = n].by = e.by
           /\ [e EXCEPT !.copy = n].ver = e.ver /\ [e EXCEPT !.copy = n].read = e.read
           /\ [e EXCEPT !.copy = n].at = e.at
<1>1. [e EXCEPT !.copy = n] \in Requests
  BY DEF GoodCall, Requests
<1> QED
  BY <1>1 DEF GoodCall, Requests

-----------------------------------------------------------------------------
(* Two ways for a step to keep the invariant: what arrives by itself, and a *)
(* gesture while no deletion is in flight.                                  *)
Bounded == table \in Tables /\ gestures \in 0..MaxGestures /\ elsewhere \in 0..MaxElsewhere

LEMMA QuietStep ==
    ASSUME IInv, Bounded', Quiet(store, store'), StorageInv', old' = old,
           \A c \in calls' : c \in calls \/ (GoodCall(c) /\ c.by # "delete" /\ c.op # "delete")
    PROVE  IInv'
<1>1. GoodStore(store') /\ DialogOK(store')
  BY DEF Quiet, DialogOK, IInv
<1>2. ASSUME NEW c \in calls' PROVE GoodCall(c)
  BY DEF IInv, CallsInv
<1>3. ASSUME NEW c \in calls', c.op = "delete", c.at = "here" PROVE Restorable(c, store')
  <2>1. c \in calls /\ Restorable(c, store)
    BY <1>3 DEF IInv, CallsInv, PageInv
  <2> QED
    BY <2>1 DEF Restorable, Quiet
<1>4. \A c, e \in calls' : c.at = "here" /\ e.at = "here" /\ c.by = "delete" /\ e.by = "delete" => c = e
  BY DEF IInv, CallsInv, PageInv
<1>5. PageInv(calls', "left", old)
  BY DEF IInv, CallsInv, PageInv
<1> QED
  BY <1>1, <1>2, <1>3, <1>4, <1>5 DEF IInv, Bounded, CallsInv, PageInv

LEMMA PageStep ==
    ASSUME IInv, Bounded', GoodStore(store'), DialogOK(store'), StorageInv', old' = old,
           \A c \in calls : c.op = "delete" => c.at # "here",
           \A c \in calls' : c \in calls \/ (GoodCall(c) /\ c.by # "delete" /\ c.op # "delete")
    PROVE  IInv'
<1>1. \A c \in calls' : GoodCall(c)
  BY DEF IInv, CallsInv
<1>2. PageInv(calls', "here", store') /\ PageInv(calls', "left", old)
  BY DEF IInv, CallsInv, PageInv
<1> QED
  BY <1>1, <1>2 DEF IInv, Bounded, CallsInv

LEMMA NoDeletion ==
    ASSUME IInv, store.dialog # "delete"
    PROVE  \A c \in calls : c.op = "delete" => c.at # "here"
  BY DEF IInv, CallsInv, PageInv, Restorable

LEMMA QuietSame == ASSUME NEW st, GoodStore(st) PROVE Quiet(st, st)
  BY DEF Quiet

-----------------------------------------------------------------------------
(* What the user does. *)
LEMMA GestureStep ==
    ASSUME IInv, Gesture, store.dialog # "delete",
           NEW st1, GoodStore(st1),
           DialogOK(st1),
           NEW cs, Becomes(st1, calls, cs),
           \A e \in cs : GoodCall(e) /\ e.by # "delete" /\ e.op # "delete"
    PROVE  IInv'
<1>1. st1 \in Stores
  BY DEF GoodStore
<1>2. Bounded'
  BY InstructionsConstants DEF IInv, Bounded, Gesture, Acts
<1>3. store' = st1 /\ old' = old /\ StorageInv'
  BY BecomesFrame
<1>4. ASSUME NEW c \in calls'
      PROVE  c \in calls \/ (GoodCall(c) /\ c.by # "delete" /\ c.op # "delete")
  <2>1. c \in calls \/ c \in Loads \/ \E e \in cs, n \in 1..MaxCopies : c = [e EXCEPT !.copy = n]
    BY <1>1, BecomesCalls
  <2>2. CASE c \in Loads
    BY <2>2, LoadsAreGood
  <2>3. ASSUME NEW e \in cs, NEW n \in 1..MaxCopies, c = [e EXCEPT !.copy = n]
        PROVE  GoodCall(c) /\ c.by # "delete" /\ c.op # "delete"
    BY <2>3, CopiesAreGood
  <2> QED
    BY <2>1, <2>2, <2>3
<1> QED
  BY <1>2, <1>3, <1>4, NoDeletion, PageStep

(* Gestures that only load. *)
LEMMA LoadingGesture ==
    ASSUME IInv, Gesture, store.dialog # "delete", NEW st1, GoodStore(st1),
           st1.dialog = "none", NEW cs, cs \subseteq Loads, Becomes(st1, calls, cs)
    PROVE  IInv'
<1>1. ASSUME NEW e \in cs PROVE GoodCall(e) /\ e.by # "delete" /\ e.op # "delete"
  <2>1. e \in Loads
    OBVIOUS
  <2> QED
    BY <2>1, LoadsAreGood
<1> QED
  BY <1>1, GestureStep DEF DialogOK

LEMMA DialogFrame ==
    ASSUME NEW st, GoodStore(st), NEW s \in Sections, NEW v
    PROVE  /\ SetActiveSection(st, s).dialog = st.dialog
           /\ SelectVersion(st, v).dialog = st.dialog
           /\ SelectDefault(st).dialog = st.dialog
           /\ UpdateContent(st, st.template, v).dialog = st.dialog
           /\ CloseConfirmDialog(st).dialog = "none"
           /\ DialogGone(st).dialog = "none"
  BY DEF GoodStore, Stores, SetActiveSection, SelectVersion, SelectDefault, UpdateContent,
         CloseConfirmDialog, DialogGone

LEMMA ClickSectionStep ==
    ASSUME IInv, NEW s \in Sections, ClickSection(s)
    PROVE  IInv'
<1> DEFINE cs == LoadUnlisted(store, s) \cup LoadDeployed(s) \cup LoadDetail(store, StoredVersion(store, s))
<1>1. GoodStore(store)
  BY DEF IInv
<1>2. StoredVersion(store, s) \in Versions \cup {None}
  BY <1>1 DEF GoodStore, Stores, StoredVersion
<1>3. cs \subseteq Loads
  BY <1>2, LoadUnlistedLoads, LoadDeployedLoads, LoadDetailLoads
<1> HIDE DEF cs
<1>4. GoodStore(SetActiveSection(store, s)) /\ SetActiveSection(store, s).dialog = "none"
  BY <1>1, KeepsSetActiveSection, DialogFrame DEF ClickSection, OnPage
<1>5. Gesture /\ store.dialog # "delete" /\ Becomes(SetActiveSection(store, s), calls, cs)
  BY DEF ClickSection, OnPage, cs
<1> QED
  BY <1>3, <1>4, <1>5, LoadingGesture

LEMMA ClickTemplateStep ==
    ASSUME IInv, NEW f \in Files, ClickTemplate(f)
    PROVE  IInv'
<1> DEFINE cs == IF SectionOf[f] = store.active THEN {}
                 ELSE LoadDetail(store, StoredVersion(store, SectionOf[f]))
<1>1. GoodStore(store) /\ table \in Tables /\ SectionOf[f] \in Sections
  BY InstructionsConstants DEF IInv
<1>2. StoredVersion(store, SectionOf[f]) \in Versions \cup {None}
  BY <1>1 DEF GoodStore, Stores, StoredVersion
<1>3. cs \subseteq Loads
  BY <1>2, LoadDetailLoads
<1> HIDE DEF cs
<1>4. GoodStore(SelectTemplate(store, f)) /\ SelectTemplate(store, f).dialog = "none"
  BY <1>1, KeepsSelectTemplate, SelectTemplateFrame DEF ClickTemplate, OnPage
<1>5. Gesture /\ store.dialog # "delete" /\ Becomes(SelectTemplate(store, f), calls, cs)
  BY DEF ClickTemplate, OnPage, cs
<1> QED
  BY <1>3, <1>4, <1>5, LoadingGesture

LEMMA OpensDialogStep ==
    ASSUME IInv, OnPage, NEW d \in {"switch", "default", "reset", "delete"},
           NEW v \in Versions \cup {None},
           d = "delete" => v = store.sel,
           d # "reset" => store.active # None, d \in {"switch", "delete"} => v # None,
           Becomes([store EXCEPT !.dialog = d, !.target = v], calls, {})
    PROVE  IInv'
<1> DEFINE st1 == [store EXCEPT !.dialog = d, !.target = v]
<1>1. GoodStore(store)
  BY DEF IInv
<1>2. GoodStore(st1)
  BY <1>1, KeepsOpenDialog
<1>3. st1.dialog = d /\ st1.target = v /\ st1.active = store.active /\ st1.sel = store.sel
  BY <1>1 DEF GoodStore, Stores
<1> HIDE DEF st1
<1>4. Becomes(st1, calls, {})
  BY DEF st1
<1> QED
  BY <1>2, <1>3, <1>4, GestureStep DEF OnPage, DialogOK

LEMMA SelectStep ==
    ASSUME IInv, Gesture, store.dialog = "none", store.active # None,
           NEW v \in Versions, Becomes(SelectVersion(store, v), calls, LoadDetail(store, v))
    PROVE  IInv'
<1>1. GoodStore(store) /\ Assistant \in Sections
  BY InstructionsConstants DEF IInv
<1>2. GoodStore(SelectVersion(store, v)) /\ SelectVersion(store, v).dialog = "none"
  BY <1>1, KeepsSelectVersion, DialogFrame
<1> QED
  BY <1>2, LoadDetailLoads, LoadingGesture

LEMMA SelectDefaultStep ==
    ASSUME IInv, Gesture, store.dialog = "none", store.active # None,
           Becomes(SelectDefault(store), calls, {})
    PROVE  IInv'
<1>1. GoodStore(store) /\ Assistant \in Sections
  BY InstructionsConstants DEF IInv
<1>2. GoodStore(SelectDefault(store)) /\ SelectDefault(store).dialog = "none"
  BY <1>1, KeepsSelectDefault, DialogFrame
<1> QED
  BY <1>2, LoadingGesture

LEMMA OfferedAre == ASSUME IInv PROVE Offered \subseteq Versions /\ (Offered # {} => store.active # None)
<1>1. \A l \in Lists : DOMAIN l \subseteq Versions
  BY DEF Lists
<1>2. store.active # None => store.list[store.active] \in {None} \cup Lists
  BY DEF IInv, GoodStore, Stores
<1> QED
  BY <1>1, <1>2 DEF Offered

LEMMA RequestSelectVersionStep ==
    ASSUME IInv, NEW v \in Versions, RequestSelectVersion(v)
    PROVE  IInv'
<1>1. OnPage /\ store.active # None /\ v # None
  BY OfferedAre, NoneIsNothing DEF RequestSelectVersion
<1>2. CASE HasUnsavedChangesInSection(store, store.active)
  BY <1>1, <1>2, OpensDialogStep DEF RequestSelectVersion
<1>3. CASE ~HasUnsavedChangesInSection(store, store.active)
  BY <1>1, <1>3, SelectStep DEF RequestSelectVersion, OnPage
<1> QED
  BY <1>2, <1>3

LEMMA RequestSelectDefaultStep ==
    ASSUME IInv, RequestSelectDefault
    PROVE  IInv'
<1>1. OnPage /\ store.active # None
  BY DEF RequestSelectDefault
<1>2. CASE HasUnsavedChangesInSection(store, store.active)
  BY <1>1, <1>2, OpensDialogStep DEF RequestSelectDefault
<1>3. CASE ~HasUnsavedChangesInSection(store, store.active)
  BY <1>1, <1>3, SelectDefaultStep DEF RequestSelectDefault, OnPage
<1> QED
  BY <1>2, <1>3

LEMMA EditStep ==
    ASSUME IInv, NEW text \in Texts, Edit(text)
    PROVE  IInv'
<1>1. GoodStore(store) /\ Assistant \in Sections
  BY InstructionsConstants DEF IInv
<1>2. /\ GoodStore(UpdateContent(store, store.template, text))
      /\ UpdateContent(store, store.template, text).dialog = "none"
  BY <1>1, KeepsUpdateContent, DialogFrame DEF Edit, OnPage
<1>3. Gesture /\ store.dialog # "delete" /\ Becomes(UpdateContent(store, store.template, text), calls, {})
  BY DEF Edit, OnPage
<1> QED
  BY <1>2, <1>3, LoadingGesture

LEMMA RequestResetTemplateStep ==
    ASSUME IInv, RequestResetTemplate
    PROVE  IInv'
<1>1. GoodStore(store)
  BY DEF IInv
<1>2. [store EXCEPT !.dialog = "reset"] = [store EXCEPT !.dialog = "reset", !.target = store.target]
  BY <1>1 DEF GoodStore, Stores
<1>3. store.target \in Versions \cup {None}
  BY <1>1 DEF GoodStore, Stores
<1> QED
  BY <1>2, <1>3, OpensDialogStep DEF RequestResetTemplate

LEMMA RequestDeleteVersionStep ==
    ASSUME IInv, RequestDeleteVersion
    PROVE  IInv'
<1>1. store.sel \in Offered
  BY DEF RequestDeleteVersion, CanDeploy
<1>2. store.sel \in Versions /\ store.active # None /\ store.sel # None
  BY <1>1, OfferedAre, NoneIsNothing
<1> QED
  BY <1>2, OpensDialogStep DEF RequestDeleteVersion

(* A gesture that sends one write and leaves the store. *)
LEMMA WriteStep ==
    ASSUME IInv, OnPage, NEW e, GoodCall(e), e.by \in {"create", "deploy"},
           e.op # "delete", Becomes(store, calls, {e})
    PROVE  IInv'
<1>1. GoodStore(store)
  BY DEF IInv
<1>2. Gesture /\ store.dialog = "none"
  BY DEF OnPage
<1> QED
  BY <1>1, <1>2, GestureStep DEF DialogOK

LEMMA CallIsGood ==
    ASSUME NEW op \in Ops, NEW s \in Sections \cup {None}, NEW v \in Versions \cup {None},
           NEW by \in {"page", "create", "deploy"}, op # "delete", op \in {"detail", "deploy"} => v # None,
           op \in {"list", "create", "deploy", "undeploy"} => s # None
    PROVE  /\ GoodCall(Call(op, s, v, by))
           /\ Call(op, s, v, by).op = op /\ Call(op, s, v, by).by = by
           /\ Call(op, s, v, by).at = "here"
<1> DEFINE e == Call(op, s, v, by)
<1>1. by \in Bys
  BY DEF Bys
<1>2. /\ e \in Requests /\ e.op = op /\ e.sec = s /\ e.ver = v /\ e.by = by /\ e.at = "here"
      /\ e.read = NoRead /\ ~e.answered /\ ~e.ok
  BY <1>1, CallIs
<1> HIDE DEF e
<1>3. GoodCall(e) /\ e.op = op /\ e.by = by /\ e.at = "here"
  BY <1>2, NothingRead DEF GoodCall
<1> QED
  BY <1>3 DEF e

LEMMA CreateVersionStep ==
    ASSUME IInv, CreateVersion
    PROVE  IInv'
<1> DEFINE t == [f \in Files |-> IF SectionOf[f] = store.active /\ store.drafts[f] # None
                                 THEN store.drafts[f] ELSE Disk[f]]
           b == Call("create", store.active, None, "create")
           e == [b EXCEPT !.text = t]
<1>1. store.active \in Sections /\ store.active # None
  BY DEF CreateVersion, IInv, GoodStore, Stores
<1>2. GoodCall(b) /\ b.op = "create" /\ b.by = "create"
  BY <1>1, CallIsGood DEF Ops
<1>3. t \in [Files -> Texts \cup {Empty}]
  BY InstructionsConstants DEF IInv, GoodStore, Stores
<1> HIDE DEF b, t
<1>4. e \in Requests
  BY <1>2, <1>3 DEF GoodCall, Requests
<1>5. /\ e.op = "create" /\ e.by = "create" /\ e.read = b.read /\ e.ok = b.ok
      /\ e.answered = b.answered /\ e.ver = b.ver /\ e.sec = b.sec /\ e.at = b.at
  BY <1>2 DEF GoodCall, Requests
<1> HIDE DEF e
<1>6. GoodCall(e)
  BY <1>2, <1>4, <1>5 DEF GoodCall
<1>7. Becomes(store, calls, {e}) /\ OnPage
  BY DEF CreateVersion, e, t, b
<1> QED
  BY <1>5, <1>6, <1>7, WriteStep

LEMMA DeployVersionStep ==
    ASSUME IInv, DeployVersion
    PROVE  IInv'
<1> DEFINE e == Call("deploy", store.active, store.sel, "deploy")
<1>1. store.sel \in Offered
  BY DEF DeployVersion, CanDeploy
<1>2. store.sel \in Versions /\ store.active # None /\ store.sel # None
  BY <1>1, OfferedAre, NoneIsNothing
<1>3. store.active \in Sections
  BY <1>2 DEF IInv, GoodStore, Stores
<1>4. GoodCall(e) /\ e.op = "deploy" /\ e.by = "deploy"
  BY <1>2, <1>3, CallIsGood DEF Ops
<1> HIDE DEF e
<1>5. Becomes(store, calls, {e}) /\ OnPage
  BY DEF DeployVersion, e
<1> QED
  BY <1>4, <1>5, WriteStep

LEMMA UndeployVersionStep ==
    ASSUME IInv, UndeployVersion
    PROVE  IInv'
<1> DEFINE e == Call("undeploy", store.active, None, "deploy")
<1>1. store.active \in Sections /\ store.active # None
  BY DEF UndeployVersion, IInv, GoodStore, Stores
<1>2. GoodCall(e) /\ e.op = "undeploy" /\ e.by = "deploy"
  BY <1>1, CallIsGood DEF Ops
<1> HIDE DEF e
<1>3. Becomes(store, calls, {e}) /\ OnPage
  BY DEF UndeployVersion, e
<1> QED
  BY <1>2, <1>3, WriteStep

(* Closing the dialog, when no deletion is in flight. *)
LEMMA ClosingStep ==
    ASSUME IInv, Bounded', ~Busy("delete") , Becomes(CloseConfirmDialog(store), calls, {})
    PROVE  IInv'
<1> DEFINE st1 == CloseConfirmDialog(store)
<1>1. GoodStore(store) /\ Assistant \in Sections
  BY InstructionsConstants DEF IInv
<1>2. GoodStore(st1) /\ st1.dialog = "none"
  BY <1>1, KeepsCloseDialog, DialogFrame
<1> HIDE DEF st1
<1>3. st1 \in Stores /\ Becomes(st1, calls, {})
  BY <1>2 DEF GoodStore, st1
<1>4. /\ store' = st1 /\ old' = old /\ StorageInv'
      /\ \A c \in calls' : c \in calls \/ c \in Loads
  BY <1>2, <1>3, BecomesFrame, BecomesWithLoads
<1>5. \A c \in calls : c.op = "delete" => c.at # "here"
  BY DEF Busy, IInv, CallsInv, GoodCall
<1>6. DialogOK(store')
  BY <1>2, <1>4 DEF DialogOK
<1> QED
  BY <1>2, <1>4, <1>5, <1>6, LoadsAreGood, PageStep

LEMMA CancelDialogStep ==
    ASSUME IInv, CancelDialog
    PROVE  IInv'
<1>1. Bounded'
  BY InstructionsConstants DEF IInv, Bounded, CancelDialog, Gesture, Acts
<1> QED
  BY <1>1, ClosingStep DEF CancelDialog

(* The request of a deletion reads the selection that the dialog shows. *)
LEMMA DeleteVersionStep ==
    ASSUME IInv, Gesture, DeleteVersion
    PROVE  IInv'
<1> DEFINE b == Call("delete", None, store.target, "delete")
           r == [sel |-> store.sel, selBy |-> store.selBy, defBy |-> store.defBy]
           e == [b EXCEPT !.read = r]
<1>1. GoodStore(store) /\ store.dialog = "delete" /\ store.active # None
  BY DEF IInv, DeleteVersion, DialogOK
<1>2. store.target \in Versions /\ store.target # None /\ store.sel \in {store.target, None}
  BY <1>1 DEF IInv, DialogOK, GoodStore, Stores
<1>3. b \in Requests /\ b.op = "delete" /\ b.ver = store.target /\ b.by = "delete"
      /\ b.at = "here" /\ ~b.answered /\ ~b.ok
  <2>1. "delete" \in Ops /\ "delete" \in Bys
    BY DEF Ops, Bys
  <2> QED
    BY <1>2, <2>1, CallIs
<1>4. r \in Reads /\ Remembered(r)
  BY <1>1 DEF GoodStore, Stores, Reads, Remembered
<1>5. r.sel = r.selBy[store.active] /\ r.sel = store.sel
  <2>1. store.active \in Sections
    BY <1>1 DEF GoodStore, Stores
  <2> QED
    BY <1>1, <2>1 DEF GoodStore, Agrees, Remembered, StoredVersion
<1> HIDE DEF b, r
<1>6. e \in Requests /\ e.op = "delete" /\ e.by = "delete" /\ e.ver = store.target /\ e.read = r
      /\ e.at = "here" /\ ~e.answered /\ ~e.ok
  BY <1>3, <1>4 DEF Requests
<1> HIDE DEF e
<1>7. GoodCall(e) /\ Restorable(e, store)
  BY <1>1, <1>2, <1>4, <1>5, <1>6 DEF GoodCall, Restorable
<1>8. store \in Stores /\ Becomes(store, calls, {e})
  BY <1>1 DEF DeleteVersion, GoodStore, e, r, b
<1>9. PICK n \in 1..MaxCopies :
          store' = store /\ \A c \in calls' : c \in calls \/ c \in Loads \/ c = [e EXCEPT !.copy = n]
  BY <1>8, BecomesWithOne
<1> DEFINE x == [e EXCEPT !.copy = n]
<1>10. GoodCall(x) /\ x.ver = e.ver /\ x.read = e.read /\ x.at = "here"
  BY <1>6, <1>7, CopiesAreGood
<1> HIDE DEF x
<1>11. \A c \in calls' : c \in calls \/ c \in Loads \/ c = x
  BY <1>9 DEF x
<1>12. \A c \in calls : c.at = "here" => c.by # "delete"
  BY DEF DeleteVersion, Busy
<1>13. ASSUME NEW c \in calls'
       PROVE  GoodCall(c) /\ (c.op = "delete" /\ c.at = "here" => Restorable(c, store))
  <2>1. CASE c \in calls
    BY <2>1 DEF IInv, CallsInv, PageInv
  <2>2. CASE c \in Loads
    BY <2>2, LoadsAreGood
  <2>3. CASE c = x
    BY <1>7, <1>10, <2>3 DEF Restorable
  <2> QED
    BY <1>11, <2>1, <2>2, <2>3
<1>14. \A c, d \in calls' : c.at = "here" /\ d.at = "here" /\ c.by = "delete" /\ d.by = "delete" => c = d
  BY <1>11, <1>12, LoadsAreGood
<1>15. PageInv(calls', "left", old)
  <2>1. \A c \in calls' : c.at = "left" => c \in calls
    BY <1>10, <1>11, LoadsAreGood
  <2> QED
    BY <2>1 DEF IInv, CallsInv, PageInv
<1>16. Bounded'
  BY InstructionsConstants DEF IInv, Bounded, Gesture, Acts
<1> QED
  <2>1. CallsInv' /\ old' = old /\ StorageInv' /\ store' = store
    BY <1>1, <1>8, <1>9, <1>13, <1>14, <1>15, BecomesFrame DEF CallsInv, PageInv
  <2> QED
    BY <1>16, <2>1 DEF IInv, Bounded

LEMMA ConfirmActionStep ==
    ASSUME IInv, ConfirmAction
    PROVE  IInv'
<1>1. GoodStore(store) /\ table \in Tables /\ Gesture /\ Assistant \in Sections
  BY InstructionsConstants DEF IInv, ConfirmAction
<1>2. CASE store.dialog = "delete" /\ DeleteVersion
  BY <1>1, <1>2, DeleteVersionStep
<1>3. CASE /\ store.dialog = "switch"
           /\ Becomes(CloseConfirmDialog(SelectVersion(store, store.target)), calls,
                      LoadDetail(store, store.target))
  <2>1. store.target \in Versions /\ store.active # None
    BY <1>1, <1>3 DEF IInv, DialogOK, GoodStore, Stores
  <2> DEFINE st1 == CloseConfirmDialog(SelectVersion(store, store.target))
  <2>2. GoodStore(st1) /\ st1.dialog = "none"
    BY <1>1, <2>1, KeepsSelectVersion, KeepsCloseDialog, DialogFrame
  <2> QED
    BY <1>1, <1>3, <2>1, <2>2, LoadDetailLoads, LoadingGesture
<1>4. CASE store.dialog = "default" /\ Becomes(CloseConfirmDialog(SelectDefault(store)), calls, {})
  <2>1. store.active # None
    BY <1>4 DEF IInv, DialogOK
  <2> DEFINE st1 == CloseConfirmDialog(SelectDefault(store))
  <2>2. GoodStore(st1) /\ st1.dialog = "none"
    BY <1>1, <2>1, KeepsSelectDefault, KeepsCloseDialog, DialogFrame
  <2> QED
    BY <1>1, <1>4, <2>2, LoadingGesture
<1>5. CASE /\ store.dialog = "reset"
           /\ Becomes(CloseConfirmDialog(IF store.template = None THEN store ELSE ResetTemplate(store)),
                      calls, {})
  <2> DEFINE at  == IF store.template = None THEN store ELSE ResetTemplate(store)
             st1 == CloseConfirmDialog(at)
  <2>1. GoodStore(at)
    BY <1>1, KeepsResetTemplate
  <2> HIDE DEF at
  <2>2. GoodStore(st1) /\ st1.dialog = "none"
    BY <1>1, <2>1, KeepsCloseDialog, DialogFrame
  <2>3. Becomes(st1, calls, {})
    BY <1>5 DEF at
  <2> QED
    BY <1>1, <1>5, <2>2, <2>3, LoadingGesture
<1> QED
  BY <1>2, <1>3, <1>4, <1>5 DEF ConfirmAction, DeleteVersion

(* A request whose page is gone from view. *)
LEMMA MovedIsGood ==
    ASSUME NEW c, GoodCall(c), NEW p \in {"here", "left", "gone"}, p = "gone" => ~c.answered
    PROVE  /\ GoodCall([c EXCEPT !.at = p])
           /\ [c EXCEPT !.at = p].op = c.op /\ [c EXCEPT !.at = p].by = c.by
           /\ [c EXCEPT !.at = p].ver = c.ver /\ [c EXCEPT !.at = p].read = c.read
           /\ [c EXCEPT !.at = p].at = p
<1>1. [c EXCEPT !.at = p] \in Requests
  BY DEF GoodCall, Requests
<1> QED
  BY <1>1 DEF GoodCall, Requests

LEMMA MountedPage ==
    ASSUME IInv, store' = storage, UNCHANGED storage, writer' = "here"
    PROVE  GoodStore(store') /\ DialogOK(store') /\ StorageInv' /\ MountCalls(storage) \subseteq Loads
<1>1. GoodStore(storage) /\ storage.dialog = "none"
  BY DEF IInv, StorageInv
<1>2. MountCalls(storage) \subseteq Loads
  BY <1>1, MountCallsLoad DEF GoodStore
<1> QED
  BY <1>1, <1>2 DEF StorageInv, DialogOK

LEMMA ReloadStep ==
    ASSUME IInv, Reload
    PROVE  IInv'
<1> DEFINE gone == {[c EXCEPT !.at = "gone"] : c \in {d \in calls : d.op \in Writes /\ ~d.answered}}
<1>1. /\ GoodStore(store') /\ DialogOK(store') /\ StorageInv'
      /\ MountCalls(storage) \subseteq Loads
  BY MountedPage DEF Reload
<1>2. GoodStore(old') /\ DialogOK(old')
  BY FreshIsGood DEF Reload
<1>3. ASSUME NEW d \in gone PROVE GoodCall(d) /\ d.at = "gone"
  <2>1. PICK c \in calls : d = [c EXCEPT !.at = "gone"] /\ ~c.answered
    OBVIOUS
  <2>2. GoodCall(c)
    BY DEF IInv, CallsInv
  <2> QED
    BY <2>1, <2>2, MovedIsGood
<1>4. calls' = MountCalls(storage) \cup gone
  BY DEF Reload
<1> HIDE DEF gone
<1>5. \A c \in calls' : GoodCall(c) /\ (c.by = "delete" \/ c.op = "delete" => c.at = "gone")
  BY <1>1, <1>3, <1>4, LoadsAreGood
<1>6. CallsInv'
  BY <1>5 DEF CallsInv, PageInv
<1>7. Bounded'
  BY InstructionsConstants DEF IInv, Bounded, Reload, Gesture, Acts
<1> QED
  BY <1>1, <1>2, <1>6, <1>7 DEF IInv, Bounded

(* The page's requests become those of the page left behind, with its store. *)
LEMMA NavigateStep ==
    ASSUME IInv, Navigate
    PROVE  IInv'
<1> DEFINE at(c) == IF c.at = "here" THEN "left" ELSE c.at
           kept  == {[c EXCEPT !.at = IF @ = "here" THEN "left" ELSE @] : c \in calls}
<1>1. /\ GoodStore(store') /\ DialogOK(store') /\ StorageInv'
      /\ MountCalls(storage) \subseteq Loads
  BY MountedPage DEF Navigate
<1>2. GoodStore(old') /\ DialogOK(old')
  BY FreshIsGood DEF Navigate, LeftBehind, IInv
<1>3. ASSUME NEW d \in kept
      PROVE  \E c \in calls :
                /\ d = [c EXCEPT !.at = at(c)] /\ c.at \in {"here", "gone"}
                /\ d.at = at(c) /\ d.op = c.op /\ d.by = c.by /\ d.ver = c.ver /\ d.read = c.read
                /\ GoodCall(d)
  <2>1. PICK c \in calls : d = [c EXCEPT !.at = at(c)]
    OBVIOUS
  <2>2. GoodCall(c) /\ c.at \in {"here", "left", "gone"} /\ c.at # "left"
    BY DEF IInv, CallsInv, GoodCall, Requests, Navigate
  <2>3. at(c) \in {"left", "gone"} /\ (at(c) = "gone" => ~c.answered)
    BY <2>2 DEF GoodCall
  <2> DEFINE q == at(c)
  <2>4. q \in {"here", "left", "gone"} /\ (q = "gone" => ~c.answered) /\ d = [c EXCEPT !.at = q]
    BY <2>1, <2>3
  <2> HIDE DEF q
  <2>5. /\ GoodCall(d) /\ d.at = q
        /\ d.op = c.op /\ d.by = c.by /\ d.ver = c.ver /\ d.read = c.read
    BY <2>2, <2>4, MovedIsGood
  <2> QED
    BY <2>1, <2>2, <2>5 DEF q
<1>4. calls' = MountCalls(storage) \cup kept
  BY DEF Navigate
<1> HIDE DEF kept
<1>5. \A d \in calls' : d \in kept \/ d \in Loads
  BY <1>1, <1>4
<1>6. \A d \in calls' : GoodCall(d) /\ (d.at = "here" => d.by # "delete" /\ d.op # "delete")
  BY <1>3, <1>5, LoadsAreGood
<1>7. ASSUME NEW d \in calls', d.at = "left" PROVE d \in kept
  BY <1>5, <1>7, LoadsAreGood
<1>8. PageInv(calls', "left", old')
  <2>1. CASE \A d \in calls' : d.at # "left"
    BY <2>1 DEF PageInv
  <2>2. CASE \E d \in calls' : d.at = "left"
    <3>1. old' = store
      BY <2>2 DEF Navigate, LeftBehind
    <3>2. ASSUME NEW d \in calls', d.at = "left", d.op = "delete" PROVE Restorable(d, store)
      <4>1. PICK c \in calls : /\ c.at = "here" /\ d.op = c.op /\ d.ver = c.ver /\ d.read = c.read
        BY <1>3, <1>7, <3>2
      <4> QED
        BY <3>2, <4>1 DEF IInv, CallsInv, PageInv, Restorable
    <3>3. ASSUME NEW d \in calls', NEW e \in calls', d.at = "left", e.at = "left",
                 d.by = "delete", e.by = "delete"
          PROVE  d = e
      <4>1. PICK c \in calls : c.at = "here" /\ d = [c EXCEPT !.at = at(c)] /\ d.by = c.by
        BY <1>3, <1>7, <3>3
      <4>2. PICK b \in calls : b.at = "here" /\ e = [b EXCEPT !.at = at(b)] /\ e.by = b.by
        BY <1>3, <1>7, <3>3
      <4> QED
        BY <3>3, <4>1, <4>2 DEF IInv, CallsInv, PageInv
    <3> QED
      BY <3>1, <3>2, <3>3 DEF PageInv
  <2> QED
    BY <2>1, <2>2
<1>9. CallsInv'
  BY <1>6, <1>8 DEF CallsInv, PageInv
<1>10. Bounded'
  BY InstructionsConstants DEF IInv, Bounded, Navigate, Acts
<1> QED
  BY <1>1, <1>2, <1>9, <1>10 DEF IInv, Bounded

LEMMA UserStep ==
    ASSUME IInv, User
    PROVE  IInv'
  BY ClickSectionStep, ClickTemplateStep, RequestSelectVersionStep, RequestSelectDefaultStep,
     EditStep, RequestResetTemplateStep, CreateVersionStep, DeployVersionStep,
     UndeployVersionStep, RequestDeleteVersionStep, ConfirmActionStep, CancelDialogStep,
     ReloadStep, NavigateStep
     DEF User

-----------------------------------------------------------------------------
(* The server. *)
LEMMA TablesTyped ==
    ASSUME table \in Tables
    PROVE  /\ \A v \in Versions, s \in Sections, text \in [Files -> Texts \cup {Empty}] :
                 Created(table, v, s, text) \in Tables
           /\ \A v \in Versions : Deploys(table, v) \in Tables /\ Deleted(table, v) \in Tables
           /\ \A s \in Sections : Undeployed(table, s) \in Tables /\ Listed(table, s) \in Lists
<1>1. ASSUME NEW v \in Versions, NEW s \in Sections, NEW text \in [Files -> Texts \cup {Empty}]
      PROVE  Created(table, v, s, text) \in Tables
  BY DEF Tables, Created
<1>2. ASSUME NEW v \in Versions PROVE Deploys(table, v) \in Tables
  BY DEF Tables, Deploys
<1>3. ASSUME NEW v \in Versions PROVE Deleted(table, v) \in Tables
  BY DEF Tables, Deleted
<1>4. ASSUME NEW s \in Sections PROVE Undeployed(table, s) \in Tables
  BY DEF Tables, Undeployed
<1>5. ASSUME NEW s \in Sections PROVE Listed(table, s) \in Lists
  <2>1. OfSection(table, s) \in SUBSET Versions
    BY DEF OfSection
  <2>2. Listed(table, s) \in [OfSection(table, s) -> BOOLEAN]
    BY <2>1 DEF Listed, Tables
  <2> QED
    BY <2>1, <2>2 DEF Lists
<1> QED
  BY <1>1, <1>2, <1>3, <1>4, <1>5

LEMMA AnsweredStep ==
    ASSUME IInv, table' \in Tables, NEW c \in calls, ~c.answered, NEW ok \in BOOLEAN,
           NEW list \in Lists, Answered(c, ok, list)
    PROVE  IInv'
<1> DEFINE x == [c EXCEPT !.answered = TRUE, !.ok = ok, !.list = list]
<1>1. GoodCall(c)
  BY DEF IInv, CallsInv
<1>2. x \in Requests
  BY <1>1 DEF GoodCall, Requests
<1>3. /\ x.op = c.op /\ x.by = c.by /\ x.at = c.at /\ x.ver = c.ver /\ x.sec = c.sec
      /\ x.read = c.read /\ x.answered = TRUE /\ x.ok = ok
  BY <1>1 DEF GoodCall, Requests
<1>4. \A d \in calls' : d \in calls \ {c} \/ (d = x /\ c.at # "gone")
  BY DEF Answered
<1> HIDE DEF x
<1>5. c.at # "gone" => GoodCall(x)
  BY <1>1, <1>2, <1>3 DEF GoodCall
<1>6. \A d \in calls' : GoodCall(d)
  BY <1>4, <1>5 DEF IInv, CallsInv
<1>7. ASSUME NEW p \in {"here", "left"}, NEW st, PageInv(calls, p, st)
      PROVE  PageInv(calls', p, st)
  <2>1. ASSUME NEW d \in calls', d.at = p, d.op = "delete" PROVE Restorable(d, st)
    <3>1. CASE d \in calls
      BY <1>7, <2>1, <3>1 DEF PageInv
    <3>2. CASE d = x
      BY <1>3, <1>7, <2>1, <3>2 DEF PageInv, Restorable
    <3> QED
      BY <1>4, <3>1, <3>2
  <2>2. \A d, e \in calls' : d.at = p /\ e.at = p /\ d.by = "delete" /\ e.by = "delete" => d = e
    BY <1>3, <1>4, <1>7 DEF PageInv
  <2> QED
    BY <2>1, <2>2 DEF PageInv
<1>8. PageInv(calls', "here", store) /\ PageInv(calls', "left", old)
  BY <1>7 DEF IInv, CallsInv
<1>9. UNCHANGED <<store, old, storage, writer, gestures, elsewhere>>
  BY DEF Answered
<1> QED
  BY <1>6, <1>8, <1>9 DEF IInv, CallsInv, StorageInv

LEMMA ServeStep ==
    ASSUME IInv, NEW c \in calls, Serve(c)
    PROVE  IInv'
<1>1. ~c.answered /\ table \in Tables /\ c \in Requests
  BY DEF Serve, IInv, CallsInv, GoodCall
<1>2. c.op \in {"list", "create", "deploy", "undeploy"} => c.sec \in Sections
  BY <1>1 DEF IInv, CallsInv, GoodCall, Requests
<1>3. c.op \in {"detail", "delete"} => c.ver \in Versions
  BY <1>1 DEF IInv, CallsInv, GoodCall, Requests
<1>4. \A v \in Versions : table[v].there \in BOOLEAN /\ table[v].live \in BOOLEAN
  BY <1>1 DEF Tables
<1>5. CASE c.op = "list" /\ Answered(c, TRUE, Listed(table, c.sec)) /\ UNCHANGED table
  BY <1>1, <1>2, <1>5, TablesTyped, AnsweredStep
<1>6. CASE c.op = "detail" /\ Answered(c, table[c.ver].there, NoList) /\ UNCHANGED table
  BY <1>1, <1>3, <1>4, <1>6, NothingListed, AnsweredStep
<1>7. CASE /\ c.op = "create" /\ Answered(c, TRUE, NoList)
           /\ \E v \in NextVersion(table) : table' = Created(table, v, c.sec, c.text)
  <2>1. c.text \in [Files -> Texts \cup {Empty}]
    BY <1>1 DEF Requests
  <2>2. table' \in Tables
    BY <1>1, <1>2, <1>7, <2>1, TablesTyped DEF NextVersion
  <2> QED
    BY <1>1, <1>7, <2>2, NothingListed, AnsweredStep
<1>8. CASE /\ c.op = "deploy" /\ Answered(c, table[c.ver].there, NoList)
           /\ table' = IF table[c.ver].there THEN Deploys(table, c.ver) ELSE table
  <2>1. c.ver \in Versions
    BY <1>8 DEF IInv, CallsInv, GoodCall, Requests
  <2>2. table' \in Tables
    BY <1>1, <1>8, <2>1, TablesTyped
  <2> QED
    BY <1>1, <1>4, <1>8, <2>1, <2>2, NothingListed, AnsweredStep
<1>9. CASE c.op = "undeploy" /\ table' = Undeployed(table, c.sec) /\ Answered(c, TRUE, NoList)
  BY <1>1, <1>2, <1>9, TablesTyped, NothingListed, AnsweredStep
<1>10. CASE /\ c.op = "delete"
            /\ table' = IF table[c.ver].there /\ ~table[c.ver].live THEN Deleted(table, c.ver) ELSE table
            /\ Answered(c, table[c.ver].there /\ ~table[c.ver].live, NoList)
  <2>1. table' \in Tables
    BY <1>1, <1>3, <1>10, TablesTyped
  <2>2. (table[c.ver].there /\ ~table[c.ver].live) \in BOOLEAN
    OBVIOUS
  <2> QED
    BY <1>1, <1>10, <2>1, <2>2, NothingListed, AnsweredStep
<1> QED
  BY <1>5, <1>6, <1>7, <1>8, <1>9, <1>10 DEF Serve

-----------------------------------------------------------------------------
(* Answers delivered, and lost. *)
LEMMA RestFrame ==
    ASSUME IInv, UNCHANGED <<table, gestures, elsewhere>>, NEW c \in calls, c.at # "gone"
    PROVE  /\ Bounded' /\ table \in Tables
           /\ GoodCall(c) /\ c.at \in {"here", "left"}
           /\ GoodStore(StoreOf(c)) /\ DialogOK(StoreOf(c)) /\ PageInv(calls, c.at, StoreOf(c))
           /\ \A d \in calls : GoodCall(d)
  BY DEF IInv, Bounded, CallsInv, GoodCall, Requests, StoreOf

(* The requests that an answer sends, from the page the answer is for. *)
LEMMA PostedIsGood ==
    ASSUME NEW cs, \A e \in cs : GoodCall(e), NEW p \in {"here", "left"},
           NEW posted, \A m \in posted : \E e \in cs : m = [e EXCEPT !.at = p],
           NEW C, NEW d \in Sent(C, posted), d \notin C
    PROVE  \E e \in cs : GoodCall(d) /\ d.op = e.op /\ d.by = e.by /\ d.at = p
<1>1. PICK m \in posted, n \in 1..MaxCopies : d = [m EXCEPT !.copy = n]
  BY SentIs
<1>2. PICK e \in cs : m = [e EXCEPT !.at = p]
  OBVIOUS
<1>3. GoodCall(m) /\ m.op = e.op /\ m.by = e.by /\ m.at = p
  <2>1. GoodCall(e) /\ p \in {"here", "left", "gone"} /\ p # "gone"
    OBVIOUS
  <2> QED
    BY <1>2, <2>1, MovedIsGood
<1>4. GoodCall(d) /\ d.op = m.op /\ d.by = m.by /\ d.at = m.at
  BY <1>1, <1>3, CopiesAreGood
<1> QED
  BY <1>3, <1>4

(* An answer lands on its page: the store of that page becomes st1, the     *)
(* other page keeps what it has.                                            *)
LEMMA LandsCalls ==
    ASSUME IInv, NEW c \in calls, c.at # "gone", NEW st1, GoodStore(st1),
           NEW cs, \A e \in cs : GoodCall(e) /\ e.at = "here", Lands(c, st1, cs)
    PROVE  \A d \in calls' :
              \/ d \in calls \ {c} \/ d \in Loads
              \/ \E e \in cs : GoodCall(d) /\ d.op = e.op /\ d.by = e.by /\ d.at = c.at
<1>1. st1 \in Stores
  BY DEF GoodStore
<1>2. CASE c.at = "here" /\ Becomes(st1, calls \ {c}, cs)
  <2> SUFFICES ASSUME NEW d \in calls', NEW e \in cs, NEW n \in 1..MaxCopies, d = [e EXCEPT !.copy = n]
               PROVE  GoodCall(d) /\ d.op = e.op /\ d.by = e.by /\ d.at = c.at
    BY <1>1, <1>2, BecomesCalls
  <2> QED
    BY <1>2, CopiesAreGood
<1>3. CASE c.at = "left" /\ BecomesLeft(st1, calls \ {c}, cs)
  <2> SUFFICES ASSUME NEW d \in calls', d \notin calls \ {c}
               PROVE  \E e \in cs : GoodCall(d) /\ d.op = e.op /\ d.by = e.by /\ d.at = c.at
    OBVIOUS
  <2> DEFINE posted == {[e EXCEPT !.at = "left"] : e \in cs}
  <2>1. \A e \in cs : GoodCall(e)
    OBVIOUS
  <2>2. d \in Sent(calls \ {c}, posted)
    BY <1>3 DEF BecomesLeft
  <2>3. \A m \in posted : \E e \in cs : m = [e EXCEPT !.at = "left"]
    OBVIOUS
  <2> HIDE DEF posted
  <2>4. \E e \in cs : GoodCall(d) /\ d.op = e.op /\ d.by = e.by /\ d.at = "left"
    BY <2>1, <2>2, <2>3, PostedIsGood
  <2> QED
    BY <1>3, <2>4
<1> QED
  BY <1>2, <1>3 DEF Lands

LEMMA LandsStep ==
    ASSUME IInv, UNCHANGED <<table, gestures, elsewhere>>, NEW c \in calls, c.at # "gone",
           NEW st1, GoodStore(st1), DialogOK(st1),
           NEW cs, \A e \in cs : GoodCall(e) /\ e.at = "here", Lands(c, st1, cs),
           PageInv(calls', c.at, st1)
    PROVE  IInv'
<1>1. \A d \in calls' :
         \/ d \in calls \ {c} \/ d \in Loads
         \/ \E e \in cs : GoodCall(d) /\ d.op = e.op /\ d.by = e.by /\ d.at = c.at
  BY LandsCalls
<1>2. \A d \in calls' : GoodCall(d)
  BY <1>1, RestFrame, LoadsAreGood
<1>3. ASSUME NEW p \in {"here", "left"}, p # c.at, NEW st, PageInv(calls, p, st)
      PROVE  PageInv(calls', p, st)
  <2>1. \A d \in calls' : d.at = p => d \in calls \/ (d.by # "delete" /\ d.op # "delete")
    BY <1>1, <1>3, LoadsAreGood
  <2> QED
    BY <1>3, <2>1 DEF PageInv
<1>4. Bounded'
  BY RestFrame
<1>5. CASE c.at = "here" /\ Becomes(st1, calls \ {c}, cs)
  <2>1. store' = st1 /\ old' = old /\ StorageInv'
    BY <1>5, BecomesFrame
  <2>2. PageInv(calls', "left", old)
    BY <1>3, <1>5 DEF IInv, CallsInv
  <2> QED
    BY <1>2, <1>4, <1>5, <2>1, <2>2 DEF IInv, CallsInv, Bounded
<1>6. CASE c.at = "left" /\ BecomesLeft(st1, calls \ {c}, cs)
  <2>1. store' = store /\ StorageInv'
    BY <1>6, KeepsMerged DEF BecomesLeft, StorageInv
  <2>2. PageInv(calls', "here", store)
    BY <1>3, <1>6 DEF IInv, CallsInv
  <2>3. GoodStore(old') /\ DialogOK(old')
    BY <1>6, FreshIsGood DEF BecomesLeft, LeftBehind
  <2>4. PageInv(calls', "left", old')
    <3>1. CASE \E d \in calls' : d.at = "left"
      BY <1>6, <3>1 DEF BecomesLeft, LeftBehind
    <3>2. CASE \A d \in calls' : d.at # "left"
      BY <3>2 DEF PageInv
    <3> QED
      BY <3>1, <3>2
  <2> QED
    BY <1>2, <1>4, <2>1, <2>2, <2>3, <2>4 DEF IInv, CallsInv, Bounded
<1> QED
  BY <1>5, <1>6 DEF Lands

(* An answer that leaves the dialog, with the requests it brings about. *)
LEMMA ArrivalStep ==
    ASSUME IInv, UNCHANGED <<table, gestures, elsewhere>>, NEW c \in calls, c.at # "gone", NEW st1,
           Quiet(StoreOf(c), st1), NEW cs, Lands(c, st1, cs),
           \A e \in cs : GoodCall(e) /\ e.at = "here" /\ e.by # "delete" /\ e.op # "delete"
    PROVE  IInv'
<1>1. GoodStore(st1) /\ DialogOK(st1)
  BY RestFrame DEF Quiet, DialogOK
<1>2. \A d \in calls' : d \in calls \/ (d.by # "delete" /\ d.op # "delete")
  BY <1>1, LandsCalls, LoadsAreGood
<1>3. PageInv(calls', c.at, st1)
  <2>1. PageInv(calls, c.at, StoreOf(c))
    BY RestFrame
  <2>2. ASSUME NEW d \in calls', d.at = c.at, d.op = "delete" PROVE Restorable(d, st1)
    <3>1. Restorable(d, StoreOf(c))
      BY <1>2, <2>1, <2>2 DEF PageInv
    <3> QED
      BY <3>1 DEF Restorable, Quiet
  <2> QED
    BY <1>2, <2>1, <2>2 DEF PageInv
<1> QED
  BY <1>1, <1>3, LandsStep

LEMMA LoadsArriveStep ==
    ASSUME IInv, UNCHANGED <<table, gestures, elsewhere>>, NEW c \in calls, c.at # "gone", NEW st1,
           Quiet(StoreOf(c), st1), NEW cs, cs \subseteq Loads, Lands(c, st1, cs)
    PROVE  IInv'
<1>1. \A e \in cs : GoodCall(e) /\ e.at = "here" /\ e.by # "delete" /\ e.op # "delete"
  <2> SUFFICES ASSUME NEW e \in cs
               PROVE  GoodCall(e) /\ e.at = "here" /\ e.by # "delete" /\ e.op # "delete"
    OBVIOUS
  <2>1. e \in Loads
    OBVIOUS
  <2> QED
    BY <2>1, LoadsAreGood
<1> QED
  BY <1>1, ArrivalStep

(* The last answer of a deletion closes its dialog. *)
LEMMA DeletionEndsStep ==
    ASSUME IInv, UNCHANGED <<table, gestures, elsewhere>>, NEW c \in calls, c.at # "gone",
           c.by = "delete", NEW st, GoodStore(st), NEW cs, cs \subseteq Loads,
           Lands(c, DialogGone(st), cs)
    PROVE  IInv'
<1> DEFINE st1 == DialogGone(st)
<1>1. Assistant \in Sections
  BY InstructionsConstants
<1>2. GoodStore(st1) /\ st1.dialog = "none"
  BY <1>1, KeepsDialogGone, DialogFrame
<1> HIDE DEF st1
<1>3. Lands(c, st1, cs)
  BY DEF st1
<1>4. \A e \in cs : GoodCall(e) /\ e.at = "here" /\ e.by # "delete"
  <2> SUFFICES ASSUME NEW e \in cs PROVE GoodCall(e) /\ e.at = "here" /\ e.by # "delete"
    OBVIOUS
  <2>1. e \in Loads
    OBVIOUS
  <2> QED
    BY <2>1, LoadsAreGood
<1>5. \A d \in calls' : d.by = "delete" => d \in calls \ {c}
  BY <1>2, <1>3, <1>4, LandsCalls, LoadsAreGood
<1>6. \A d \in calls' : d.at = c.at => d.by # "delete"
  BY <1>5, RestFrame DEF PageInv
<1>7. \A d \in calls' : GoodCall(d)
  BY <1>2, <1>3, <1>4, LandsCalls, LoadsAreGood, RestFrame
<1>8. PageInv(calls', c.at, st1)
  BY <1>6, <1>7 DEF PageInv, GoodCall
<1>9. DialogOK(st1)
  BY <1>2 DEF DialogOK
<1> QED
  BY <1>2, <1>3, <1>4, <1>8, <1>9, LandsStep

LEMMA AfterDeleteStep ==
    ASSUME IInv, UNCHANGED <<table, gestures, elsewhere>>, NEW c \in calls, c.at # "gone", NEW st1,
           Quiet(StoreOf(c), st1), NEW cs, cs \subseteq Loads,
           Lands(c, AfterDelete(st1, c), cs)
    PROVE  IInv'
<1>1. CASE c.by = "delete"
  BY <1>1, DeletionEndsStep DEF AfterDelete, Quiet
<1>2. CASE c.by # "delete"
  BY <1>2, LoadsArriveStep DEF AfterDelete
<1> QED
  BY <1>1, <1>2

LEMMA ListOfDeletion ==
    ASSUME NEW s \in Sections, s # None
    PROVE  /\ GoodCall(Call("list", s, None, "delete")) /\ Call("list", s, None, "delete").op = "list"
           /\ Call("list", s, None, "delete").at = "here"
<1>1. "list" \in Ops /\ "delete" \in Bys /\ None \in Versions \cup {None}
  BY DEF Ops, Bys
<1> DEFINE e == Call("list", s, None, "delete")
<1>2. /\ e \in Requests /\ e.op = "list" /\ e.sec = s /\ e.by = "delete" /\ e.at = "here"
      /\ e.read = NoRead /\ ~e.answered /\ ~e.ok
  BY <1>1, CallIs
<1> HIDE DEF e
<1>3. GoodCall(e) /\ e.op = "list" /\ e.at = "here"
  BY <1>2, NothingRead DEF GoodCall
<1> QED
  BY <1>3 DEF e

LEMMA DeliverDeletion ==
    ASSUME IInv, UNCHANGED <<table, gestures, elsewhere>>, NEW c \in calls, c.at # "gone",
           c.op = "delete",
           Lands(c, DeletedVersion(StoreOf(c), c.ver, c.read),
                 {Call("list", StoreOf(c).active, None, "delete")})
    PROVE  IInv'
<1> DEFINE from == StoreOf(c)
           st1  == DeletedVersion(from, c.ver, c.read)
           e    == Call("list", from.active, None, "delete")
<1>1. GoodCall(c) /\ c.by = "delete" /\ Restorable(c, from) /\ GoodStore(from) /\ DialogOK(from)
  BY RestFrame DEF PageInv, GoodCall
<1> HIDE DEF from
<1>2. from.active \in Sections /\ from.sel \in {from.target, None} /\ from.active # None
  BY <1>1 DEF Restorable, GoodStore, Stores, DialogOK
<1>3. Quiet(from, st1)
  BY <1>1, <1>2, QuietDeleted
<1>4. GoodCall(e) /\ e.op = "list" /\ e.at = "here"
  BY <1>2, ListOfDeletion
<1> HIDE DEF st1, e
<1>5. GoodStore(st1) /\ Lands(c, st1, {e})
  BY <1>3 DEF Quiet, st1, e, from
<1>6. \A d \in calls' :
         d \in calls \ {c} \/ d \in Loads \/ d.op = "list"
  BY <1>4, <1>5, LandsCalls
<1>7. \A d \in calls' : d.at = c.at => d.op # "delete"
  BY <1>1, <1>6, RestFrame, LoadsAreGood DEF PageInv, GoodCall
<1>8. ASSUME NEW d \in calls', NEW b \in calls', d.at = c.at, b.at = c.at,
             d.by = "delete", b.by = "delete"
      PROVE  d = b
  <2>1. \A x \in calls \ {c} : x.at = c.at => x.by # "delete"
    BY <1>1, RestFrame DEF PageInv
  <2>2. CASE c.at = "here"
    <3>1. st1 \in Stores /\ Becomes(st1, calls \ {c}, {e})
      BY <1>5, <2>2 DEF Lands, GoodStore
    <3>2. PICK n \in 1..MaxCopies :
              \A x \in calls' : x \in calls \ {c} \/ x \in Loads \/ x = [e EXCEPT !.copy = n]
      BY <3>1, BecomesWithOne
    <3> QED
      BY <1>8, <2>1, <3>2, LoadsAreGood
  <2>3. CASE c.at = "left"
    <3> DEFINE m == [e EXCEPT !.at = "left"]
    <3>1. calls' = Sent(calls \ {c}, {m})
      BY <1>5, <2>3 DEF Lands, BecomesLeft
    <3> HIDE DEF m
    <3> DEFINE sent == [m EXCEPT !.copy = CHOOSE n \in Copies(calls \ {c}, m) : TRUE]
    <3>2. calls' \subseteq (calls \ {c}) \cup {sent}
      BY <3>1 DEF Sent
    <3> HIDE DEF sent
    <3> QED
      BY <1>8, <2>1, <3>2
  <2> QED
    BY <2>2, <2>3, RestFrame
<1>9. PageInv(calls', c.at, st1)
  BY <1>7, <1>8 DEF PageInv
<1>10. DialogOK(st1)
  BY <1>1, <1>2, <1>3 DEF Quiet, DialogOK
<1> QED
  BY <1>4, <1>5, <1>9, <1>10, LandsStep

(* The two loads that follow a deployment's answer. *)
DeployLoads(sec) == {Call("list", sec, None, "deploy"), Call("deployed", sec, None, "deploy")}

LEMMA DeployLoadsAreGood ==
    ASSUME NEW sec \in Sections, sec # None
    PROVE  \A e \in DeployLoads(sec) : GoodCall(e) /\ e.by = "deploy" /\ e.op \in {"list", "deployed"}
<1> DEFINE a == Call("list", sec, None, "deploy")
           b == Call("deployed", sec, None, "deploy")
<1>1. GoodCall(a) /\ a.op = "list" /\ a.by = "deploy"
  BY CallIsGood DEF Ops
<1>2. GoodCall(b) /\ b.op = "deployed" /\ b.by = "deploy"
  BY CallIsGood DEF Ops
<1> QED
  BY <1>1, <1>2 DEF DeployLoads

LEMMA DeploySends ==
    ASSUME NEW sec \in Sections, sec # None, NEW p \in {"here", "left"},
           NEW posted, \A m \in posted : \E e \in DeployLoads(sec) : m = [e EXCEPT !.at = p],
           NEW C, NEW d \in Sent(C, posted), d \notin C
    PROVE  GoodCall(d) /\ d.by # "delete" /\ d.op # "delete"
<1>1. \A e \in DeployLoads(sec) : GoodCall(e) /\ e.by = "deploy" /\ e.op \in {"list", "deployed"}
  BY DeployLoadsAreGood
<1>2. \A e \in DeployLoads(sec) : GoodCall(e)
  BY <1>1
<1>3. \E e \in DeployLoads(sec) : GoodCall(d) /\ d.op = e.op /\ d.by = e.by /\ d.at = p
  BY <1>2, PostedIsGood
<1> QED
  BY <1>1, <1>3

(* A deployment's answer changes no store; two loads follow on its page. *)
LEMMA DeployReturns ==
    ASSUME IInv, UNCHANGED <<table, gestures, elsewhere>>, NEW c \in calls, c.at # "gone",
           c.op \in {"deploy", "undeploy"}, UNCHANGED <<store, old, storage, writer>>,
           calls' = Sent(calls \ {c}, {[d EXCEPT !.at = c.at] :
                          d \in {Call("list", c.sec, None, "deploy"),
                                 Call("deployed", c.sec, None, "deploy")}})
    PROVE  IInv'
<1> DEFINE posted == {[d EXCEPT !.at = c.at] : d \in DeployLoads(c.sec)}
           others == calls \ {c}
<1>1. c.sec \in Sections /\ c.sec # None /\ c.at \in {"here", "left"}
  BY RestFrame DEF GoodCall, Requests
<1>2. \A m \in posted : \E e \in DeployLoads(c.sec) : m = [e EXCEPT !.at = c.at]
  OBVIOUS
<1>3. calls' = Sent(others, posted) /\ others \subseteq calls
  BY DEF DeployLoads
<1> HIDE DEF posted, others
<1>4. \A d \in Sent(others, posted) : d \in others \/ (GoodCall(d) /\ d.by # "delete" /\ d.op # "delete")
  BY <1>1, <1>2, DeploySends
<1>5. \A d \in calls' : d \in calls \/ (GoodCall(d) /\ d.by # "delete" /\ d.op # "delete")
  BY <1>3, <1>4
<1>6. Quiet(store, store) /\ StorageInv'
  BY QuietSame DEF IInv, StorageInv
<1> QED
  BY <1>5, <1>6, RestFrame, QuietStep

LEMMA DeliverStep ==
    ASSUME IInv, NEW c \in calls, Deliver(c)
    PROVE  IInv'
<1> DEFINE from == StoreOf(c)
<1>1. UNCHANGED <<table, gestures, elsewhere>> /\ c.at # "gone"
  BY DEF Deliver
<1>2. GoodStore(from) /\ GoodCall(c) /\ table \in Tables
  BY <1>1, RestFrame
<1>3. CASE /\ c.op = "disk"
           /\ Lands(c, LoadedDiskTemplates(from),
                    IF LoadedDiskTemplates(from).active = from.active THEN {}
                    ELSE LoadDetail(LoadedDiskTemplates(from), LoadedDiskTemplates(from).sel))
  <2> DEFINE st == LoadedDiskTemplates(from)
             cs == IF st.active = from.active THEN {} ELSE LoadDetail(st, st.sel)
  <2>1. Quiet(from, st)
    BY <1>2, QuietLoadedDisk
  <2>2. st.sel \in Versions \cup {None}
    BY <2>1 DEF Quiet, GoodStore, Stores
  <2> HIDE DEF st
  <2>3. cs \subseteq Loads
    BY <2>2, LoadDetailLoads
  <2> HIDE DEF cs
  <2>4. Lands(c, st, cs)
    BY <1>3 DEF st, cs
  <2> QED
    BY <1>1, <2>1, <2>3, <2>4, LoadsArriveStep
<1>4. CASE /\ c.op = "list"
           /\ Lands(c, AfterDelete(LoadedVersions(from, c.sec, c.list), c),
                    IF c.at = "here" THEN ListEffects(AfterDelete(LoadedVersions(from, c.sec, c.list), c))
                    ELSE {})
  <2> DEFINE st  == LoadedVersions(from, c.sec, c.list)
             st1 == AfterDelete(st, c)
             cs  == IF c.at = "here" THEN ListEffects(st1) ELSE {}
  <2>1. c.sec \in Sections /\ c.list \in Lists
    BY <1>2, <1>4 DEF GoodCall, Requests
  <2>2. Quiet(from, st)
    BY <1>2, <2>1, QuietLoadedVersions
  <2> HIDE DEF st
  <2>3. st1 \in Stores
    BY <2>2, KeepsDialogGone DEF AfterDelete, Quiet, GoodStore
  <2>4. cs \subseteq Loads
    BY <2>3, ListEffectsLoad
  <2> HIDE DEF cs
  <2>5. Lands(c, AfterDelete(st, c), cs)
    BY <1>4 DEF st, cs
  <2> QED
    BY <1>1, <2>2, <2>4, <2>5, AfterDeleteStep
<1>5. CASE /\ c.op = "deployed"
           /\ \E v \in Deployed(table, c.sec) : Lands(c, [from EXCEPT !.deployed = v], {})
  <2>1. PICK v \in Deployed(table, c.sec) : Lands(c, [from EXCEPT !.deployed = v], {})
    BY <1>5
  <2>2. v \in Versions \cup {Empty}
    BY DEF Deployed, OfSection
  <2>3. Quiet(from, [from EXCEPT !.deployed = v])
    BY <1>2, <2>2, QuietDeployed
  <2> QED
    BY <1>1, <2>1, <2>3, LoadsArriveStep
<1>6. CASE c.op = "detail" /\ Lands(c, LoadedDetail(from, c.ver), {})
  <2>1. c.ver \in Versions
    BY <1>2, <1>6 DEF GoodCall, Requests
  <2>2. Quiet(from, LoadedDetail(from, c.ver))
    BY <1>2, <2>1, QuietLoadedDetail
  <2> QED
    BY <1>1, <1>6, <2>2, LoadsArriveStep
<1>7. CASE /\ c.op = "create"
           /\ Lands(c, CreatedVersion(from), {Call("list", c.sec, None, "create")})
  <2> DEFINE e == Call("list", c.sec, None, "create")
  <2>1. c.sec \in Sections /\ c.sec # None
    BY <1>2, <1>7 DEF GoodCall, Requests
  <2>2. GoodCall(e) /\ e.op = "list" /\ e.by = "create" /\ e.at = "here"
    BY <2>1, CallIsGood DEF Ops
  <2> HIDE DEF e
  <2>3. Quiet(from, CreatedVersion(from))
    BY <1>2, KeepsCreatedVersion DEF Quiet, CreatedVersion, GoodStore, Stores
  <2>4. Lands(c, CreatedVersion(from), {e})
    BY <1>7 DEF e
  <2> QED
    BY <1>1, <2>2, <2>3, <2>4, ArrivalStep
<1>8. CASE /\ c.op \in {"deploy", "undeploy"}
           /\ calls' = Sent(calls \ {c}, {[d EXCEPT !.at = c.at] :
                           d \in {Call("list", c.sec, None, "deploy"),
                                  Call("deployed", c.sec, None, "deploy")}})
           /\ UNCHANGED <<store, old, storage, writer>>
  BY <1>1, <1>8, DeployReturns
<1>9. CASE /\ c.op = "delete"
           /\ Lands(c, DeletedVersion(from, c.ver, c.read),
                    {Call("list", from.active, None, "delete")})
  BY <1>1, <1>9, DeliverDeletion
<1> QED
  BY <1>3, <1>4, <1>5, <1>6, <1>7, <1>8, <1>9 DEF Deliver

LEMMA FailStep ==
    ASSUME IInv, NEW c \in calls, Fail(c)
    PROVE  IInv'
<1>1. UNCHANGED <<table, gestures, elsewhere>> /\ c.at # "gone"
  BY DEF Fail
<1>2. GoodStore(StoreOf(c))
  BY <1>1, RestFrame
<1>3. CASE c.op = "detail"
  <2>1. Lands(c, DetailFailed(StoreOf(c)), {})
    BY <1>3 DEF Fail
  <2> QED
    BY <1>1, <1>2, <2>1, QuietDetailFailed, LoadsArriveStep
<1>4. CASE c.op # "detail"
  <2>1. Lands(c, AfterDelete(StoreOf(c), c), {})
    BY <1>4 DEF Fail
  <2> QED
    BY <1>1, <1>2, <2>1, QuietSame, AfterDeleteStep
<1> QED
  BY <1>3, <1>4

LEMMA ColleagueStep ==
    ASSUME IInv, Colleague
    PROVE  IInv'
<1>1. table \in Tables
  BY DEF IInv
<1>2. \A text \in Written : [f \in Files |-> text] \in [Files -> Texts \cup {Empty}]
  BY InstructionsConstants
<1>3. table' \in Tables
  <2>1. CASE \E v \in NextVersion(table), s \in Sections, text \in Written :
                table' = Created(table, v, s, [f \in Files |-> text])
    BY <1>1, <1>2, <2>1, TablesTyped DEF NextVersion
  <2>2. CASE \E v \in Versions : table' = Deploys(table, v) \/ table' = Deleted(table, v)
    BY <1>1, <2>2, TablesTyped
  <2>3. CASE \E s \in Sections : table' = Undeployed(table, s)
    BY <1>1, <2>3, TablesTyped
  <2> QED
    BY <2>1, <2>2, <2>3 DEF Colleague
<1>4. elsewhere' \in 0..MaxElsewhere /\ UNCHANGED <<store, old, storage, writer, calls, gestures>>
  BY InstructionsConstants DEF IInv, Colleague
<1> QED
  BY <1>3, <1>4 DEF IInv, CallsInv, StorageInv

-----------------------------------------------------------------------------
LEMMA InvInit == Init => IInv
<1> SUFFICES ASSUME Init PROVE IInv
  OBVIOUS
<1>1. table \in Tables
  <2>1. PICK text \in Written, saved \in SUBSET {1} :
            table = [v \in Versions |->
                        IF v \in saved
                        THEN [there |-> TRUE, sec |-> Assistant, live |-> FALSE,
                              text |-> [f \in Files |-> text]]
                        ELSE NoVersion]
    BY DEF Init
  <2>2. NoVersion \in [there : BOOLEAN, sec : Sections \cup {None}, live : BOOLEAN,
                       text : [Files -> Texts \cup {Empty}]]
    BY InstructionsConstants DEF NoVersion
  <2>3. [there |-> TRUE, sec |-> Assistant, live |-> FALSE, text |-> [f \in Files |-> text]]
          \in [there : BOOLEAN, sec : Sections \cup {None}, live : BOOLEAN,
               text : [Files -> Texts \cup {Empty}]]
    BY InstructionsConstants
  <2> QED
    BY <2>1, <2>2, <2>3 DEF Tables
<1>2. /\ store = Merged(Fresh) /\ old = Fresh /\ storage = store /\ writer = "here"
      /\ calls = MountCalls(store) /\ gestures = 0 /\ elsewhere = 0
  BY DEF Init
<1>3. GoodStore(store) /\ store.dialog = "none" /\ GoodStore(old) /\ DialogOK(old)
  BY <1>2, FreshIsGood, KeepsMerged
<1>4. StorageInv /\ DialogOK(store)
  BY <1>2, <1>3 DEF StorageInv, DialogOK
<1>5. \A c \in calls : GoodCall(c) /\ c.by # "delete" /\ c.op # "delete"
  <2>1. MountCalls(store) \subseteq Loads
    BY <1>3, MountCallsLoad DEF GoodStore
  <2> QED
    BY <1>2, <2>1, LoadsAreGood
<1>6. CallsInv
  BY <1>5 DEF CallsInv, PageInv
<1> QED
  BY <1>1, <1>2, <1>3, <1>4, <1>6, InstructionsConstants DEF IInv

LEMMA InvNext == IInv /\ [Next]_vars => IInv'
<1>1. ASSUME IInv, Next PROVE IInv'
  BY <1>1, UserStep, ServeStep, DeliverStep, FailStep, ColleagueStep DEF Next
<1>2. ASSUME IInv, UNCHANGED vars PROVE IInv'
  BY <1>2 DEF vars, IInv, CallsInv, StorageInv
<1> QED
  BY <1>1, <1>2

(* The strengthened invariant holds in every reachable state. *)
THEOREM Invariance == Spec => []IInv
  BY InvInit, InvNext, PTL DEF Spec

(* The rows, the stores and the requests always have their types. *)
THEOREM TypeCorrect == Spec => []TypeOK
<1>1. IInv => TypeOK
  BY DEF IInv, GoodStore, CallsInv, GoodCall, StorageInv, TypeOK
<1> QED
  BY <1>1, Invariance, PTL

(* The editor shows the draft of the open template: no detail that arrives  *)
(* late, no failure and no reload of the page can put anything over it.     *)
THEOREM EditorSafe == Spec => []EditorShowsDraft
<1>1. IInv => EditorShowsDraft
  BY DEF IInv, GoodStore, Shows, EditorShowsDraft
<1> QED
  BY <1>1, Invariance, PTL

(* The toolbar's selection is the one remembered for the open section.      *)
THEOREM SelectionSafe == Spec => []SelectionAgrees
<1>1. IInv => SelectionAgrees
  BY DEF IInv, GoodStore, Agrees, SelectionAgrees
<1> QED
  BY <1>1, Invariance, PTL

-----------------------------------------------------------------------------
(* Drafts. *)
LEMMA DraftsFrame ==
    ASSUME NEW st, GoodStore(st)
    PROVE  /\ \A s \in Sections : SetActiveSection(st, s).drafts = st.drafts
           /\ \A v : SelectVersion(st, v).drafts = DraftsOutside(st, st.active)
           /\ SelectDefault(st).drafts = DraftsOutside(st, st.active)
           /\ CloseConfirmDialog(st).drafts = st.drafts
           /\ DialogGone(st).drafts = st.drafts
  BY DEF GoodStore, Stores, SetActiveSection, SelectVersion, SelectDefault, CloseConfirmDialog,
         DialogGone

Touched(f) == store.drafts[f] # None /\ store'.drafts[f] # store.drafts[f]

Excused(f) ==
    \/ store.template = f /\ \E text \in Texts : Edit(text)
    \/ store.template = f /\ store.dialog = "reset" /\ ConfirmAction
    \/ SectionOf[f] = store.active /\ store.dialog \in {"switch", "default"} /\ ConfirmAction
    \/ SaveReturns
    \/ writer = "left" /\ (Reload \/ Navigate)

LEMMA GesturesTouch ==
    ASSUME IInv, User, NEW f \in Files, Touched(f)
    PROVE  Excused(f)
<1>1. GoodStore(store) /\ table \in Tables
  BY DEF IInv
<1>2. store'.drafts # store.drafts
  BY DEF Touched
<1>3. ASSUME store'.drafts = DraftsOutside(store, store.active) PROVE SectionOf[f] = store.active
  BY <1>3 DEF Touched, DraftsOutside
<1>4. ~\E s \in Sections : ClickSection(s)
  BY <1>1, <1>2, DraftsFrame, BecomesStore DEF ClickSection
<1>5. ~\E g \in Files : ClickTemplate(g)
  BY <1>1, <1>2, SelectTemplateFrame, BecomesStore DEF ClickTemplate
<1>6. ~\E v \in Versions : RequestSelectVersion(v)
  <2> SUFFICES ASSUME NEW v \in Versions, RequestSelectVersion(v) PROVE FALSE
    OBVIOUS
  <2>1. CASE HasUnsavedChangesInSection(store, store.active)
    <3>1. store' = [store EXCEPT !.dialog = "switch", !.target = v]
      BY <2>1, BecomesStore DEF RequestSelectVersion
    <3> QED
      BY <1>1, <1>2, <3>1 DEF GoodStore, Stores
  <2>2. CASE ~HasUnsavedChangesInSection(store, store.active)
    <3>1. store'.drafts = DraftsOutside(store, store.active)
      BY <1>1, <2>2, DraftsFrame, BecomesStore DEF RequestSelectVersion
    <3> QED
      BY <1>3, <2>2, <3>1 DEF HasUnsavedChangesInSection, Touched
  <2> QED
    BY <2>1, <2>2
<1>7. ~RequestSelectDefault
  <2> SUFFICES ASSUME RequestSelectDefault PROVE FALSE
    OBVIOUS
  <2>1. CASE HasUnsavedChangesInSection(store, store.active)
    <3>1. store' = [store EXCEPT !.dialog = "default", !.target = None]
      BY <2>1, BecomesStore DEF RequestSelectDefault
    <3> QED
      BY <1>1, <1>2, <3>1 DEF GoodStore, Stores
  <2>2. CASE ~HasUnsavedChangesInSection(store, store.active)
    <3>1. store'.drafts = DraftsOutside(store, store.active)
      BY <1>1, <2>2, DraftsFrame, BecomesStore DEF RequestSelectDefault
    <3> QED
      BY <1>3, <2>2, <3>1 DEF HasUnsavedChangesInSection, Touched
  <2> QED
    BY <2>1, <2>2
<1>8. ASSUME NEW text \in Texts, Edit(text) PROVE Excused(f)
  <2>1. store' = UpdateContent(store, store.template, text)
    BY <1>8, BecomesStore DEF Edit
  <2>2. store'.drafts = [store.drafts EXCEPT ![store.template] =
                            IF text = GetBaseContent(store, store.template) THEN None ELSE text]
    BY <1>1, <2>1 DEF UpdateContent, GoodStore, Stores
  <2>3. store.template = f
    BY <1>1, <2>2 DEF Touched, GoodStore, Stores
  <2> QED
    BY <1>8, <2>3 DEF Excused
<1>9. ~(RequestResetTemplate \/ RequestDeleteVersion \/ CancelDialog)
  <2>1. ~RequestResetTemplate
    <3>1. RequestResetTemplate => store' = [store EXCEPT !.dialog = "reset"]
      BY BecomesStore DEF RequestResetTemplate
    <3> QED
      BY <1>1, <1>2, <3>1 DEF GoodStore, Stores
  <2>2. ~RequestDeleteVersion
    <3>1. RequestDeleteVersion => store' = [store EXCEPT !.dialog = "delete", !.target = store.sel]
      BY BecomesStore DEF RequestDeleteVersion
    <3> QED
      BY <1>1, <1>2, <3>1 DEF GoodStore, Stores
  <2>3. ~CancelDialog
    BY <1>1, <1>2, DraftsFrame, BecomesStore DEF CancelDialog
  <2> QED
    BY <2>1, <2>2, <2>3
<1>10. ~(CreateVersion \/ DeployVersion \/ UndeployVersion)
  BY <1>2, BecomesStore DEF CreateVersion, DeployVersion, UndeployVersion
<1>11. ASSUME ConfirmAction PROVE Excused(f)
  <2>1. CASE /\ store.dialog = "switch"
             /\ store' = CloseConfirmDialog(SelectVersion(store, store.target))
    <3>1. store.target \in Versions /\ store.active # None
      BY <1>1, <2>1 DEF IInv, DialogOK, GoodStore, Stores
    <3>2. GoodStore(SelectVersion(store, store.target))
      BY <1>1, <3>1, KeepsSelectVersion
    <3>3. store'.drafts = DraftsOutside(store, store.active)
      BY <1>1, <2>1, <3>2, DraftsFrame
    <3> QED
      BY <1>3, <1>11, <2>1, <3>3 DEF Excused
  <2>2. CASE store.dialog = "default" /\ store' = CloseConfirmDialog(SelectDefault(store))
    <3>1. store.active # None
      BY <2>2 DEF IInv, DialogOK
    <3>2. GoodStore(SelectDefault(store))
      BY <1>1, <3>1, KeepsSelectDefault
    <3>3. store'.drafts = DraftsOutside(store, store.active)
      BY <1>1, <2>2, <3>2, DraftsFrame
    <3> QED
      BY <1>3, <1>11, <2>2, <3>3 DEF Excused
  <2>3. CASE /\ store.dialog = "reset"
             /\ store' = CloseConfirmDialog(IF store.template = None THEN store ELSE ResetTemplate(store))
    <3>1. store.template # None
      BY <1>1, <1>2, <2>3, DraftsFrame
    <3>2. GoodStore(ResetTemplate(store))
      BY <1>1, <3>1, KeepsResetTemplate
    <3>3. store'.drafts = ResetTemplate(store).drafts
      BY <2>3, <3>1, <3>2, DraftsFrame
    <3>4. store'.drafts = [store.drafts EXCEPT ![store.template] = None]
      BY <1>1, <3>3 DEF ResetTemplate, GoodStore, Stores
    <3>5. store.template = f
      BY <1>1, <3>4 DEF Touched, GoodStore, Stores
    <3> QED
      BY <1>11, <2>3, <3>5 DEF Excused
  <2>4. CASE DeleteVersion
    BY <1>2, <2>4, BecomesStore DEF DeleteVersion
  <2> QED
    BY <1>11, <2>1, <2>2, <2>3, <2>4, BecomesStore DEF ConfirmAction
<1>12. ASSUME Reload \/ Navigate PROVE Excused(f)
  <2>1. store' = storage
    BY <1>12 DEF Reload, Navigate
  <2>2. writer = "left"
    BY <1>2, <2>1 DEF IInv, StorageInv
  <2> QED
    BY <1>12, <2>2 DEF Excused
<1> QED
  BY <1>4, <1>5, <1>6, <1>7, <1>8, <1>9, <1>10, <1>11, <1>12 DEF User

LEMMA AnswersTouch ==
    ASSUME IInv, NEW c \in calls, Deliver(c), NEW f \in Files, Touched(f)
    PROVE  SaveReturns
<1>1. GoodStore(store) /\ GoodCall(c) /\ table \in Tables
  BY DEF IInv, CallsInv
<1>2. store'.drafts # store.drafts
  BY DEF Touched
<1>3. c.at = "here" /\ StoreOf(c) = store
  <2>1. c.at \in {"here", "left"}
    BY <1>1 DEF Deliver, GoodCall, Requests
  <2>2. c.at = "left" => store' = store
    BY DEF Deliver, Lands, BecomesLeft
  <2> QED
    BY <1>2, <2>1, <2>2 DEF StoreOf
<1>4. \A st1, cs : Lands(c, st1, cs) => store' = st1
  BY <1>3, BecomesStore DEF Lands
<1>5. c.op # "disk"
  BY <1>1, <1>2, <1>3, <1>4, QuietLoadedDisk DEF Deliver
<1>6. c.op # "list"
  <2> SUFFICES ASSUME c.op = "list" PROVE FALSE
    OBVIOUS
  <2> DEFINE st == LoadedVersions(store, c.sec, c.list)
  <2>1. c.sec \in Sections /\ c.list \in Lists
    BY <1>1 DEF GoodCall, Requests
  <2>2. GoodStore(st) /\ st.drafts = store.drafts
    BY <1>1, <2>1, QuietLoadedVersions DEF Quiet
  <2>3. store' = AfterDelete(st, c)
    BY <1>3, <1>4 DEF Deliver
  <2> HIDE DEF st
  <2> QED
    BY <1>2, <2>2, <2>3, DraftsFrame DEF AfterDelete
<1>7. c.op # "deployed"
  <2> SUFFICES ASSUME c.op = "deployed" PROVE FALSE
    OBVIOUS
  <2>1. PICK v \in Deployed(table, c.sec) : store' = [store EXCEPT !.deployed = v]
    BY <1>3, <1>4 DEF Deliver
  <2> QED
    BY <1>1, <1>2, <2>1 DEF GoodStore, Stores
<1>8. c.op # "detail"
  <2> SUFFICES ASSUME c.op = "detail" PROVE FALSE
    OBVIOUS
  <2>1. c.ver \in Versions
    BY <1>1 DEF GoodCall, Requests
  <2>2. store' = LoadedDetail(store, c.ver)
    BY <1>3, <1>4 DEF Deliver
  <2> QED
    BY <1>1, <1>2, <2>1, <2>2, QuietLoadedDetail
<1>9. c.op \notin {"deploy", "undeploy"}
  BY <1>2 DEF Deliver
<1>10. c.op # "delete"
  <2> SUFFICES ASSUME c.op = "delete" PROVE FALSE
    OBVIOUS
  <2>1. store' = DeletedVersion(store, c.ver, c.read)
    BY <1>3, <1>4 DEF Deliver
  <2> QED
    BY <1>1, <1>2, <2>1 DEF DeletedVersion, GoodStore, Stores
<1>11. c.op = "create"
  BY <1>5, <1>6, <1>7, <1>8, <1>9, <1>10 DEF Deliver
<1> QED
  BY <1>3, <1>11 DEF SaveReturns

LEMMA FailureTouchesNothing ==
    ASSUME IInv, NEW c \in calls, Fail(c)
    PROVE  store'.drafts = store.drafts
<1>1. GoodStore(store) /\ c.at \in {"here", "left"}
  BY DEF IInv, CallsInv, GoodCall, Requests, Fail
<1>2. CASE c.at = "left"
  BY <1>2 DEF Fail, Lands, BecomesLeft
<1>3. CASE c.at = "here"
  <2>1. store' = (IF c.op = "detail" THEN DetailFailed(store) ELSE AfterDelete(store, c))
    BY <1>3, BecomesStore DEF Fail, Lands, StoreOf
  <2> QED
    BY <1>1, <2>1, QuietDetailFailed, DraftsFrame DEF AfterDelete
<1> QED
  BY <1>1, <1>2, <1>3

LEMMA DraftsStep ==
    ASSUME IInv, Next, NEW f \in Files, Touched(f)
    PROVE  Excused(f)
<1>1. CASE User
  BY <1>1, GesturesTouch
<1>2. CASE \E c \in calls : Deliver(c)
  BY <1>2, AnswersTouch DEF Excused
<1>3. CASE \E c \in calls : Fail(c)
  BY <1>3, FailureTouchesNothing DEF Touched
<1>4. CASE (\E c \in calls : Serve(c)) \/ Colleague
  <2>1. store' = store
    BY <1>4 DEF Serve, Answered, Colleague
  <2> QED
    BY <2>1 DEF Touched
<1> QED
  BY <1>1, <1>2, <1>3, <1>4 DEF Next

(* A draft is touched only by typing, a confirmed reset or switch and a     *)
(* save; the one other way is a page shown anew after an answer to the page *)
(* left behind was the last to write localStorage.                          *)
THEOREM DraftsSafe == Spec => DraftsAreKept
<1> DEFINE A == \A f \in Files : Touched(f) => Excused(f)
<1>1. IInv /\ [Next]_vars => [A]_vars
  BY DraftsStep
<1> HIDE DEF A
<1>2. Spec => [][A]_vars
  BY <1>1, Invariance, PTL DEF Spec
<1> QED
  BY <1>2 DEF DraftsAreKept, A, Touched, Excused
=============================================================================
