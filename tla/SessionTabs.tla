------------------------------ MODULE SessionTabs ------------------------------
(* The tabs of a browser session (src/browser/browser-session.ts): the tab map
   and the active tab, popups and their admission, navigation events, and the
   element references that each tab's registry hands out
   (src/browser/target-registry.ts).  The session's serial queue runs one tab
   operation at a time; popups and page events arrive between its awaits.     *)
EXTENDS Integers, Sequences, FiniteSets, SequencesExt

CONSTANTS Pages,        \* 1..n: pages of the browser, in the order they open
          MaxTabs,      \* this.maxTabs
          DocumentsOf,  \* bound: page -> documents it shows
          MaxRefs,      \* bound: references issued
          NoPage

ASSUME TabsConstants == MaxTabs \in Nat \ {0} /\ 1 \in Pages /\ NoPage = 0 /\ NoPage \notin Pages

VARIABLES tabs,      \* this.tabs in insertion order: the page of each tab
          tab,       \* page -> [main, rev]: the ManagedTab of a registered page
          active,    \* the page of the tab activeTabId names
          gen,       \* this.pageGeneration
          crashed,   \* this._state is ERROR
          page,      \* the browser's page: [open, doc, own]; the session opened it itself
          events,    \* "page" and "popup" events of a page still to be delivered
          navs,      \* framenavigated events of a page still to be delivered
          observers, \* how often installPageObservers ran for a page
          admission, \* popups behind popupAdmissionTail
          policy,    \* the first of them waits for the URL policy
          op,        \* the operation the queue runs: [kind, pc, on, other, rev]
          refs       \* the registries: [tab, rev, doc] per reference

tabVars == <<tabs, tab, active, gen, crashed, page, events, navs, observers, admission, policy, op, refs>>

NoTab == [main |-> FALSE, rev |-> 0]
NoOp == [kind |-> "none", pc |-> "none", on |-> NoPage, other |-> NoPage, rev |-> 0]
Registered == ToSet(tabs)
Unopened == {p \in Pages : page[p].doc = 0}
LessOne(s, p) == RemoveAt(s, CHOOSE k \in DOMAIN s : s[k] = p)

\* launchContext: the context's first page is the main tab, and is observed.
TabsInit ==
    /\ tabs = <<1>> /\ active = 1 /\ gen = 0 /\ crashed = FALSE
    /\ tab = [p \in Pages |-> IF p = 1 THEN [main |-> TRUE, rev |-> 0] ELSE NoTab]
    /\ page = [p \in Pages |-> [open |-> p = 1, doc |-> IF p = 1 THEN 1 ELSE 0, own |-> p = 1]]
    /\ events = [p \in Pages |-> 0]
    /\ navs = [p \in Pages |-> 0]
    /\ observers = [p \in Pages |-> IF p = 1 THEN 1 ELSE 0]
    /\ admission = << >> /\ policy = FALSE
    /\ op = NoOp /\ refs = {}

----------------------------------------------------------------------------
(* registerTab, activateTab, notePageGeneration *)

\* registerTab of a page that has a tab keeps the tab; observers are installed
\* by the caller, again.
Register(p, main) ==
    /\ tabs' = IF p \in Registered THEN tabs ELSE Append(tabs, p)
    /\ tab' = [tab EXCEPT ![p] = IF p \in Registered THEN [main |-> tab[p].main \/ main, rev |-> tab[p].rev]
                                 ELSE [main |-> main, rev |-> 0]]

Activate(p) == active' = p /\ gen' = tab'[p].rev

\* Mutant: the navigation of a background tab leaves its registry alone.
NoteActive(p, times) ==
    IF active = p
    THEN /\ tab' = [tab EXCEPT ![p].rev = @ + times] /\ gen' = tab'[p].rev
         /\ refs' = {r \in refs : r.tab # p}
    ELSE UNCHANGED <<tab, gen, refs>>

\* Every installed observer counts; setGeneration drops the tab's references.
NotePageGeneration(p, times) ==
    /\ tab' = [tab EXCEPT ![p].rev = @ + times]
    /\ gen' = IF active = p THEN tab'[p].rev ELSE gen
    /\ refs' = {r \in refs : r.tab # p}

----------------------------------------------------------------------------
(* Page events *)

\* The page shows another document; the session hears of it later.
Navigates(p) ==
    /\ page[p].open /\ page[p].doc < DocumentsOf[p]
    /\ page' = [page EXCEPT ![p].doc = @ + 1]
    /\ navs' = [navs EXCEPT ![p] = @ + 1]
    /\ UNCHANGED <<tabs, tab, active, gen, crashed, events, observers, admission, policy, op, refs>>

FrameNavigated(p) ==
    /\ navs[p] > 0 /\ navs' = [navs EXCEPT ![p] = @ - 1]
    /\ IF observers[p] > 0 /\ p \in Registered THEN NotePageGeneration(p, observers[p])
       ELSE UNCHANGED <<tab, gen, refs>>
    /\ UNCHANGED <<tabs, active, crashed, page, events, observers, admission, policy, op>>

\* A page opens a window: the context and the opener both report it.
WindowOpens(p) ==
    /\ p \in Unopened /\ \A q \in Unopened : p <= q
    /\ page' = [page EXCEPT ![p] = [open |-> TRUE, doc |-> 1, own |-> FALSE]]
    /\ events' = [events EXCEPT ![p] = 2]
    /\ UNCHANGED <<tabs, tab, active, gen, crashed, navs, observers, admission, policy, op, refs>>

\* on('page') and on('popup'): a page without a tab asks for admission.
PageEvent(p) ==
    /\ events[p] > 0 /\ events' = [events EXCEPT ![p] = @ - 1]
    /\ admission' = IF p \in Registered THEN admission ELSE Append(admission, p)
    /\ UNCHANGED <<tabs, tab, active, gen, crashed, page, navs, observers, policy, op, refs>>

\* on('crash') of a page: fatal for the session if it is the active tab's.
PageCrashes(p) ==
    /\ page[p].open /\ observers[p] > 0 /\ ~crashed
    /\ crashed' = (p = active)
    /\ page' = [page EXCEPT ![p].open = FALSE]
    /\ UNCHANGED <<tabs, tab, active, gen, events, navs, observers, admission, policy, op, refs>>

----------------------------------------------------------------------------
(* admitPopup, one at a time *)

Turned == admission' = Tail(admission)
CloseHead == page' = [page EXCEPT ![Head(admission)].open = FALSE]

\* A popup of a failed session, or one over the limit, is closed.
RefusePopup ==
    /\ admission # << >> /\ ~policy
    /\ crashed \/ Len(tabs) >= MaxTabs
    /\ CloseHead /\ Turned
    /\ UNCHANGED <<tabs, tab, active, gen, crashed, events, navs, observers, policy, op, refs>>

CheckPopup ==
    /\ admission # << >> /\ ~policy
    /\ ~crashed /\ Len(tabs) < MaxTabs
    /\ policy' = TRUE
    /\ UNCHANGED <<tabs, tab, active, gen, crashed, page, events, navs, observers, admission, op, refs>>

\* The policy answered, with yes for the blank page of the session's own
\* newPage(); the limit is not looked at again.
AdmitPopup ==
    /\ policy /\ policy' = FALSE
    /\ \/ /\ ~page[Head(admission)].own /\ CloseHead /\ UNCHANGED <<tabs, tab, observers>>
       \/ /\ Register(Head(admission), FALSE)
          /\ observers' = [observers EXCEPT ![Head(admission)] = @ + 1]
          /\ UNCHANGED page
    /\ Turned
    /\ UNCHANGED <<active, gen, crashed, events, navs, op, refs>>

----------------------------------------------------------------------------
(* Operations of the queue *)

Idle == op = NoOp /\ ~crashed

SwitchTab(p) ==
    /\ Idle /\ p \in Registered
    /\ UNCHANGED tab /\ Activate(p)
    /\ UNCHANGED <<tabs, crashed, page, events, navs, observers, admission, policy, op, refs>>

\* closeTab of the last tab first opens a replacement, which the context
\* reports as a new page before newPage() answers.
CloseTab(p) ==
    /\ Idle /\ p \in Registered
    /\ \/ /\ Len(tabs) > 1
          /\ op' = [NoOp EXCEPT !.kind = "close", !.pc = "closing", !.on = p]
          /\ UNCHANGED <<page, events>>
       \/ /\ Len(tabs) = 1
          /\ \E q \in Unopened :
             /\ \A r \in Unopened : q <= r
             /\ op' = [NoOp EXCEPT !.kind = "close", !.pc = "opening", !.on = p, !.other = q]
             /\ page' = [page EXCEPT ![q] = [open |-> TRUE, doc |-> 1, own |-> TRUE]]
             /\ events' = [events EXCEPT ![q] = 1]
    /\ UNCHANGED <<tabs, tab, active, gen, crashed, navs, observers, admission, policy, refs>>

\* newPage() answers.  An admission that can start has started by then: its
\* start is a microtask of the event.
ReplacementOpened ==
    /\ op.kind = "close" /\ op.pc = "opening" /\ events[op.other] = 0
    /\ admission = << >> \/ policy
    /\ IF op.other \in Registered THEN UNCHANGED <<tabs, tab, observers>>
       ELSE Register(op.other, TRUE) /\ observers' = [observers EXCEPT ![op.other] = @ + 1]
    /\ op' = [op EXCEPT !.pc = "closing"]
    /\ UNCHANGED <<active, gen, crashed, page, events, navs, admission, policy, refs>>

TabClosed ==
    /\ op.kind = "close" /\ op.pc = "closing" /\ op' = NoOp
    /\ page' = [page EXCEPT ![op.on].open = FALSE]
    /\ tabs' = LessOne(tabs, op.on)
    /\ refs' = {r \in refs : r.tab # op.on}
    /\ IF op.other # NoPage THEN tab' = [tab EXCEPT ![op.on] = NoTab] /\ Activate(op.other)
       ELSE IF active = op.on
       THEN tab' = [tab EXCEPT ![op.on] = NoTab, ![Head(tabs')].main = @ \/ tab[op.on].main] /\ Activate(Head(tabs'))
       ELSE tab' = [tab EXCEPT ![op.on] = NoTab] /\ UNCHANGED <<active, gen>>
    /\ UNCHANGED <<crashed, events, navs, observers, admission, policy>>

\* page.close() throws: the replacement is taken back.
TabCloseFails ==
    /\ op.kind = "close" /\ op.pc = "closing" /\ op' = NoOp
    /\ IF op.other = NoPage THEN UNCHANGED <<tabs, tab, page>>
       ELSE /\ tabs' = LessOne(tabs, op.other)
            /\ tab' = [tab EXCEPT ![op.other] = NoTab]
            /\ page' = [page EXCEPT ![op.other].open = FALSE]
    /\ UNCHANGED <<active, gen, crashed, events, navs, observers, admission, policy, refs>>

\* snapshot(): the revision is read once, the elements are read one by one.
SnapshotBegins ==
    /\ Idle
    /\ op' = [NoOp EXCEPT !.kind = "snapshot", !.pc = "reading", !.on = active, !.rev = gen]
    /\ UNCHANGED <<tabs, tab, active, gen, crashed, page, events, navs, observers, admission, policy, refs>>

\* register(): the reference carries the revision the snapshot began with.
ReadElement ==
    /\ op.kind = "snapshot" /\ Cardinality(refs) < MaxRefs
    /\ refs' = refs \cup {[tab |-> op.on, rev |-> op.rev, doc |-> page[op.on].doc]}
    /\ UNCHANGED <<tabs, tab, active, gen, crashed, page, events, navs, observers, admission, policy, op>>

SnapshotEnds ==
    /\ op.kind = "snapshot" /\ op' = NoOp
    /\ UNCHANGED <<tabs, tab, active, gen, crashed, page, events, navs, observers, admission, policy, refs>>

\* References expire after their time to live, or give way to newer ones.
RefExpires(r) ==
    /\ r \in refs /\ refs' = refs \ {r}
    /\ UNCHANGED <<tabs, tab, active, gen, crashed, page, events, navs, observers, admission, policy, op>>

TabsNext ==
    \/ \E p \in Pages : \/ Navigates(p) \/ FrameNavigated(p) \/ WindowOpens(p) \/ PageEvent(p)
                        \/ PageCrashes(p) \/ SwitchTab(p) \/ CloseTab(p)
    \/ RefusePopup \/ CheckPopup \/ AdmitPopup
    \/ ReplacementOpened \/ TabClosed \/ TabCloseFails
    \/ SnapshotBegins \/ ReadElement \/ SnapshotEnds
    \/ \E r \in refs : RefExpires(r)

TabsSpec == TabsInit /\ [][TabsNext]_tabVars

----------------------------------------------------------------------------
(* Properties *)

\* The active tab is one of the session's tabs, and the revision that writes
\* are compared with is its own, whatever background tabs navigated and
\* whichever tab was closed (activateTab, closeTab, notePageGeneration).
ActiveConsistent == active \in Registered /\ gen = tab[active].rev

\* resolve(): a reference that the registry would accept for the active tab.
Accepted(r) == r.tab = active /\ r.rev = gen

\* A reference that is accepted belongs to the document its page shows, also
\* if the snapshot was overtaken by a navigation or the tab navigated in the
\* background; the one exception is a navigation not yet reported.
RefsOfDocument == \A r \in refs : Accepted(r) => r.doc = page[active].doc \/ navs[active] > 0

\* The tab limit holds; only the replacement of the last tab may exceed it
\* while the close operation runs.
TabsBounded == Len(tabs) <= MaxTabs + (IF op.kind = "close" /\ op.other # NoPage THEN 1 ELSE 0)

\* The tab map, the active tab and the references agree with the pages that exist,
\* whatever navigates, opens or closes between two awaits of a tab operation.
TabsAgree == ActiveConsistent /\ RefsOfDocument /\ TabsBounded
=============================================================================
