------------------------------ MODULE McpGateway ------------------------------
(* The MCP gateway (handleToolCall and call of src/mcp/server.ts, runtime-guard.ts,
   response.ts) over one session: a call is parsed, its attempt is recorded, it
   passes the guard, its semantic target is looked up in a fresh snapshot
   (target-registry.ts, adaptive-locator.ts) and the write runs in the session.
   The page changes on its own, and control moves, between any two steps. *)
EXTENDS Integers, Sequences, FiniteSets

CONSTANTS GatewayCalls,
          Names,          \* accessible names of page elements
          Similar,        \* pairs of names calculateTextSimilarity finds alike
          MaxGatewayRefs,        \* refs a registry keeps
          GuardBurst,          \* capacity of the guard's bucket
          MaxChanges      \* bound: changes of the page, of control and of the clock

\* A registry keeps some refs.
ASSUME RefsKept == MaxGatewayRefs \in Nat \ {0}

VARIABLES call,       \* call -> [phase, tool, wanted, actionId, ref, answer]
          dom,        \* elements of the page: id -> name, or "none"
          generation, \* page generation
          control,    \* READY, PAUSED_CHALLENGE or USER_CONTROLLED
          registry,   \* registered refs in order: [ref, name, generation]
          nextRef, cache, tokens, changes,
          attempts,   \* history: calls whose attempt the audit log has
          effects     \* history: [call, wanted, hit, twins] of the writes done

gatewayVars == <<call, dom, generation, control, registry, nextRef, cache, tokens, changes, attempts, effects>>

Elements == 1..2

\* TOOL_DEFINITIONS: the manager's method behind each tool. First the tools of a
\* browser session, then those of its page, then the services'.
SessionTools == [browser_start |-> "start", browser_status |-> "status", browser_stop |-> "stop",
    browser_environment_diagnostics |-> "environmentDiagnostics", browser_reopen_headed |-> "reopenHeaded",
    browser_resume |-> "resume", browser_handoff |-> "handoff", browser_takeover |-> "takeover",
    workspace_list |-> "listWorkspaces", workspace_get |-> "getWorkspace",
    workspace_handoff |-> "workspaceHandoff", workspace_resume |-> "workspaceResume"]
PageTools == [page_open |-> "open", page_snapshot |-> "snapshot", page_extract |-> "extract",
    page_screenshot |-> "screenshot", page_click |-> "click", page_type |-> "type", page_select |-> "select",
    page_scroll |-> "scroll", page_wait |-> "wait", page_workflow |-> "workflow",
    page_workflow_execute |-> "workflow", page_list_tabs |-> "listTabs", page_switch_tab |-> "switchTab",
    page_close_tab |-> "closeTab"]
ServiceTools == [page_fetch |-> "fetch", browser_capabilities |-> "capabilities",
    cluster_submit_task |-> "submitClusterTask", cluster_batch_submit |-> "submitClusterBatch",
    cluster_status |-> "getClusterStatus", cluster_get_task |-> "getClusterTask",
    cluster_list_tasks |-> "listClusterTasks", profile_create |-> "createProfile",
    profile_list |-> "listProfiles", profile_get |-> "getProfile", profile_delete |-> "deleteProfile",
    profile_export_cookies |-> "exportCookies", profile_import_cookies |-> "importCookies",
    proxy_check |-> "checkProxy"]

\* WRITE_TOOL_NAMES, the methods whose target is looked up first, and the tools
\* that ask for a tenant's credentials.
WriteTools == {"page_open", "page_click", "page_type", "page_select", "page_scroll", "page_workflow",
               "page_workflow_execute", "page_switch_tab", "page_close_tab"}
TargetTools == {t \in DOMAIN PageTools : PageTools[t] \in {"click", "type", "select", "scroll"}}
TenantTools == DOMAIN SessionTools \cup DOMAIN PageTools
ControlTools == {t \in DOMAIN SessionTools : SessionTools[t] \in {"handoff", "takeover", "resume",
                                                                "workspaceHandoff", "workspaceResume"}}
ReadTools == (TenantTools \cup DOMAIN ServiceTools) \ (WriteTools \cup ControlTools)

\* ERROR_CODES: what may cross the wire, of the codes raised below.
WireCodes == {"INVALID_INPUT", "UNAUTHENTICATED", "AUDIT_UNAVAILABLE", "SESSION_PAUSED_CHALLENGE",
              "USER_CONTROL_HARD_STOP", "RATE_LIMITED", "TARGET_NOT_FOUND", "TARGET_AMBIGUOUS",
              "STALE_TARGET", "ACTION_TIMEOUT", "INVALID_STATE", "INTERNAL_ERROR"}
Wire(code) == IF code \in WireCodes \cup {"ok"} THEN code ELSE "INTERNAL_ERROR"

NewCall == [phase |-> "idle", tool |-> "none", wanted |-> "none", actionId |-> "none", ref |-> 0,
            answer |-> "none"]

GatewayInit ==
    /\ call = [c \in GatewayCalls |-> NewCall]
    /\ dom \in [Elements -> Names \cup {"none"}] /\ generation = 0 /\ control = "READY"
    /\ registry = << >> /\ nextRef = 1 /\ cache = << >> /\ tokens = GuardBurst /\ changes = 0
    /\ attempts = {} /\ effects = {}

\* What the call asked for is over with it.
Answered(c, code) == [call EXCEPT ![c] = [NewCall EXCEPT !.phase = "done", !.answer = Wire(code)]]

-------------------------------------------------------------------------------
\* handleToolCall up to the attempt record; a schema error ends it.
Receive(c, tool, wanted, actionId) ==
    /\ call[c].phase = "idle"
    /\ LET asked == [NewCall EXCEPT !.tool = tool, !.wanted = wanted, !.actionId = actionId] IN
       \/ call' = [call EXCEPT ![c] = [asked EXCEPT !.phase = "audit"]]
       \/ call' = Answered(c, "INVALID_INPUT")
    /\ UNCHANGED <<dom, generation, control, registry, nextRef, cache, tokens, changes, attempts, effects>>

\* beforeCall: why the guard refuses the call.
Refusal(c) ==
    CASE call[c].tool \in WriteTools /\ control = "PAUSED_CHALLENGE" -> "SESSION_PAUSED_CHALLENGE"
      [] call[c].tool \in WriteTools /\ control = "USER_CONTROLLED" -> "USER_CONTROL_HARD_STOP"
      [] OTHER -> IF tokens < 1 THEN "RATE_LIMITED" ELSE "none"

\* The attempt record, the tenant's credentials, the guard and the beginning of
\* the call follow one another without an await.
Attempt(c) ==
    /\ call[c].phase = "audit"
    /\ \/ call' = Answered(c, "AUDIT_UNAVAILABLE") /\ UNCHANGED <<attempts, tokens>>
       \/ /\ attempts' = attempts \cup {c}
          /\ \/ /\ call[c].tool \in TenantTools
                /\ call' = Answered(c, "UNAUTHENTICATED") /\ UNCHANGED tokens
             \/ /\ Refusal(c) # "none"
                /\ call' = Answered(c, Refusal(c)) /\ UNCHANGED tokens
             \/ /\ Refusal(c) = "none" /\ tokens' = tokens - 1
                /\ call' = [call EXCEPT ![c].phase = IF call[c].tool \in TargetTools THEN "resolve" ELSE "act"]
    /\ UNCHANGED <<dom, generation, control, registry, nextRef, cache, changes, effects>>

-------------------------------------------------------------------------------
Present == {e \in Elements : dom[e] # "none"}

\* The place of an element in the snapshot.
Nth(e) == Cardinality({y \in Present : y <= e})

\* register, for every element of a snapshot: the oldest refs make room.
Added(i) == [ref |-> nextRef + i - 1, name |-> dom[CHOOSE e \in Present : Nth(e) = i], generation |-> generation]
RefreshedRegistry ==
    LET all == registry \o [i \in 1..Cardinality(Present) |-> Added(i)] IN
    SubSeq(all, IF Len(all) > MaxGatewayRefs THEN Len(all) - MaxGatewayRefs + 1 ELSE 1, Len(all))

\* scoreCandidate in percent, with the role that every element here has.
Score(wanted, name) ==
    CASE wanted = name -> 90 [] <<wanted, name>> \in Similar -> 85 [] OTHER -> 40

\* findAdaptiveTarget: the best element above the threshold, if no other comes near.
Adaptive(wanted) ==
    {e \in Present : /\ Score(wanted, dom[e]) >= 65
                     /\ \A o \in Present \ {e} : Score(wanted, dom[e]) - Score(wanted, dom[o]) >= 12}

Matching(wanted) == {e \in Present : dom[e] = wanted}

\* The element a description stands for, as a set of at most one.
Chosen(wanted) ==
    IF Cardinality(Matching(wanted)) = 1 THEN Matching(wanted)
    ELSE IF Matching(wanted) = {} THEN Adaptive(wanted) ELSE {}

\* resolveConcreteTarget: a snapshot registers new refs, one of them is taken.
Resolve(c) ==
    /\ call[c].phase = "resolve"
    /\ registry' = RefreshedRegistry /\ nextRef' = nextRef + Cardinality(Present)
    /\ call' = IF Chosen(call[c].wanted) = {}
               THEN Answered(c, IF Matching(call[c].wanted) = {} THEN "TARGET_NOT_FOUND" ELSE "TARGET_AMBIGUOUS")
               ELSE LET e == CHOOSE x \in Chosen(call[c].wanted) : TRUE IN
                    [call EXCEPT ![c].phase = "act", ![c].ref = nextRef + Nth(e) - 1]
    /\ UNCHANGED <<dom, generation, control, cache, tokens, changes, attempts, effects>>

-------------------------------------------------------------------------------
Fingerprint(c) == <<call[c].tool, call[c].ref>>
CachedFor(id) == {i \in DOMAIN cache : cache[i].actionId = id}
RefRecords(ref) == {i \in DOMAIN registry : registry[i].ref = ref}

\* Mutant: the element that was found in the snapshot is used as it is now.
TargetUnchecked(c) ==
    IF RefRecords(call[c].ref) = {} THEN [error |-> "TARGET_NOT_FOUND"]
    ELSE LET r == registry[CHOOSE i \in RefRecords(call[c].ref) : TRUE] IN
         IF r.generation # generation THEN [error |-> "STALE_TARGET"]
         ELSE [error |-> "none", hit |-> r.name]

\* resolve of the registry at the time of the action: the ref must be known and
\* of this page, and its description must fit exactly one element.
Target(c) ==
    IF RefRecords(call[c].ref) = {} THEN [error |-> "TARGET_NOT_FOUND"]
    ELSE LET r == registry[CHOOSE i \in RefRecords(call[c].ref) : TRUE] IN
         IF r.generation # generation THEN [error |-> "STALE_TARGET"]
         ELSE IF Cardinality(Matching(r.name)) # 1
              THEN [error |-> IF Matching(r.name) = {} THEN "TARGET_NOT_FOUND" ELSE "TARGET_AMBIGUOUS"]
              ELSE [error |-> "none", hit |-> r.name]

\* A read reaches the session and is answered.
ActRead(c) ==
    /\ call[c].phase = "act" /\ call[c].tool \in ReadTools
    /\ call' \in {Answered(c, "ok"), Answered(c, "ACTION_TIMEOUT")}
    /\ UNCHANGED <<dom, generation, control, registry, nextRef, cache, tokens, changes, attempts, effects>>

\* Control of the session passes to the person or comes back, which drops every
\* ref; the session refuses a step that does not fit its state.
ActControl(c) ==
    /\ call[c].phase = "act" /\ call[c].tool \in ControlTools
    /\ LET method == SessionTools[call[c].tool]
           to == CASE method \in {"handoff", "workspaceHandoff"} /\ control # "USER_CONTROLLED" -> "USER_CONTROLLED"
                   [] method \in {"takeover", "workspaceResume"} /\ control = "USER_CONTROLLED" -> "READY"
                   [] method = "resume" /\ control = "PAUSED_CHALLENGE" -> "READY"
                   [] OTHER -> "none" IN
       \/ /\ to # "none" /\ control' = to /\ call' = Answered(c, "ok")
          /\ IF to = "READY" THEN generation' = generation + 1 /\ registry' = << >>
             ELSE UNCHANGED <<generation, registry>>
       \/ UNCHANGED <<control, generation, registry>> /\ call' = Answered(c, "INVALID_STATE")
    /\ UNCHANGED <<dom, nextRef, cache, tokens, changes, attempts, effects>>

\* runIdempotentWrite of a call whose actionId is known, or without control.
ActKnown(c) ==
    /\ call[c].phase = "act" /\ call[c].tool \in WriteTools
    /\ \/ control = "USER_CONTROLLED" /\ call' = Answered(c, "USER_CONTROL_HARD_STOP")
       \/ /\ control # "USER_CONTROLLED" /\ call[c].actionId # "none"
          /\ \E i \in CachedFor(call[c].actionId) :
                call' = IF cache[i].fingerprint # Fingerprint(c) THEN Answered(c, "ACTION_ID_CONFLICT")
                        ELSE Answered(c, cache[i].result)
    /\ UNCHANGED <<dom, generation, control, registry, nextRef, cache, tokens, changes, attempts, effects>>

Hit(c) == [call |-> c, wanted |-> call[c].wanted, hit |-> Target(c).hit,
           twins |-> Cardinality(Matching(Target(c).hit))]

\* The write itself, once per actionId; one that fails late may have had its effect.
ActWrite(c) ==
    /\ call[c].phase = "act" /\ call[c].tool \in WriteTools /\ control # "USER_CONTROLLED"
    /\ call[c].actionId = "none" \/ CachedFor(call[c].actionId) = {}
    /\ \E result \in {"ok", "SESSION_PAUSED_CHALLENGE", "ACTION_TIMEOUT", Target(c).error} \ {"none"} :
          /\ control = "PAUSED_CHALLENGE" => result = "SESSION_PAUSED_CHALLENGE"
          /\ result = "ok" /\ call[c].tool \in TargetTools => Target(c).error = "none"
          /\ call[c].tool \notin TargetTools => result # Target(c).error
          /\ effects' \in IF call[c].tool \in TargetTools /\ control = "READY" /\ Target(c).error = "none"
                          THEN IF result = "ok" THEN {effects \cup {Hit(c)}} ELSE {effects, effects \cup {Hit(c)}}
                          ELSE {effects}
          /\ IF result = "ok" /\ call[c].tool = "page_open"
             THEN generation' = generation + 1 /\ registry' = << >> /\ dom' \in [Elements -> Names \cup {"none"}]
             ELSE UNCHANGED <<generation, registry, dom>>
          /\ cache' = IF call[c].actionId = "none" THEN cache
                      ELSE Append(cache, [actionId |-> call[c].actionId, fingerprint |-> Fingerprint(c),
                                          result |-> result])
          /\ call' = Answered(c, result)
    /\ UNCHANGED <<control, nextRef, tokens, changes, attempts>>

-------------------------------------------------------------------------------
\* The page rewrites an element, or navigates and every ref is dropped.
PageChanges ==
    /\ changes < MaxChanges /\ changes' = changes + 1
    /\ \/ \E e \in Elements, n \in Names \cup {"none"} : dom' = [dom EXCEPT ![e] = n] /\ UNCHANGED <<generation, registry>>
       \/ /\ generation' = generation + 1 /\ registry' = << >>
          /\ \E n \in Names : dom' = [e \in Elements |-> IF e = 1 THEN n ELSE "none"]
    /\ UNCHANGED <<call, control, nextRef, cache, tokens, attempts, effects>>

\* The session sees a challenge on the page.
ChallengeFound ==
    /\ changes < MaxChanges /\ changes' = changes + 1
    /\ control = "READY" /\ control' = "PAUSED_CHALLENGE"
    /\ UNCHANGED <<call, dom, generation, registry, nextRef, cache, tokens, attempts, effects>>

\* Time refills the bucket up to its capacity.
Refills ==
    /\ changes < MaxChanges /\ changes' = changes + 1
    /\ tokens < GuardBurst /\ tokens' = tokens + 1
    /\ UNCHANGED <<call, dom, generation, control, registry, nextRef, cache, attempts, effects>>

GatewayNext ==
    \/ \E c \in GatewayCalls, n \in Names, id \in {"none", "i1"} : Receive(c, "page_click", n, id)
    \/ \E c \in GatewayCalls, id \in {"none", "i1"} : Receive(c, "page_open", "none", id)
    \/ \E c \in GatewayCalls, t \in {"browser_status", "browser_handoff", "browser_takeover", "browser_resume"} :
          Receive(c, t, "none", "none")
    \/ \E c \in GatewayCalls : Attempt(c) \/ Resolve(c) \/ ActRead(c) \/ ActControl(c) \/ ActKnown(c) \/ ActWrite(c)
    \/ PageChanges \/ ChallengeFound \/ Refills

GatewaySpec == GatewayInit /\ [][GatewayNext]_gatewayVars

-------------------------------------------------------------------------------
\* A write lands on the one element that carries the name its snapshot was
\* resolved to, and that name is the caller's or alike, however the page and its
\* refs changed between the snapshot and the action.
ActsOnDescribed ==
    \A e \in effects : e.twins = 1 /\ (e.hit = e.wanted \/ <<e.wanted, e.hit>> \in Similar)

\* No call reaches the session before its attempt is on record: the audit log is
\* the fail-closed boundary.
EffectsAudited ==
    \A c \in GatewayCalls : call[c].phase \in {"resolve", "act"} \/ call[c].answer = "ok" => c \in attempts

\* A call of an agent acts on what it described, and on the record.
CallsAccountable == ActsOnDescribed /\ EffectsAudited
===============================================================================
