------------------------------ MODULE MCServices ------------------------------
(***************************************************************************)
(* The components that share no state with one another, in one run: the    *)
(* initial state chooses the part that runs, and the rest stay as they     *)
(* are.  The part "pure" evaluates one input of a pure function.           *)
(***************************************************************************)
EXTENDS AccountPlacement, MemoryQueue, AccountAdmission, AccountHealth,
        RpaService, ProxyPool, ProfileStore, ProfileBackup, PageFetch,
        McpGateway, StudioApi, StudioLists, StudioStreams, SnapshotHistory, SessionTabs,
        WorkflowLanguage, ToolAdverts, ChallengeSignals, NetworkPolicy

VARIABLE part

Targets2 == ("j1" :> "any") @@ ("j2" :> "d2")
TenantRequests ==
    {[tenant |-> "t1", account |-> "a", domain |-> "x", proxy |-> "p"],
     [tenant |-> "t1", account |-> "b", domain |-> "x", proxy |-> "q"],
     [tenant |-> "t2", account |-> "a", domain |-> "x", proxy |-> "p"]}
Limits == [tenant |-> 3, account |-> 1, domain |-> 2, proxy |-> 2]
SimilarNames == {<<"a", "a2">>, <<"a2", "a">>}
Sizes == ("small" :> 2) @@ ("big" :> 4) @@ ("huge" :> 6)
Documents == <<2, 1, 1>>
Screens == {[width |-> 1920, height |-> 1080], [width |-> 1366, height |-> 768], [width |-> 7, height |-> 5]}

accountVars== <<placementVars, memoryVars, admissionVars, healthVars, metricVars>>
workVars   == <<rpaVars, proxyVars, storeVars, backupVars, fetchVars>>
studioVars == <<gatewayVars, apiVars, listVars, streamVars, historyVars, tabVars>>
serviceVars == <<part, pureVars, accountVars, workVars, studioVars>>

Parts == {"placement", "memory", "admission", "health", "metrics", "rpa", "proxy", "store",
          "backup", "fetch", "gateway", "api", "lists", "streams", "history", "tabs"}

\* A part that does not run has one initial state.
Unused(p, condition) == IF part = p THEN TRUE ELSE condition

ServicesInit ==
    /\ \/ part \in Parts /\ NoInput
       \/ /\ part = "pure"
          /\ \/ LangGiven \/ TablesGiven \/ ContractGiven \/ ChallengeGiven \/ NetworkGiven
    /\ Unused("placement", beats = [n \in Nodes |-> [alive |-> TRUE, free |-> TRUE, ns |-> "n1"]]) /\ PlacementInit
    /\ record = Created("a") /\ ProxyInit   \* servers differ only in their names
    /\ Unused("store", legacy = TRUE /\ cookies = TRUE /\ meta = Metadata("p", "none", "no", TRUE)) /\ StoreInit
    /\ Unused("gateway", dom = [e \in Elements |-> "none"]) /\ GatewayInit
    /\ Unused("api", stored = [p \in ApiProfiles |-> [where |-> "live", ext |-> {}]]) /\ ApiInit
    /\ Unused("lists", catalog = [i \in Listed |-> 0]) /\ ListsInit
    /\ MemoryInit /\ AdmissionInit /\ HealthInit /\ MetricsInit /\ RpaInit
    /\ BackupInit /\ FetchInit /\ StreamsInit /\ HistoryInit /\ TabsInit

AccountNext ==
    \/ part = "placement" /\ PlacementNext /\ UNCHANGED <<memoryVars, admissionVars, healthVars, metricVars>>
    \/ part = "memory" /\ MemoryNext /\ UNCHANGED <<placementVars, admissionVars, healthVars, metricVars>>
    \/ part = "admission" /\ AdmissionNext /\ UNCHANGED <<placementVars, memoryVars, healthVars, metricVars>>
    \/ part = "health" /\ HealthNext /\ UNCHANGED <<placementVars, memoryVars, admissionVars, metricVars>>
    \/ part = "metrics" /\ MetricsNext /\ UNCHANGED <<placementVars, memoryVars, admissionVars, healthVars>>

WorkNext ==
    \/ part = "rpa" /\ RpaNext /\ UNCHANGED <<proxyVars, storeVars, backupVars, fetchVars>>
    \/ part = "proxy" /\ ProxyNext /\ UNCHANGED <<rpaVars, storeVars, backupVars, fetchVars>>
    \/ part = "store" /\ StoreNext /\ UNCHANGED <<rpaVars, proxyVars, backupVars, fetchVars>>
    \/ part = "backup" /\ BackupNext /\ UNCHANGED <<rpaVars, proxyVars, storeVars, fetchVars>>
    \/ part = "fetch" /\ FetchNext /\ UNCHANGED <<rpaVars, proxyVars, storeVars, backupVars>>

StudioNext ==
    \/ part = "gateway" /\ GatewayNext /\ UNCHANGED <<apiVars, listVars, streamVars, historyVars, tabVars>>
    \/ part = "api" /\ ApiNext /\ UNCHANGED <<gatewayVars, listVars, streamVars, historyVars, tabVars>>
    \/ part = "lists" /\ ListsNext /\ UNCHANGED <<gatewayVars, apiVars, streamVars, historyVars, tabVars>>
    \/ part = "streams" /\ StreamsNext /\ UNCHANGED <<gatewayVars, apiVars, listVars, historyVars, tabVars>>
    \/ part = "history" /\ HistoryNext /\ UNCHANGED <<gatewayVars, apiVars, listVars, streamVars, tabVars>>
    \/ part = "tabs" /\ TabsNext /\ UNCHANGED <<gatewayVars, apiVars, listVars, streamVars, historyVars>>

PureNext == LangAnswers \/ TablesAnswers \/ ContractAnswers \/ ChallengeAnswers \/ NetworkAnswers

ServicesNext ==
    \/ AccountNext /\ UNCHANGED <<part, pureVars, workVars, studioVars>>
    \/ WorkNext /\ UNCHANGED <<part, pureVars, accountVars, studioVars>>
    \/ StudioNext /\ UNCHANGED <<part, pureVars, accountVars, workVars>>
    \/ PureNext /\ UNCHANGED <<part, accountVars, workVars, studioVars>>

ServicesSpec == ServicesInit /\ [][ServicesNext]_serviceVars

-----------------------------------------------------------------------------
(* Promises that two modules keep together. *)

\* What src/operations counts is right at its limits: permits of evicted tenants,
\* the refill of their buckets, and the buckets an alert is computed from.
OperationsBounded == PermitsCounted /\ RateBounded /\ AlertComplete

\* A client that follows a listing misses nothing that stayed, sees nothing twice,
\* and what it exports can be imported again (the paged lists, csvCell and
\* parseCsvLine, and the grid of windows of src/api/server.ts).
ListingsExact == ListedOnce /\ TasksReached /\ CsvRoundTrip /\ ImportAllOrNone /\ TilesDisjoint

\* A tool call that is announced is parsed, a step that is parsed can be run, and
\* its result keeps to the budget it was given: the two schemas of src/mcp/schemas.ts
\* and the validation of src/browser/workflow.ts.
ContractsHold == ContractsAgree /\ ValidIsInvokable /\ ResultFits
===============================================================================
