----------------------------- MODULE ToolAdverts -----------------------------
(***************************************************************************)
(* TOOL_INPUT_SCHEMAS of mcp/schemas.ts, the JSON Schemas of tools/list,   *)
(* checked against the schemas that parse the call (ToolContracts): every  *)
(* object, one field at a time, with values at and just beyond each limit. *)
(***************************************************************************)
EXTENDS ToolContracts

SessionJson == [sessionId |-> Text(8, 128)]
TenantJson == [tenantId |-> Form(1, 64, "label"), tenantToken |-> Text(32, 4096)]
GuardJson == [actionId |-> Form(0, 64, "uuid"), expectedPageRevision |-> Whole(0, MaxSafeInteger),
              expectedTabId |-> Form(1, 128, "tab")]
TargetJson == Obj("roleTarget") \union Obj("labelTarget") \union Obj("testIdTarget") \union Obj("refTarget")
ProxyJson == Text(1, 2048) \union Obj("proxyConfig")
CookiesJson == Text(0, 500000) \union List(0, 1000, "cookie")
UrlJson == Type("text", 1, 2048, {"http", "otherScheme"})     \* format: "uri"

AdvertisedParts ==
    [roleTarget |-> Shape([role |-> Text(1, 64), name |-> Text(1, 500)], [exact |-> Flag]),
     labelTarget |-> Shape([label |-> Text(1, 500)], [exact |-> Flag]),
     testIdTarget |-> Shape([testId |-> Text(1, 128)], << >>),
     refTarget |-> Shape([ref |-> Text(1, 100)], << >>),
     condition |-> Shape([ref |-> Text(1, 100), state |-> Word({"visible", "hidden", "enabled"})], << >>)]

AdvertisedStart ==
    [browser_start |-> Shape(<< >>,
         [headless |-> Flag, engine |-> Word({"firefox", "chromium"}), profile |-> Form(1, 64, "name"),
          profileId |-> Text(1, 128), proxy |-> ProxyJson, countryCode |-> Text(2, 4), timezone |-> Text(1, 64),
          locale |-> Text(1, 32), geolocation |-> Obj("geolocation"), userAgent |-> Text(1, 1024), fingerprint |-> Flag,
          fingerprintSeed |-> Whole(0, MaxSeed), viewport |-> Obj("viewport"), seed |-> Whole(0, MaxSeed),
          workspaceName |-> Text(1, 128), workspaceRetention |-> Word({"destroy", "keep_until"})]),
     proxyConfig |-> Shape([server |-> Text(1, 2048)],
         [type |-> Word({"http", "https", "socks4", "socks5"}), username |-> Text(0, 256),
          password |-> Text(0, 256), bypass |-> Text(0, 2048)]),
     geolocation |-> Shape([latitude |-> Num(-90, 90), longitude |-> Num(-180, 180)], [accuracy |-> Num(0, 10000)]),
     viewport |-> Shape([width |-> Whole(800, 2560), height |-> Whole(600, 1440)], << >>)]

AdvertisedSessions ==
    [browser_status |-> Shape(SessionJson, << >>),
     browser_environment_diagnostics |-> Shape(SessionJson, << >>),
     browser_stop |-> Shape(SessionJson, << >>),
     browser_reopen_headed |-> Shape(SessionJson, << >>),
     browser_resume |-> Shape(SessionJson @@ [humanConfirmed |-> Yes], << >>),
     browser_handoff |-> Shape(SessionJson,
         [ttlMs |-> Whole(30000, 900000), reason |-> Word({"user_requested", "sensitive_step", "operator_review", "challenge"})]),
     browser_takeover |-> Shape(SessionJson @@ [leaseToken |-> Form(32, 256, "token"), humanConfirmed |-> Yes], << >>)]

AdvertisedWorkspaces ==
    LET workspace == [workspaceId |-> Form(8, 128, "wsp")] IN
    [workspace_list |-> Shape(<< >>, << >>),
     workspace_get |-> Shape(workspace, << >>),
     workspace_handoff |-> Shape(workspace, [reason |-> Text(1, 256)]),
     workspace_resume |-> Shape(workspace @@ [leaseId |-> Form(32, 256, "token"), humanConfirmed |-> Yes], << >>)]

AdvertisedTabs ==
    LET tab == SessionJson @@ [tabId |-> Form(1, 128, "tab")] IN
    [page_list_tabs |-> Shape(SessionJson, << >>),
     page_switch_tab |-> Shape(tab, << >>),
     page_close_tab |-> Shape(tab, << >>),
     browser_capabilities |-> Shape(<< >>, << >>)]

AdvertisedReads ==
    [page_fetch |-> Shape([url |-> UrlJson],
         [method |-> Word({"GET", "HEAD"}), timeoutMs |-> Whole(500, 60000), followRedirects |-> Flag]),
     page_open |-> Shape(SessionJson @@ [url |-> UrlJson],
         GuardJson @@ [waitUntil |-> Word({"domcontentloaded", "load"}), timeoutMs |-> Whole(1000, 60000)]),
     page_snapshot |-> Shape(SessionJson,
         [maxChars |-> Whole(100, 50000), maxBytes |-> Whole(100, MaxStepSnapshotBytes),
          format |-> Word({"structured", "compact"}), sinceSnapshotId |-> Form(8, 180, "snp")]),
     page_extract |-> Shape(SessionJson @@ [containerSelector |-> Text(1, 2048), fields |-> List(1, 32, "field")],
         [maxItems |-> Whole(1, 1000)]),
     field |-> Shape([name |-> Text(1, 64)],
         [selector |-> Text(0, 2048), attribute |-> Text(0, 64), trim |-> Flag, defaultValue |-> Text(0, 10000)]),
     page_screenshot |-> Shape(SessionJson, [fullPage |-> Flag])]

AdvertisedPages ==
    LET act == SessionJson @@ [target |-> TargetJson]
        timed == GuardJson @@ [timeoutMs |-> Whole(500, 30000)] IN
    [page_click |-> Shape(act, timed @@ [button |-> Word({"left"})]),
     page_type |-> Shape(act @@ [text |-> Text(0, 10000)], timed @@ [clear |-> Flag, submit |-> Flag, sensitive |-> Flag]),
     page_select |-> Ruled(act, timed @@ [value |-> Text(1, 1000), label |-> Text(1, 1000)], "exactly one", {"value", "label"}),
     page_scroll |-> Shape(SessionJson @@ [direction |-> Word({"up", "down", "left", "right"})],
         GuardJson @@ [amount |-> Whole(1, MaxScroll), target |-> TargetJson]),
     page_wait |-> Ruled(SessionJson,
         [milliseconds |-> Whole(50, 10000), condition |-> Obj("condition"), timeoutMs |-> Whole(500, 10000)],
         "exactly one", {"milliseconds", "condition"})]

AdvertisedLegacy ==
    LET op(name) == [op |-> Word({name})]
        timed == [timeoutMs |-> Whole(500, MaxDuration)] IN
    [page_workflow |-> Shape(SessionJson @@ [steps |-> List(1, MaxSteps, "legacy")],
         GuardJson @@ [timeoutMs |-> Whole(1000, MaxDuration), maxResultBytes |-> Whole(1000, MaxResultBytes)]),
     legacyOpen |-> Shape(op("open") @@ [url |-> UrlJson],
         [waitUntil |-> Word({"domcontentloaded", "load"}), timeoutMs |-> Whole(1000, MaxDuration)]),
     legacyClick |-> Shape(op("click") @@ [target |-> TargetJson], timed),
     legacyType |-> Shape(op("type") @@ [target |-> TargetJson, text |-> Text(0, 10000)],
                          timed @@ [clear |-> Flag, submit |-> Flag, sensitive |-> Flag]),
     legacySelect |-> Ruled(op("select") @@ [target |-> TargetJson], timed @@ [value |-> Text(1, 1000), label |-> Text(1, 1000)],
                            "exactly one", {"value", "label"}),
     legacyScroll |-> Shape(op("scroll") @@ [direction |-> Word({"up", "down", "left", "right"})],
                            [amount |-> Whole(1, MaxScroll), target |-> TargetJson]),
     legacyWait |-> Ruled(op("wait"),
         [timeoutMs |-> Whole(500, 10000), milliseconds |-> Whole(50, 10000), condition |-> Obj("condition")],
         "exactly one", {"milliseconds", "condition"}),
     \* This alternative has no "required".
     legacySnapshot |-> Shape(<< >>, op("snapshot") @@
         [maxChars |-> Whole(100, 50000), maxBytes |-> Whole(100, MaxStepSnapshotBytes), format |-> Word({"structured", "compact"})])]

AdvertisedSteps ==
    LET op(name) == [op |-> Word({name})] IN
    [page_workflow_execute |-> Shape(SessionJson @@ [steps |-> List(1, MaxSteps, "step")],
         GuardJson @@ [stopOn |-> List(1, 5, "stop")]),
     stepType |-> Shape(op("type") @@ [target |-> TargetJson, text |-> Text(0, 1000)], << >>),
     stepClick |-> Shape(op("click") @@ [target |-> TargetJson], << >>),
     stepSelect |-> Shape(op("select") @@ [target |-> TargetJson, values |-> List(1, 32, "text1to200")], << >>),
     stepScroll |-> Shape(op("scroll") @@ [direction |-> Word({"up", "down"})], [amount |-> Whole(1, MaxScroll)]),
     stepWait |-> Ruled(op("wait"), [milliseconds |-> Whole(1, 10000), target |-> TargetJson], "one or both", {"milliseconds", "target"}),
     stepSnapshot |-> Shape(op("snapshot"), [maxBytes |-> Whole(500, MaxStepSnapshotBytes), compact |-> Flag])]

AdvertisedTasks ==
    LET cluster == [projectId |-> Form(1, 64, "label"), runId |-> Form(1, 64, "label")]
        task == cluster @@ [mode |-> Word({"fetch", "browser"}), priority |-> Word({"LOW", "NORMAL", "HIGH", "CRITICAL"}),
                            extractionSchema |-> Obj("extraction"), maxRetries |-> Whole(0, 10), timeoutMs |-> Whole(1000, 120000)] IN
    [cluster_submit_task |-> Shape([url |-> UrlJson], task @@ TenantJson),
     extraction |-> Shape([containerSelector |-> Text(1, 2048), fields |-> List(1, 32, "field")], [maxItems |-> Whole(1, 1000)]),
     cluster_batch_submit |-> Shape([tasks |-> List(1, 500, "batchTask")], TenantJson),
     batchTask |-> Shape([url |-> UrlJson], task),
     cluster_status |-> Shape(<< >>, TenantJson),
     cluster_get_task |-> Shape([taskId |-> Text(1, 128)], TenantJson),
     cluster_list_tasks |-> Shape(<< >>, TenantJson @@ cluster @@
         [state |-> Word({"PENDING", "RUNNING", "COMPLETED", "FAILED", "RETRYING", "CANCELLED"}), limit |-> Whole(1, 500)])]

AdvertisedProfiles ==
    LET profile == [profileId |-> Text(1, 128)]
        format == [format |-> Word({"json", "netscape"})] IN
    [profile_create |-> Shape([name |-> Text(1, 128)],
         [profileId |-> Form(1, 128, "name"), description |-> Text(0, 1000), tags |-> List(0, 20, "text0to64"),
          proxy |-> ProxyJson, geo |-> Obj("geo"), engine |-> Word({"firefox", "chromium"}), userAgent |-> Text(0, 1024),
          initialCookies |-> CookiesJson, cookieFormat |-> Word({"json", "netscape"})]),
     geo |-> Shape(<< >>, [countryCode |-> Text(2, 4), timezone |-> Text(1, 64), locale |-> Text(1, 32),
                           geolocation |-> Obj("geolocation")]),
     cookie |-> Shape([name |-> Text(1, 256), value |-> Text(0, 10000), domain |-> Text(1, 256)],
         [path |-> Text(1, 512), expires |-> Num(-MaxSafeInteger, MaxSafeInteger), httpOnly |-> Flag,
          secure |-> Flag, sameSite |-> Word({"Strict", "Lax", "None"})]),
     profile_list |-> Shape(<< >>, << >>),
     profile_get |-> Shape(profile, << >>),
     profile_delete |-> Shape(profile, << >>),
     profile_export_cookies |-> Shape(profile, format)]

AdvertisedImports ==
    [profile_import_cookies |-> Shape([profileId |-> Text(1, 128), cookies |-> CookiesJson], [format |-> Word({"json", "netscape"})]),
     proxy_check |-> Shape([proxy |-> ProxyJson], << >>)]

\* Mutant: a tool added to the tables is forgotten in the list of tenant tools.
TenantScopedShort ==
    ({"browser_start"} \union DOMAIN EnforcedSessions \union DOMAIN EnforcedWorkspaces \union DOMAIN EnforcedPages
     \union DOMAIN EnforcedProfiles \union {"page_extract", "page_workflow"})
    \ {"browser_capabilities"}

\* TENANT_SCOPED_TOOL_NAMES: their schemas get the tenant's fields at the end.
TenantScoped ==
    ({"browser_start"} \union DOMAIN EnforcedSessions \union DOMAIN EnforcedWorkspaces \union DOMAIN EnforcedPages
     \union DOMAIN EnforcedProfiles \union {"page_extract", "page_workflow", "page_workflow_execute"})
    \ {"browser_capabilities"}

Advertised ==
    LET written == AdvertisedParts @@ AdvertisedStart @@ AdvertisedSessions @@ AdvertisedWorkspaces @@ AdvertisedReads
                   @@ AdvertisedPages @@ AdvertisedTabs
                   @@ AdvertisedLegacy @@ AdvertisedSteps @@ AdvertisedTasks
                   @@ AdvertisedProfiles @@ AdvertisedImports IN
    [s \in DOMAIN written |->
        IF s \in TenantScoped THEN [written[s] EXCEPT !.may = TenantJson @@ @] ELSE written[s]]

-----------------------------------------------------------------------------
(* Acceptance.  A value is [k, n, w]: kind, length or number, and form,    *)
(* word or shape; an input is the values of the fields that are present.   *)

FitsType(v, type) ==
    \E t \in type : /\ v.k = t.k /\ t.lo <= v.n /\ v.n <= t.hi
                    /\ v.w \in t.w \/ "any" \in t.w

FieldsPresent(in, shape) == {f \in shape.of : f \in DOMAIN in}

RuleHolds(in, shape) ==
    CASE shape.rule = "none" -> TRUE
      [] shape.rule = "exactly one" -> Cardinality(FieldsPresent(in, shape)) = 1
      [] shape.rule = "one or both" -> FieldsPresent(in, shape) # {}

\* strict() and additionalProperties: false
Accepts(shape, in) ==
    /\ DOMAIN shape.need \subseteq DOMAIN in
    /\ \A f \in DOMAIN in :
          \/ f \in DOMAIN shape.need /\ FitsType(in[f], shape.need[f])
          \/ f \in DOMAIN shape.may /\ FitsType(in[f], shape.may[f])
    /\ RuleHolds(in, shape)

FieldsOf(shape) == shape.need @@ shape.may

\* A value the type takes, and the values at the edges of it.
Edges(t) ==
    {[k |-> t.k, n |-> n, w |-> w] :
        n \in {t.lo - 1, t.lo, t.hi, t.hi + 1}, w \in t.w \union {"other"}}
Plain(type) == LET t == CHOOSE t \in type : TRUE IN [k |-> t.k, n |-> t.lo, w |-> CHOOSE w \in t.w : TRUE]
Values(s, f) ==
    UNION {Edges(t) : t \in (IF f \in DOMAIN FieldsOf(Enforced[s]) THEN FieldsOf(Enforced[s])[f] ELSE {})
                            \union (IF f \in DOMAIN FieldsOf(Advertised[s]) THEN FieldsOf(Advertised[s])[f] ELSE {})}

\* An object with its needed fields, one field changed, added or left out, and for a rule
\* every choice of its fields.
Base(s, more) ==
    LET shape == Enforced[s] IN
    [f \in DOMAIN shape.need \union more |-> Plain(FieldsOf(shape)[f])]
Probes(s) ==
    LET shape == Enforced[s]
        fields == DOMAIN FieldsOf(shape) \union DOMAIN FieldsOf(Advertised[s])
        bases == {Base(s, more) : more \in SUBSET shape.of} IN
    UNION {{b} \union {[g \in DOMAIN b \ {f} |-> b[g]] : f \in DOMAIN b}
               \union UNION {{(f :> v) @@ b : v \in Values(s, f)} : f \in fields}
           : b \in bases}

ContractGiven == \E s \in DOMAIN Enforced : Given("contract", [shape : {s}, object : Probes(s)])
ContractAnswers ==
    Answers("contract", [enforced |-> Accepts(Enforced[input.value.shape], input.value.object),
                         advertised |-> Accepts(Advertised[input.value.shape], input.value.object)])

\* Where the two tables disagree: a step of page_workflow that has no op, or waits for
\* more than ten seconds; a tenant inside an extraction schema; the scheme of a URL.
Drifted(v) ==
    \/ v.shape = "legacySnapshot" /\ "op" \notin DOMAIN v.object
    \/ v.shape = "legacyWait" /\ "timeoutMs" \in DOMAIN v.object /\ v.object.timeoutMs.n > 10000
    \/ v.shape = "extraction" /\ DOMAIN v.object \intersect DOMAIN TenantFields # {}
    \/ "url" \in DOMAIN v.object /\ v.object.url.w = "otherScheme"

\* Everywhere else a call is accepted exactly when it is valid by the schema that
\* tools/list announced for it, field by field and limit by limit, for both workflow
\* languages and every object nested in a tool's input.
ContractsAgree ==
    Evaluated("contract") /\ ~Drifted(input.value) => answer[1].enforced = answer[1].advertised
=============================================================================
