--------------------------- MODULE ToolContracts ---------------------------
(***************************************************************************)
(* mcp/schemas.ts writes the contract of every tool twice: the Zod schemas *)
(* that a call is parsed with, and by hand beside them the JSON Schemas    *)
(* that tools/list announces.  Enforced and Advertised are those two       *)
(* tables; an object that occurs inside a tool's input has an entry of its *)
(* own.  A text counts by its length and form, a number by its value.      *)
(***************************************************************************)
EXTENDS PureInput, FiniteSets, TLC

\* Limits beyond TLC's integers; only their order and their equality matter.
MaxSeed == 2000000001            \* 2^31 - 1
MaxSafeInteger == 2000000003     \* 2^53 - 1

\* HARD_AUTOMATION_LIMITS
MaxSteps == 100
MaxDuration == 300000
MaxResultBytes == 1048576
MaxScroll == 20
MaxStepSnapshotBytes == 4194304

-----------------------------------------------------------------------------
(* A type is a set of alternatives. *)
Type(k, lo, hi, w) == {[k |-> k, lo |-> lo, hi |-> hi, w |-> w]}
Text(lo, hi) == Type("text", lo, hi, {"any"})
Form(lo, hi, form) == Type("text", lo, hi, {form})
Whole(lo, hi) == Type("number", lo, hi, {"whole"})
Num(lo, hi) == Type("number", lo, hi, {"whole", "fraction"})
Word(words) == Type("word", 0, 0, words)
Flag == Type("flag", 0, 0, {"true", "false"})
Yes == Type("flag", 0, 0, {"true"})
Obj(shape) == Type("object", 0, 0, {shape})
List(lo, hi, item) == Type("list", lo, hi, {item})

\* An object: the fields it needs, those it may have, and a rule between fields.
Shape(need, may) == [need |-> need, may |-> may, rule |-> "none", of |-> {}]
Ruled(need, may, rule, of) == [need |-> need, may |-> may, rule |-> rule, of |-> of]

Session == [sessionId |-> Text(8, 128)]
TenantFields == [tenantId |-> Form(1, 64, "label"), tenantToken |-> Text(32, 4096)]
WriteGuards == [actionId |-> Form(0, 64, "uuid"), expectedPageRevision |-> Whole(0, MaxSafeInteger),
                expectedTabId |-> Form(1, 128, "tab")]
Target4 == Obj("roleTarget") \union Obj("labelTarget") \union Obj("testIdTarget") \union Obj("refTarget")
ProxyInput == Text(1, 2048) \union Obj("proxyConfig")
CookieInput == Text(0, 500000) \union List(0, 1000, "cookie")
Directions == Word({"up", "down", "left", "right"})
WaitUntil == Word({"domcontentloaded", "load"})
Engines == Word({"firefox", "chromium"})
CookieFormats == Word({"json", "netscape"})
HttpUrl == Type("text", 1, 2048, {"http"})

-----------------------------------------------------------------------------
(* The schemas that parse a call.                                          *)

EnforcedParts ==
    [roleTarget |-> Shape([role |-> Text(1, 64), name |-> Text(1, 500)], [exact |-> Flag]),
     labelTarget |-> Shape([label |-> Text(1, 500)], [exact |-> Flag]),
     testIdTarget |-> Shape([testId |-> Text(1, 128)], << >>),
     refTarget |-> Shape([ref |-> Text(1, 100)], << >>),
     viewport |-> Shape([width |-> Whole(800, 2560), height |-> Whole(600, 1440)], << >>),
     proxyConfig |-> Shape([server |-> Text(1, 2048)],
         [type |-> Word({"http", "https", "socks4", "socks5"}), username |-> Text(0, 256),
          password |-> Text(0, 256), bypass |-> Text(0, 2048)]),
     geolocation |-> Shape([latitude |-> Num(-90, 90), longitude |-> Num(-180, 180)], [accuracy |-> Num(0, 10000)]),
     geo |-> Shape(<< >>, [countryCode |-> Text(2, 4), timezone |-> Text(1, 64), locale |-> Text(1, 32),
                           geolocation |-> Obj("geolocation")]),
     cookie |-> Shape([name |-> Text(1, 256), value |-> Text(0, 10000), domain |-> Text(1, 256)],
         [path |-> Text(1, 512), expires |-> Num(-MaxSafeInteger, MaxSafeInteger), httpOnly |-> Flag,
          secure |-> Flag, sameSite |-> Word({"Strict", "Lax", "None"})]),
     condition |-> Shape([ref |-> Text(1, 100), state |-> Word({"visible", "hidden", "enabled"})], << >>)]

EnforcedStart ==
    [browser_start |-> Shape(<< >>, TenantFields @@
         [headless |-> Flag, engine |-> Engines, profile |-> Form(1, 64, "name"), profileId |-> Text(1, 128),
          proxy |-> ProxyInput, countryCode |-> Text(2, 4), timezone |-> Text(1, 64), locale |-> Text(1, 32),
          geolocation |-> Obj("geolocation"), userAgent |-> Text(1, 1024), fingerprint |-> Flag,
          fingerprintSeed |-> Whole(0, MaxSeed), viewport |-> Obj("viewport"), seed |-> Whole(0, MaxSeed),
          workspaceName |-> Text(1, 128), workspaceRetention |-> Word({"destroy", "keep_until"})])]

EnforcedSessions ==
    [browser_status |-> Shape(Session, TenantFields),
     browser_environment_diagnostics |-> Shape(Session, TenantFields),
     browser_stop |-> Shape(Session, TenantFields),
     browser_reopen_headed |-> Shape(Session, TenantFields),
     browser_resume |-> Shape(Session @@ [humanConfirmed |-> Yes], TenantFields),
     browser_handoff |-> Shape(Session, TenantFields @@
         [ttlMs |-> Whole(30000, 900000), reason |-> Word({"user_requested", "sensitive_step", "operator_review", "challenge"})]),
     browser_takeover |-> Shape(Session @@ [leaseToken |-> Form(32, 256, "token"), humanConfirmed |-> Yes], TenantFields),
     browser_capabilities |-> Shape(<< >>, << >>)]

EnforcedProfiles ==
    LET profile == [profileId |-> Text(1, 128)] IN
    [profile_create |-> Shape([name |-> Text(1, 128)], TenantFields @@
         [profileId |-> Form(1, 128, "name"), description |-> Text(0, 1000), tags |-> List(0, 20, "text0to64"),
          proxy |-> ProxyInput, geo |-> Obj("geo"), engine |-> Engines, userAgent |-> Text(0, 1024),
          initialCookies |-> CookieInput, cookieFormat |-> CookieFormats]),
     profile_list |-> Shape(<< >>, TenantFields),
     profile_get |-> Shape(profile, TenantFields),
     profile_delete |-> Shape(profile, TenantFields),
     profile_export_cookies |-> Shape(profile, TenantFields @@ [format |-> CookieFormats]),
     profile_import_cookies |-> Shape(profile @@ [cookies |-> CookieInput], TenantFields @@ [format |-> CookieFormats]),
     proxy_check |-> Shape([proxy |-> ProxyInput], TenantFields)]

EnforcedWorkspaces ==
    LET workspace == [workspaceId |-> Form(8, 128, "wsp")]
        tab == Session @@ [tabId |-> Form(1, 128, "tab")] IN
    [workspace_list |-> Shape(<< >>, TenantFields),
     workspace_get |-> Shape(workspace, TenantFields),
     workspace_handoff |-> Shape(workspace, TenantFields @@ [reason |-> Text(1, 256)]),
     workspace_resume |-> Shape(workspace @@ [leaseId |-> Form(32, 256, "token"), humanConfirmed |-> Yes], TenantFields),
     page_list_tabs |-> Shape(Session, TenantFields),
     page_switch_tab |-> Shape(tab, TenantFields),
     page_close_tab |-> Shape(tab, TenantFields)]

EnforcedPages ==
    LET act == Session @@ [target |-> Target4]
        guarded == WriteGuards @@ TenantFields
        timed == guarded @@ [timeoutMs |-> Whole(500, 30000)] IN
    [page_open |-> Shape(Session @@ [url |-> HttpUrl], guarded @@ [waitUntil |-> WaitUntil, timeoutMs |-> Whole(1000, 60000)]),
     page_snapshot |-> Shape(Session, TenantFields @@
         [maxChars |-> Whole(100, 50000), maxBytes |-> Whole(100, MaxStepSnapshotBytes),
          format |-> Word({"structured", "compact"}), sinceSnapshotId |-> Form(8, 180, "snp")]),
     page_screenshot |-> Shape(Session, TenantFields @@ [fullPage |-> Flag]),
     page_click |-> Shape(act, timed @@ [button |-> Word({"left"})]),
     page_type |-> Shape(act @@ [text |-> Text(0, 10000)], timed @@ [clear |-> Flag, submit |-> Flag, sensitive |-> Flag]),
     page_select |-> Ruled(act, timed @@ [value |-> Text(1, 1000), label |-> Text(1, 1000)], "exactly one", {"value", "label"}),
     page_scroll |-> Shape(Session @@ [direction |-> Directions], guarded @@ [amount |-> Whole(1, MaxScroll), target |-> Target4]),
     page_wait |-> Ruled(Session, TenantFields @@
         [milliseconds |-> Whole(50, 10000), condition |-> Obj("condition"), timeoutMs |-> Whole(500, 10000)],
         "exactly one", {"milliseconds", "condition"})]

EnforcedSteps ==
    LET op(name) == [op |-> Word({name})]
        timed == [timeoutMs |-> Whole(500, MaxDuration)] IN
    [legacyOpen |-> Shape(op("open") @@ [url |-> HttpUrl], [waitUntil |-> WaitUntil, timeoutMs |-> Whole(1000, MaxDuration)]),
     legacyClick |-> Shape(op("click") @@ [target |-> Target4], timed),
     legacyType |-> Shape(op("type") @@ [target |-> Target4, text |-> Text(0, 10000)],
                          timed @@ [clear |-> Flag, submit |-> Flag, sensitive |-> Flag]),
     legacySelect |-> Ruled(op("select") @@ [target |-> Target4], timed @@ [value |-> Text(1, 1000), label |-> Text(1, 1000)],
                            "exactly one", {"value", "label"}),
     legacyScroll |-> Shape(op("scroll") @@ [direction |-> Directions], [amount |-> Whole(1, MaxScroll), target |-> Target4]),
     legacyWait |-> Ruled(op("wait"), timed @@ [milliseconds |-> Whole(50, 10000), condition |-> Obj("condition")],
                          "exactly one", {"milliseconds", "condition"}),
     legacySnapshot |-> Shape(op("snapshot"),
         [maxChars |-> Whole(100, 50000), maxBytes |-> Whole(100, MaxStepSnapshotBytes), format |-> Word({"structured", "compact"})]),
     stepType |-> Shape(op("type") @@ [target |-> Target4, text |-> Text(0, 1000)], << >>),
     stepClick |-> Shape(op("click") @@ [target |-> Target4], << >>),
     stepSelect |-> Shape(op("select") @@ [target |-> Target4, values |-> List(1, 32, "text1to200")], << >>),
     stepScroll |-> Shape(op("scroll") @@ [direction |-> Word({"up", "down"})], [amount |-> Whole(1, MaxScroll)]),
     stepWait |-> Ruled(op("wait"), [milliseconds |-> Whole(1, 10000), target |-> Target4], "one or both", {"milliseconds", "target"}),
     stepSnapshot |-> Shape(op("snapshot"), [maxBytes |-> Whole(500, MaxStepSnapshotBytes), compact |-> Flag])]

EnforcedTasks ==
    LET cluster == [projectId |-> Form(1, 64, "label"), runId |-> Form(1, 64, "label")]
        extract == [containerSelector |-> Text(1, 2048), fields |-> List(1, 32, "field")]
        task == cluster @@ [mode |-> Word({"fetch", "browser"}), priority |-> Word({"LOW", "NORMAL", "HIGH", "CRITICAL"}),
                            extractionSchema |-> Obj("extraction"), maxRetries |-> Whole(0, 10), timeoutMs |-> Whole(1000, 120000)] IN
    [page_workflow |-> Shape(Session @@ [steps |-> List(1, MaxSteps, "legacy")], WriteGuards @@ TenantFields @@
         [timeoutMs |-> Whole(1000, MaxDuration), maxResultBytes |-> Whole(1000, MaxResultBytes)]),
     page_workflow_execute |-> Shape(Session @@ [steps |-> List(1, MaxSteps, "step")],
         WriteGuards @@ TenantFields @@ [stopOn |-> List(1, 5, "stop")]),
     page_fetch |-> Shape([url |-> HttpUrl],
         [method |-> Word({"GET", "HEAD"}), timeoutMs |-> Whole(500, 60000), followRedirects |-> Flag]),
     field |-> Shape([name |-> Text(1, 64)],
         [selector |-> Text(0, 2048), attribute |-> Text(0, 64), trim |-> Flag, defaultValue |-> Text(0, 10000)]),
     page_extract |-> Shape(Session @@ extract, TenantFields @@ [maxItems |-> Whole(1, 1000)]),
     \* PageExtractSchema without its sessionId: the tenant's fields stay.
     extraction |-> Shape(extract, TenantFields @@ [maxItems |-> Whole(1, 1000)]),
     batchTask |-> Shape([url |-> HttpUrl], task),
     cluster_submit_task |-> Shape([url |-> HttpUrl], TenantFields @@ task),
     cluster_batch_submit |-> Shape([tasks |-> List(1, 500, "batchTask")], TenantFields),
     cluster_status |-> Shape(<< >>, TenantFields),
     cluster_get_task |-> Shape([taskId |-> Text(1, 128)], TenantFields),
     cluster_list_tasks |-> Shape(<< >>, TenantFields @@ cluster @@
         [state |-> Word({"PENDING", "RUNNING", "COMPLETED", "FAILED", "RETRYING", "CANCELLED"}), limit |-> Whole(1, 500)])]

\* TOOL_SCHEMAS
Enforced == EnforcedParts @@ EnforcedStart @@ EnforcedSessions @@ EnforcedProfiles @@ EnforcedWorkspaces @@ EnforcedPages
            @@ EnforcedSteps @@ EnforcedTasks
=============================================================================
