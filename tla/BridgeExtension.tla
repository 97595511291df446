--------------------------- MODULE BridgeExtension ---------------------------
(* The connection side of the browser extension
   (browser-bridge-extension/background.js): connect() with its two awaits,
   the current socket, the reconnect timer, the keep-alive alarm and the
   settings that the popup saves.                                            *)
EXTENDS Integers, FiniteSets

CONSTANTS Links,      \* 1..n: WebSockets; a closed one's number is used again
          NoLink,
          MaxConnects, \* bound: calls of connect() in flight
          MaxAlarms,   \* bound: alarms that fire
          MaxSaves     \* bound: settings saved

VARIABLES current,   \* let socket
          link,      \* readyState of each socket, as the extension sees it
          named,     \* whether the socket's URL names a browser id
          ready,     \* onopen's "ready" message: "no", "due", "sent", "received"
          timer,     \* reconnectTimer is set
          config,    \* the stored settings name a browser id
          loading,   \* calls of connect() waiting for the settings
          loaded,    \* calls that hold settings and probe the endpoint
          alarms, saves

extVars == <<current, link, named, ready, timer, config, loading, loaded, alarms, saves>>

ExtInit ==
    /\ current = NoLink
    /\ link = [l \in Links |-> "unused"]
    /\ named = [l \in Links |-> FALSE]
    /\ ready = [l \in Links |-> "no"]
    /\ timer = FALSE
    /\ config \in BOOLEAN
    /\ loading = 1                      \* void connect() at start-up
    /\ loaded = [b \in BOOLEAN |-> 0]
    /\ alarms = 0 /\ saves = 0

Connected == current # NoLink /\ link[current] \in {"connecting", "open"}
InFlight == loading + loaded[TRUE] + loaded[FALSE]

\* connect() up to its first await: nothing to do while a socket is up.
\* It is repeated in every handler that calls it.
EnterConnect == IF Connected THEN UNCHANGED loading
                ELSE InFlight < MaxConnects /\ loading' = loading + 1

Alarm ==
    /\ alarms < MaxAlarms /\ alarms' = alarms + 1
    /\ EnterConnect
    /\ UNCHANGED <<current, link, named, ready, timer, config, loaded, saves>>

TimerFires ==
    /\ timer /\ timer' = FALSE
    /\ EnterConnect
    /\ UNCHANGED <<current, link, named, ready, config, loaded, alarms, saves>>

\* loadConfig answered; the endpoint is probed next, with these settings.
ConfigLoaded ==
    /\ loading > 0
    /\ loading' = loading - 1
    /\ loaded' = [loaded EXCEPT ![config] = @ + 1]
    /\ UNCHANGED <<current, link, named, ready, timer, config, alarms, saves>>

\* The rest of connect(): no second look at the current socket is taken, so
\* the last of several overlapping calls wins and the others' sockets stay.
OpenSocket(l, b) ==
    /\ loaded[b] > 0
    /\ link[l] \in {"unused", "closed"}
    /\ loaded' = [loaded EXCEPT ![b] = @ - 1]
    /\ link' = [link EXCEPT ![l] = "connecting"]
    /\ named' = [named EXCEPT ![l] = b]
    /\ ready' = [ready EXCEPT ![l] = "no"]
    /\ current' = l
    /\ UNCHANGED <<timer, config, loading, alarms, saves>>

\* onopen: a socket that is no longer current stays silent.
Opened(l) ==
    /\ link' = [link EXCEPT ![l] = "open"]
    /\ IF current = l THEN timer' = FALSE /\ ready' = [ready EXCEPT ![l] = "due"]
       ELSE UNCHANGED <<timer, ready>>
    /\ UNCHANGED <<current, named, config, loading, loaded, alarms, saves>>

\* The rest of onopen, after chrome.tabs.query answered.
SendReady(l) ==
    /\ ready[l] = "due"
    /\ ready' = [ready EXCEPT ![l] = IF link[l] = "open" THEN "sent" ELSE "no"]
    /\ UNCHANGED <<current, link, named, timer, config, loading, loaded, alarms, saves>>

\* Mutant: onclose forgets the socket without scheduling a reconnect.
ClosedSilently(l) ==
    /\ link[l] \in {"connecting", "open", "closing"}
    /\ link' = [link EXCEPT ![l] = "closed"]
    /\ IF current = l THEN current' = NoLink ELSE UNCHANGED current
    /\ UNCHANGED <<named, ready, config, loading, loaded, alarms, saves, timer>>

\* onclose, or onerror followed by it: only the current socket reconnects.
Closed(l) ==
    /\ link[l] \in {"connecting", "open", "closing"}
    /\ link' = [link EXCEPT ![l] = "closed"]
    /\ IF current = l THEN current' = NoLink /\ timer' = TRUE ELSE UNCHANGED <<current, timer>>
    /\ UNCHANGED <<named, ready, config, loading, loaded, alarms, saves>>

\* disconnect() followed by connect(): the popup saved new settings (the
\* storage listener) or asked for a reconnection.
Disconnect(b) ==
    /\ saves < MaxSaves /\ saves' = saves + 1
    /\ InFlight < MaxConnects
    /\ config' = b
    /\ timer' = FALSE
    /\ current' = NoLink
    /\ link' = IF Connected THEN [link EXCEPT ![current] = "closing"] ELSE link
    /\ loading' = loading + 1
    /\ UNCHANGED <<named, ready, loaded, alarms>>
=============================================================================
