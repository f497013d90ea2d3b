----------------------------- MODULE MCPlatform -----------------------------
(* Instances for TLC of the services of the platform.  They share no state: *)
(* a behaviour is one of one component (focus), the other ones do not move,  *)
(* and one run explores them all.                                            *)
EXTENDS CloakBrowser, SystemUpdates, SettingsSave, DependencyInstall, MarketInstall,
        PluginStores, Notices, AIRequests, AIStream, PlatformStart, TLC

VARIABLE focus

\* cloak[geo] requires geo.
ExtraOfCloak == [p \in Packages |-> IF p = "cloak" THEN {"geo"} ELSE {}]

\* What the default and the fallback model speak.
Speakers == {[default |-> "responses", fallback |-> "chat"],
             [default |-> "nothing", fallback |-> "messages"]}
OneStreams == {{}, {CHOOSE r \in Requests : TRUE}}

\* Only the component in focus chooses its initial state.
PlatformInit ==
    /\ focus \in {"browsers", "updates", "settings", "packages", "market",
                  "sessions", "store", "notices", "deliveries", "requests", "stream", "start"}
    /\ CloakInit /\ (focus # "browsers" => key = CHOOSE k \in Keys : TRUE)
    /\ UpdatesInit /\ (focus # "updates" => readable /\ bot = NoBot)
    /\ SaveInit /\ (focus # "settings" => settings = CHOOSE s \in SettingsObject : TRUE)
    /\ DepsInit /\ (focus # "packages" => global = [p \in Packages |-> 0])
    /\ MarketInit /\ (focus # "market" => plugin = Nothing)
    /\ StoresInit
    /\ NoticesInit /\ (focus # "notices" => todo = CHOOSE s \in SetToSeqs(Channels) : TRUE)
    /\ AIInit /\ (IF focus = "requests" THEN streamed \in OneStreams /\ speaks \in Speakers
                   ELSE streamed = {} /\ speaks = [m \in Models |-> "chat"])
    /\ StreamInit /\ (focus # "stream" => proto = "chat" /\ plan = 0)
    /\ StartInit /\ (focus # "start" => config = NoConfig)

\* The component f moves, the other ones do not.
Only(f) ==
    /\ focus = f /\ UNCHANGED focus
    /\ IF f = "browsers" THEN TRUE ELSE UNCHANGED cloakVars
    /\ IF f = "updates" THEN TRUE ELSE UNCHANGED updateVars
    /\ IF f = "settings" THEN TRUE ELSE UNCHANGED saveVars
    /\ IF f = "packages" THEN TRUE ELSE UNCHANGED depsVars
    /\ IF f = "market" THEN TRUE ELSE UNCHANGED marketVars
    /\ IF f \in {"sessions", "store"} THEN TRUE ELSE UNCHANGED storesVars
    /\ IF f \in {"notices", "deliveries"} THEN TRUE ELSE UNCHANGED noticesVars
    /\ IF f = "requests" THEN TRUE ELSE UNCHANGED aiVars
    /\ IF f = "stream" THEN TRUE ELSE UNCHANGED streamVars
    /\ IF f = "start" THEN TRUE ELSE UNCHANGED startVars

PlatformNext ==
    \/ Only("browsers") /\ CloakNext
    \/ Only("updates") /\ UpdatesNext
    \/ Only("settings") /\ SaveNext
    \/ Only("packages") /\ DepsNext
    \/ Only("market") /\ MarketNext
    \/ Only("sessions") /\ SessionsNext /\ UNCHANGED kvVars
    \/ Only("store") /\ StoreNext /\ UNCHANGED sessionVars
    \/ Only("notices") /\ RouteNext /\ UNCHANGED privateVars
    \/ Only("deliveries") /\ PrivateNext /\ UNCHANGED routeVars
    \/ Only("requests") /\ AINext
    \/ Only("stream") /\ StreamNext
    \/ Only("start") /\ StartNext

platformVars == <<focus, cloakVars, updateVars, saveVars, depsVars, marketVars,
                  storesVars, noticesVars, aiVars, streamVars, startVars>>
\* The fairness is that of StartSpec.
PlatformSpec ==
    /\ PlatformInit /\ [][PlatformNext]_platformVars
    /\ WF_startVars(focus = "start" /\ BootNext)
=============================================================================
