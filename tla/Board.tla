------------------------------- MODULE Board --------------------------------
(***************************************************************************)
(* How the board starts, finds its network again and keeps its settings:   *)
(* setup() and sync_and_restart, class userSettings, wifi_8266.cpp, the    *)
(* soft access point, Improv provisioning and the forced recovery.         *)
(*                                                                         *)
(* Of the settings those are kept that decide how the board comes up.  A   *)
(* missing settings file reads as the defaults, so it is written as them.  *)
(* Networks: "home" and "guest" are there; "gone" is not; "none" is an     *)
(* empty SSID.  A "weak" radio setting cannot reach a network, "auto" can. *)
(* A static address is one of "home" or of "guest"; with it no gateway     *)
(* answers in the other network.                                           *)
(*                                                                         *)
(* The waits (30 s before the network is checked, 10 min in access point   *)
(* mode, 3 s of the recovery) are events that may come at any time.        *)
(***************************************************************************)
EXTENDS Naturals

CONSTANTS MaxAsks,    \* bound of the model: what users do
          MaxMishaps  \* bound of the model: power cuts, failing flash, lost pings, noise

VARIABLES
    mode,     \* "off", or up as a "station" or access point "ap" (softAPmode)
    settings, \* of userSettings, in RAM
    file,     \* the settings file
    mounted,  \* the file system is
    ssid,     \* the network stored in flash
    inUse,    \* the radio and ip settings WiFi runs with
    tuned,    \* WiFi looks for the stored network
    linked,   \* WiFi.status() is WL_CONNECTED
    pushes, fresh,    \* force_recover.push_count; its 3 s are not over
    restartArmed,     \* delayFnCall(sync_and_restart) is counting
    asks, mishaps

\* History: one of the exceptions that ComesBack names has happened.
VARIABLE spoilt

boardVars == <<mode, settings, file, mounted, ssid, inUse, tuned, linked, pushes,
               fresh, restartArmed, asks, mishaps, spoilt>>
recovery == <<pushes, fresh, restartArmed>>

Radios == {"auto", "weak"}
Near == {"home", "guest"}
Networks == {"none", "gone"} \cup Near
Addresses == {"dhcp"} \cup Near
Settings == [wifiChanged : BOOLEAN, radio : Radios, ip : Addresses, softAP : BOOLEAN]

\* With the address ip the gateway of the network net answers.
Fits(ip, net) == ip \in {"dhcp", net}

\* settings_defaults.
Defaults == [wifiChanged |-> FALSE, radio |-> "auto", ip |-> "dhcp", softAP |-> FALSE]

BoardTypeOK ==
    /\ mode \in {"off", "station", "ap"}
    /\ settings \in Settings /\ file \in Settings
    /\ mounted \in BOOLEAN
    /\ ssid \in Networks
    /\ inUse \in [radio : Radios, ip : Addresses]
    /\ tuned \in BOOLEAN /\ linked \in BOOLEAN /\ (linked => mode = "station")
    /\ pushes \in 0..5 /\ fresh \in BOOLEAN /\ restartArmed \in BOOLEAN
    /\ asks \in 0..MaxAsks /\ mishaps \in 0..MaxMishaps
    /\ spoilt \in BOOLEAN

\* A new board, or one with an address for the network it knew last.
BoardInit ==
    /\ mode = "off" /\ mounted = TRUE
    /\ \E known \in {<<"none", "dhcp">>, <<"gone", "dhcp">>, <<"gone", "guest">>,
                     <<"home", "dhcp">>, <<"home", "home">>} :
         ssid = known[1] /\ file = [Defaults EXCEPT !.ip = known[2]]
    /\ settings = file
    /\ inUse = [radio |-> "auto", ip |-> "dhcp"] /\ tuned = TRUE /\ linked = FALSE
    /\ pushes = 0 /\ fresh = FALSE /\ restartArmed = FALSE
    /\ asks = 0 /\ mishaps = 0 /\ spoilt = FALSE
-----------------------------------------------------------------------------
(* Saving and restarting.                                                   *)

Mishap == mishaps < MaxMishaps /\ mishaps' = mishaps + 1
Asked == asks < MaxAsks /\ asks' = asks + 1

\* The settings file can be opened; a start mounts the file system.
FsOpen == mounted \/ mode = "off"

\* userSettings::save, after which the mode is next.  The new file is written
\* beside the old one, which is removed before the new one takes its name: a power
\* cut leaves the old file or none, and if the renaming fails there is none either.
Save(s, next) ==
    \/ /\ file' = (IF FsOpen THEN s ELSE file)
       /\ mode' = next /\ UNCHANGED mishaps
    \/ /\ FsOpen /\ Mishap
       /\ \/ file' \in {file, Defaults} /\ mode' = "off"
          \/ file' = Defaults /\ mode' = next

\* (mutant) The next start is in access point mode again.
KeptMode(s) == s
\* The next start will be as a station.
StationNext(s) == [s EXCEPT !.softAP = FALSE]

\* sync_and_restart, with the settings s; a linked station goes off.  In station
\* mode nothing but the rolling code is saved.
SyncAndRestart(s) ==
    /\ linked' = FALSE
    /\ IF mode = "ap" THEN Save(StationNext(s), "off")
       ELSE mode' = "off" /\ UNCHANGED <<file, mishaps>>

\* WiFi comes up as the settings say.
Use(s) == inUse' = [radio |-> s.radio, ip |-> s.ip]

\* userSettings::load: every setting of the file, the defaults if there is none.
Loaded == file

\* load_all_config_settings: softAPmode, which only a start sets.
ModeOf(s) == IF s.softAP THEN "ap" ELSE "station"

\* start_soft_ap.
StartSoftAp(s) == mode' = "ap" /\ settings' = s /\ UNCHANGED <<file, mishaps>>

\* wifi_connect: without a network it restarts in access point mode.
WifiConnect(s) ==
    IF ssid # "none"
    THEN mode' = "station" /\ settings' = s /\ UNCHANGED <<file, mishaps>>
    ELSE /\ settings' = [s EXCEPT !.softAP = TRUE]
         /\ Save(settings', "off")

\* setup.
SetUp ==
    /\ mode = "off"
    /\ mounted' = TRUE /\ tuned' = TRUE
    /\ pushes' = 0 /\ fresh' = FALSE /\ restartArmed' = FALSE
    /\ Use(Loaded)
    /\ IF ModeOf(Loaded) = "ap" THEN StartSoftAp(Loaded) ELSE WifiConnect(Loaded)
    /\ UNCHANGED <<ssid, linked, asks, spoilt>>

PowerCut ==
    /\ mode # "off" /\ Mishap
    /\ mode' = "off" /\ linked' = FALSE
    /\ UNCHANGED <<settings, file, mounted, ssid, inUse, tuned, recovery, asks, spoilt>>

\* handle_reboot and handle_reset, from a browser.
PageRestarts ==
    /\ mode = "ap" \/ linked
    /\ Asked
    /\ SyncAndRestart(settings)
    /\ UNCHANGED <<settings, mounted, ssid, inUse, tuned, recovery, spoilt>>

\* service_timer_loop: the reboot timer is over or the heap runs out; and
\* serialCLI 'R'.
TimerRestarts ==
    /\ mode # "off" /\ Asked
    /\ SyncAndRestart(settings)
    /\ UNCHANGED <<settings, mounted, ssid, inUse, tuned, recovery, spoilt>>

\* soft_ap_loop: ten minutes have passed.
ApTimeout ==
    /\ mode = "ap"
    /\ SyncAndRestart(settings)
    /\ UNCHANGED <<settings, mounted, ssid, inUse, tuned, recovery, asks, spoilt>>

\* helperFactoryReset.  In access point mode the restart writes the settings again.
FactoryReset ==
    /\ mode # "off" /\ Asked
    /\ ssid' = "none" /\ linked' = FALSE
    /\ IF mode = "ap" /\ mounted THEN Save(StationNext(settings), "off")
       ELSE /\ file' = (IF mounted THEN Defaults ELSE file)
            /\ mode' = "off" /\ UNCHANGED mishaps
    /\ UNCHANGED <<settings, mounted, inUse, tuned, recovery, spoilt>>
-----------------------------------------------------------------------------
(* The network.                                                             *)

\* The network is joined: onGotIP saves the addresses with the other settings.
Join ==
    /\ mode = "station" /\ ~linked /\ tuned
    /\ ssid \in Near /\ inUse.radio = "auto"
    /\ Save(settings, "station")
    /\ linked' = (mode' = "station")
    /\ UNCHANGED <<settings, mounted, ssid, inUse, tuned, recovery, asks, spoilt>>

Drop ==
    /\ linked /\ Mishap
    /\ linked' = FALSE
    /\ UNCHANGED <<mode, settings, file, mounted, ssid, inUse, tuned, recovery, asks,
                   spoilt>>

\* (mutant) The radio is left as it is.
RadioKept(s) == s
\* What wifi_loop falls back to.
RadioReset(s) == [s EXCEPT !.radio = "auto"]

Checkable == mode = "station" /\ settings.wifiChanged

\* wifi_loop, 30 s after it was told to connect with changed settings: out of reach.
NotConnected ==
    /\ Checkable /\ ~linked
    /\ settings' = RadioReset(settings) /\ inUse' = RadioReset(inUse)
    /\ Save(settings', "station")
    /\ UNCHANGED <<mounted, ssid, tuned, linked, recovery, asks, spoilt>>

\* ... connected, but the gateway does not answer the one ping, or it gets lost.
NoGateway ==
    /\ Checkable /\ linked
    /\ settings' = [settings EXCEPT !.ip = "dhcp"]
    /\ inUse' = [inUse EXCEPT !.ip = "dhcp"]
    /\ linked' = FALSE
    /\ \/ ~Fits(inUse.ip, ssid) /\ Save(settings', "station")
       \/ Fits(inUse.ip, ssid) /\ Mishap /\ mode' = "station"
          /\ file' = (IF mounted THEN settings' ELSE file)
    /\ UNCHANGED <<mounted, ssid, tuned, recovery, asks, spoilt>>

\* ... all is well.
GatewayAnswers ==
    /\ Checkable /\ linked /\ Fits(inUse.ip, ssid)
    /\ settings' = [settings EXCEPT !.wifiChanged = FALSE]
    /\ Save(settings', "station")
    /\ linked' = (mode' = "station")
    /\ UNCHANGED <<mounted, ssid, inUse, tuned, recovery, asks, spoilt>>

WifiCheck == NotConnected \/ NoGateway \/ GatewayAnswers

\* userSettings::set, of the settings that are not kept.
Given(s, radio, ip, ap) ==
    [s EXCEPT !.radio  = IF radio = "keep" THEN @ ELSE radio,
              !.ip     = IF ip = "keep" THEN @ ELSE ip,
              !.softAP = @ \/ ap]

\* handle_setgdo, with the settings in the order of the request; the one that fails
\* comes last, and then those before it stay in RAM and are not saved.
SetGdo ==
    /\ linked /\ Asked
    /\ \E radio \in Radios \cup {"keep"}, ip \in Addresses \cup {"keep"},
          ap, fails \in BOOLEAN :
         LET touched == radio # "keep" \/ ip # "keep"
             set == Given(settings, radio, ip, ap)
             reboot == set.radio # settings.radio \/ ip # "keep" \/ ap
         IN  IF fails
             THEN /\ settings' = set
                  /\ spoilt' = (spoilt \/ touched)
                  /\ UNCHANGED <<mode, file, mishaps, linked>>
             ELSE /\ settings' = [set EXCEPT !.wifiChanged = touched]
                  /\ spoilt' = (spoilt \/ (settings.wifiChanged /\ ~touched))
                  /\ Save(settings', IF reboot THEN "off" ELSE "station")
                  /\ linked' = (mode' = "station")
    /\ UNCHANGED <<mounted, ssid, inUse, tuned, recovery>>
-----------------------------------------------------------------------------
(* Provisioning and recovery.                                               *)

\* The settings that belong to the network left.
Fresh(s) == [s EXCEPT !.ip = "dhcp", !.radio = "auto"]

\* Settings of another network that the next start will not check.
Stale(saved) == ~saved.wifiChanged /\ saved # Fresh(saved)

\* What WiFi.isConnected may say: an access point may still be connected to the
\* network it knows.
IsConnected == IF mode = "ap" THEN {c \in BOOLEAN : c => ssid \in Near} ELSE {linked}

\* handle_setssid with set_new_ssid, from a browser: the network is stored before the
\* board restarts, which in access point mode saves the settings.  A station that
\* has joined a network has saved them before they were reset, and does not again.
SetSsid ==
    /\ mode = "ap" \/ linked
    /\ Asked
    /\ \E net \in Networks \ {"none"}, reached \in BOOLEAN, connected \in IsConnected :
         /\ reached => net \in Near
         /\ ssid' = (IF reached THEN net ELSE ssid)
         /\ settings' = (IF connected /\ (reached => net = ssid)
                         THEN settings ELSE Fresh(settings))
         /\ \/ (mode = "ap" \/ ~reached) /\ SyncAndRestart(settings')
            \/ mode = "station" /\ Save(settings, "off") /\ linked' = FALSE
         /\ spoilt' = (spoilt \/ (reached /\ net # ssid /\ Stale(file')))
    /\ UNCHANGED <<mounted, inUse, tuned, recovery>>

\* Improv's WIFI_SETTINGS; a station restarts without having saved, and one that
\* fails to connect stays without a network.
Improv ==
    /\ mode # "off" /\ Asked
    /\ \/ \E net \in Near :
            /\ mode = "ap" \/ inUse.radio = "auto"
            /\ ssid' = net /\ settings' = Fresh(settings)
            /\ SyncAndRestart(settings')
            /\ spoilt' = (spoilt \/ (net # ssid /\ Stale(file')))
            /\ UNCHANGED tuned
       \/ /\ tuned' = FALSE /\ linked' = FALSE
          /\ spoilt' = (spoilt \/ mode = "station")
          /\ UNCHANGED <<mode, settings, file, ssid, mishaps>>
    /\ UNCHANGED <<mounted, inUse, recovery>>

\* onErrorCallback, on a damaged Improv packet: the file system is closed.
ImprovNoise ==
    /\ mode # "off" /\ Mishap
    /\ mounted' = FALSE
    /\ UNCHANGED <<mode, settings, file, ssid, inUse, tuned, linked, recovery, asks, spoilt>>

\* serialCLI 'A'.
AskForAp ==
    /\ mode # "off" /\ Asked
    /\ settings' = [settings EXCEPT !.softAP = TRUE]
    /\ IF mode = "ap" THEN SyncAndRestart(settings')
       ELSE linked' = FALSE /\ Save(settings', "off")
    /\ UNCHANGED <<mounted, ssid, inUse, tuned, recovery, spoilt>>

\* A station would run in net with an address of another network, unchecked.
Unfit(net) == mode = "station" /\ ~Fits(inUse.ip, net) /\ ~settings.wifiChanged

\* serialCLI 'W', which calls set_new_ssid as well, but does not restart: the
\* settings in RAM are not saved, and those in use stay in use.
SerialWifi ==
    /\ mode # "off" /\ Asked
    /\ \E net \in Near, reached \in BOOLEAN, connected \in IsConnected :
         /\ reached /\ mode = "station" => inUse.radio = "auto"
         /\ ssid' = (IF reached THEN net ELSE ssid)
         /\ settings' = (IF connected /\ (reached => net = ssid)
                         THEN settings ELSE Fresh(settings))
         /\ tuned' = (reached \/ connected)
         /\ spoilt' = (\/ spoilt
                       \/ reached /\ net # ssid /\ (Stale(file) \/ Unfit(net))
                       \/ ~reached /\ ~connected /\ mode = "station")
    /\ linked' = FALSE
    /\ UNCHANGED <<mode, file, mounted, inUse, recovery, mishaps>>

\* improv_loop: what arrives on the serial port.
SerialInput == Improv \/ SerialWifi \/ ImprovNoise \/ AskForAp

\* What push_count becomes; a late push starts no new count.
PushCount ==
    IF pushes = 0 THEN 1
    ELSE IF ~fresh THEN 0
    ELSE IF pushes = 5 THEN 5 ELSE pushes + 1

\* manual_recovery, at a push on the wall panel: with five a restart is armed.
Push ==
    /\ mode = "station" /\ ~restartArmed
    /\ pushes = 0 => Asked
    /\ pushes # 0 => UNCHANGED asks
    /\ pushes' = PushCount
    /\ fresh' = (pushes = 0 \/ fresh)
    /\ restartArmed' = (PushCount = 5)
    /\ IF PushCount = 5
       THEN /\ settings' = [settings EXCEPT !.softAP = TRUE]
            /\ Save(settings', "station")
            /\ linked' = (linked /\ mode' = "station")
       ELSE UNCHANGED <<mode, settings, file, mishaps, linked>>
    /\ UNCHANGED <<mounted, ssid, inUse, tuned, spoilt>>

PushesAge ==
    /\ fresh /\ fresh' = FALSE
    /\ UNCHANGED <<mode, settings, file, mounted, ssid, inUse, tuned, linked, pushes,
                   restartArmed, asks, mishaps, spoilt>>

\* A door request takes TTCtimer: the restart does not come, the setting stays.
DoorRequest ==
    /\ restartArmed /\ mode = "station" /\ Asked
    /\ restartArmed' = FALSE
    /\ UNCHANGED <<mode, settings, file, mounted, ssid, inUse, tuned, linked, pushes,
                   fresh, mishaps, spoilt>>

RestartFires ==
    /\ restartArmed /\ mode = "station"
    /\ SyncAndRestart(settings)
    /\ UNCHANGED <<settings, mounted, ssid, inUse, tuned, recovery, asks, spoilt>>
-----------------------------------------------------------------------------
BoardNext ==
    \/ SetUp \/ PowerCut \/ PageRestarts \/ TimerRestarts \/ ApTimeout \/ FactoryReset
    \/ Join \/ Drop \/ WifiCheck \/ SetGdo \/ SetSsid \/ SerialInput
    \/ Push \/ PushesAge \/ DoorRequest \/ RestartFires

\* The board starts again by itself, its loop calls wifi_loop and soft_ap_loop,
\* timers fire, and a network in reach is joined.
Fairness ==
    /\ WF_boardVars(SetUp) /\ WF_boardVars(ApTimeout) /\ WF_boardVars(Join)
    /\ WF_boardVars(WifiCheck) /\ WF_boardVars(RestartFires)

BoardSpec == BoardInit /\ [][BoardNext]_boardVars
BoardFairSpec == BoardSpec /\ Fairness
-----------------------------------------------------------------------------
\* Whatever settings it was given, from wherever and with whatever power cuts, a
\* board that knows a network in reach ends up connected to it with a gateway that
\* answers - a radio setting that does not reach, an address that does not work and
\* access point mode are all left again - unless one of these happened: a request
\* with such a setting failed half way (what it had set is saved later, unchecked);
\* another request came before the check of a changed setting; the credentials of
\* another network were stored, and the settings of the one before stayed in the file
\* (the network page and Improv in station mode and the command line do not save; in
\* access point mode a power cut or a closed file system keeps them from it), or the
\* command line left a station running with the address of the network before; a
\* connection tried over the serial port failed in station mode.
ComesBack ==
    <>[](spoilt \/ ssid \notin Near
         \/ (mode = "station" /\ linked /\ Fits(inUse.ip, ssid)))
=============================================================================
