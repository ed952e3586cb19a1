----------------------------- MODULE WifiConnect -----------------------------
(***************************************************************************)
(* Joining the WiFi and staying joined: app_main in my_connect, the event  *)
(* task with its queue and handlers, scan_task, the task that restarts the *)
(* clock (the page's or the magnet's), and the driver, which is external.  *)
(* Each handler runs to its end before the next event, that of a           *)
(* disconnect with a sleep in it.  The scan handler stores in the table of *)
(* ScanRecords.  All of this is in RAM: a restart begins again.            *)
(***************************************************************************)
EXTENDS ScanRecords

CONSTANTS
  Addresses,    \* NR_OF_IP_ADDRESSES_TO_WAIT_FOR, 2 with IPv6
  MaxFaults,    \* bound on starts and joins that fail, networks that go away and early
                \* addresses
  MaxRestarts   \* bound on the restarts that are asked for

ASSUME AddressesAssumption == Addresses \in Nat \ {0}
ASSUME BoundsAssumption == MaxFaults \in Nat /\ MaxRestarts \in Nat

VARIABLES
  useWIFI,       \* cfgWiFi is not "off", read at the start
  main,          \* where app_main is in my_connect
  left,          \* the addresses it has still to wait for
  ipSem,         \* s_semph_get_ip_addrs, or NULL
  registered,    \* the event handlers
  ip_addr_txt,   \* what the status page shows
  nDisconnects,
  handler,       \* the handler the event task is in
  events,        \* its queue
  scanner,       \* where scan_task is
  scanSem,       \* sScanSemaphore, or NULL
  link,          \* the driver's station
  scanning,      \* the driver is scanning
  ip6,           \* the link-local address is being tested
  life,          \* up, or on the way to a restart
  toStop,        \* what mystop has still to do
  faults, restarts

mainVars == <<useWIFI, main, left, registered>>
eventVars == <<ip_addr_txt, nDisconnects, handler>>
scanVars == <<scanner, scanSem>>
driverVars == <<link, scanning, ip6>>
lifeVars == <<life, toStop, restarts>>
vars == <<useWIFI, main, left, ipSem, registered, ip_addr_txt, nDisconnects, handler, events,
          scanner, scanSem, link, scanning, ip6, life, toStop, faults, restarts, tableVars>>

NULL == -1
StationHandlers == {"disconnected", "got_ip", "connected", "got_ip6"}
Running == life \in {"up", "stopping"}

Init ==
  /\ useWIFI \in BOOLEAN /\ main = "boot" /\ left = 0 /\ ipSem = NULL /\ registered = {}
  /\ ip_addr_txt = "" /\ nDisconnects = 0 /\ handler = "none" /\ events = <<>>
  /\ scanner = "none" /\ scanSem = NULL /\ link = "stopped" /\ scanning = FALSE
  /\ ip6 = FALSE /\ life = "up" /\ toStop = <<>> /\ faults = 0 /\ restarts = 0
  /\ TableInit

\* An ESP_ERROR_CHECK or an assertion of the kernel has failed.
Abort == life' = "aborted" /\ UNCHANGED <<toStop, restarts>>

\* esp_wifi_connect in a handler: ESP_ERR_WIFI_NOT_STARTED is not an error.
esp_wifi_connect ==
  \/ link = "none" /\ Abort /\ UNCHANGED link
  \/ /\ link # "none" /\ UNCHANGED lifeVars
     /\ link' = IF link = "down" THEN "joining" ELSE link
-----------------------------------------------------------------------------
\* my_connect, and mywifi_start to the registration of the station's handlers.
StartStation ==
  /\ Running /\ main = "boot" /\ ipSem = NULL
  /\ ip_addr_txt' = "(not connected)"
  /\ registered' = IF useWIFI THEN StationHandlers ELSE {}
  /\ main' = "station"
  /\ UNCHANGED <<useWIFI, left, ipSem, nDisconnects, handler, events, faults>>
  /\ UNCHANGED <<scanVars, driverVars, lifeVars, tableVars>>

\* The access point is set up in any case, as is the handler of the scans.
StartAccessPoint ==
  /\ Running /\ main = "station" /\ main' = "started"
  /\ registered' = registered \cup {"scan_done"}
  /\ link' = "down"
  /\ UNCHANGED <<useWIFI, left, ipSem, events, scanning, ip6, faults>>
  /\ UNCHANGED <<eventVars, scanVars, lifeVars, tableVars>>

\* The rest of mywifi_start, with the first esp_wifi_connect.
Join ==
  /\ Running /\ main = "started" /\ main' = "joining"
  /\ link' = IF useWIFI THEN "joining" ELSE link
  /\ UNCHANGED <<useWIFI, left, registered, ipSem, events, scanning, ip6, faults>>
  /\ UNCHANGED <<eventVars, scanVars, lifeVars, tableVars>>

\* The rest of mystart; with useWIFI, mystop is registered for restarts.
CreateSemaphore ==
  /\ Running /\ main = "joining" /\ main' = "waiting"
  /\ ipSem' = 0
  /\ left' = IF useWIFI THEN Addresses ELSE 0
  /\ UNCHANGED <<useWIFI, registered, events, faults>>
  /\ UNCHANGED <<eventVars, scanVars, driverVars, lifeVars, tableVars>>

\* An address, or 10 seconds.
WaitForAddress ==
  /\ Running /\ main = "waiting" /\ left > 0 /\ left' = left - 1
  /\ \/ ipSem > 0 /\ ipSem' = ipSem - 1
     \/ ipSem = 0 /\ UNCHANGED ipSem
  /\ UNCHANGED <<useWIFI, main, registered, events, faults>>
  /\ UNCHANGED <<eventVars, scanVars, driverVars, lifeVars, tableVars>>

CreateTasks ==
  /\ Running /\ main = "waiting" /\ left = 0 /\ main' = "done"
  /\ scanner' = "created"
  /\ UNCHANGED <<useWIFI, left, registered, ipSem, events, scanSem, faults>>
  /\ UNCHANGED <<eventVars, driverVars, lifeVars, tableVars>>

\* One of the driver's calls up to the first esp_wifi_connect is refused: there is no
\* memory left, or the network's name is none.  A fault.
StartFails ==
  /\ Running /\ main \in {"boot", "station", "started"}
  /\ faults < MaxFaults /\ faults' = faults + 1
  /\ Abort
  /\ UNCHANGED <<mainVars, ipSem, eventVars, events, scanVars, driverVars, tableVars>>

my_connect ==
  \/ StartStation \/ StartAccessPoint \/ Join \/ CreateSemaphore \/ WaitForAddress \/ CreateTasks
-----------------------------------------------------------------------------
\* The event task takes the next event; without a handler nothing happens.
Receive(event) ==
  /\ Running /\ handler = "none" /\ events # <<>> /\ Head(events) = event
  /\ event \in registered
  /\ events' = Tail(events)

IgnoreEvent ==
  /\ Running /\ handler = "none" /\ events # <<>> /\ Head(events) \notin registered
  /\ events' = Tail(events)
  /\ UNCHANGED <<mainVars, ipSem, eventVars, scanVars, driverVars, lifeVars, faults, tableVars>>

\* xSemaphoreGive: of a semaphore that does not exist, the kernel's assertion fails.
GiveAddress ==
  \/ ipSem = NULL /\ Abort /\ UNCHANGED ipSem
  \/ /\ ipSem # NULL /\ UNCHANGED lifeVars
     /\ ipSem' = IF ipSem < Addresses THEN ipSem + 1 ELSE ipSem

\* A mistake the runs must catch: the disconnects are counted on.
myon_got_ip_KeepCount ==
  /\ Receive("got_ip")
  /\ GiveAddress
  /\ ip_addr_txt' = "address"
  /\ UNCHANGED <<mainVars, nDisconnects, handler, scanVars, driverVars, faults, tableVars>>

myon_got_ip ==
  /\ Receive("got_ip")
  /\ GiveAddress
  /\ ip_addr_txt' = "address" /\ nDisconnects' = 0
  /\ UNCHANGED <<mainVars, handler, scanVars, driverVars, faults, tableVars>>

\* Only an address of the preferred type counts.
myon_got_ipv6 ==
  /\ Receive("got_ip6")
  /\ GiveAddress \/ UNCHANGED <<ipSem, lifeVars>>
  /\ UNCHANGED <<mainVars, eventVars, scanVars, driverVars, faults, tableVars>>

myon_wifi_connect ==
  /\ Receive("connected")
  /\ ip6' = TRUE
  /\ UNCHANGED <<mainVars, ipSem, eventVars, scanVars, link, scanning, lifeVars, faults, tableVars>>

myon_wifi_disconnect ==
  /\ Receive("disconnected")
  /\ ip_addr_txt' = "0.0.0.0" /\ nDisconnects' = nDisconnects + 1
  /\ handler' = "sleep"
  /\ UNCHANGED <<mainVars, ipSem, scanVars, driverVars, lifeVars, faults, tableVars>>

\* A mistake the runs must catch: only the first disconnect is answered.
Reconnect_Once ==
  /\ Running /\ handler = "sleep" /\ handler' = "none"
  /\ IF nDisconnects > 1 THEN UNCHANGED <<link, lifeVars>> ELSE esp_wifi_connect
  /\ UNCHANGED <<mainVars, ipSem, ip_addr_txt, nDisconnects, events, scanVars, scanning, ip6,
                 faults, tableVars>>

\* After 2.3 seconds of sleep.
Reconnect ==
  /\ Running /\ handler = "sleep" /\ handler' = "none"
  /\ esp_wifi_connect
  /\ UNCHANGED <<mainVars, ipSem, ip_addr_txt, nDisconnects, events, scanVars, scanning, ip6,
                 faults, tableVars>>

\* esp_wifi_scan_get_ap_num, checked, fails after esp_wifi_stop; mystop leaves the handler.
ScanDone ==
  /\ Receive("scan_done")
  /\ \/ /\ link \in {"stopped", "none"}
        /\ Abort /\ UNCHANGED <<handler, tableVars>>
     \/ /\ link \notin {"stopped", "none"}
        /\ \E found \in SUBSET Bssids : SortFound(found)
        /\ handler' = "scan" /\ UNCHANGED lifeVars
  /\ UNCHANGED <<mainVars, ipSem, ip_addr_txt, nDisconnects, scanVars, driverVars, faults>>

StoreRecord ==
  /\ Running /\ handler = "scan" /\ StoreNext
  /\ UNCHANGED <<mainVars, ipSem, eventVars, events, scanVars, driverVars, lifeVars, faults>>

\* The last line of my_scan_done_event_handler; the semaphore is binary.
GiveScan ==
  /\ Running /\ handler = "scan" /\ storing = <<>>
  /\ handler' = "none" /\ scanSem' = 1
  /\ UNCHANGED <<mainVars, ipSem, ip_addr_txt, nDisconnects, events, scanner, driverVars,
                 lifeVars, faults, tableVars>>

EventTask ==
  \/ IgnoreEvent \/ myon_got_ip \/ myon_got_ipv6 \/ myon_wifi_connect
  \/ myon_wifi_disconnect \/ Reconnect \/ ScanDone \/ StoreRecord \/ GiveScan
-----------------------------------------------------------------------------
\* A mistake the runs must catch: the first scan need not be waited for.
CreateScanSemaphore_Given ==
  /\ Running /\ scanner = "created" /\ scanner' = "test" /\ scanSem' = 1
  /\ UNCHANGED <<mainVars, ipSem, eventVars, events, driverVars, lifeVars, faults, tableVars>>

CreateScanSemaphore ==
  /\ Running /\ scanner = "created" /\ scanner' = "test" /\ scanSem' = 0
  /\ UNCHANGED <<mainVars, ipSem, eventVars, events, driverVars, lifeVars, faults, tableVars>>

\* esp_wifi_scan_start fails while the station joins and after esp_wifi_stop.
CanScan == link \in {"down", "joined", "online"} /\ ~ scanning

\* A mistake the runs must catch: a scan that was not started is waited for.
StartScan_Wait ==
  /\ Running /\ scanner = "test" /\ now < MaxScans
  /\ scanner' = "take" /\ scanning' = (scanning \/ CanScan)
  /\ UNCHANGED <<mainVars, ipSem, eventVars, events, scanSem, link, ip6, lifeVars, faults, tableVars>>

\* cfgNeighborHoodWatch is not 0.
StartScan ==
  /\ Running /\ scanner = "test" /\ now < MaxScans
  /\ IF CanScan THEN scanner' = "take" /\ scanning' = TRUE
                ELSE scanner' = "delay" /\ UNCHANGED scanning
  /\ UNCHANGED <<mainVars, ipSem, eventVars, events, scanSem, link, ip6, lifeVars, faults, tableVars>>

\* It is 0.
SkipScan ==
  /\ Running /\ scanner = "test" /\ scanner' = "delay"
  /\ UNCHANGED <<mainVars, ipSem, eventVars, events, scanSem, driverVars, lifeVars, faults, tableVars>>

TakeScan ==
  /\ Running /\ scanner = "take" /\ scanSem = 1
  /\ scanSem' = 0 /\ scanner' = "delay"
  /\ UNCHANGED <<mainVars, ipSem, eventVars, events, driverVars, lifeVars, faults, tableVars>>

Delay ==
  /\ Running /\ scanner = "delay" /\ scanner' = "test"
  /\ UNCHANGED <<mainVars, ipSem, eventVars, events, scanSem, driverVars, lifeVars, faults, tableVars>>

ScanTask == CreateScanSemaphore \/ StartScan \/ SkipScan \/ TakeScan \/ Delay
-----------------------------------------------------------------------------
\* The driver and the network.
Post(event) == events' = Append(events, event)

JoinSucceeds ==
  /\ Running /\ link = "joining" /\ link' = "joined" /\ Post("connected")
  /\ UNCHANGED <<mainVars, ipSem, eventVars, scanVars, scanning, ip6, lifeVars, faults, tableVars>>

\* A join fails, or the network goes away.
LinkDown ==
  /\ Running /\ link \in {"joining", "joined", "online"} /\ faults < MaxFaults
  /\ faults' = faults + 1 /\ link' = "down" /\ ip6' = FALSE /\ Post("disconnected")
  /\ UNCHANGED <<mainVars, ipSem, eventVars, scanVars, scanning, lifeVars, tableVars>>

\* DHCP takes longer than what my_connect does between Join and CreateSemaphore, as
\* far as anybody knows: an address before that is counted as a fault.
GetAddress ==
  /\ Running /\ link = "joined" /\ link' = "online" /\ Post("got_ip")
  /\ IF main = "joining" THEN faults < MaxFaults /\ faults' = faults + 1 ELSE UNCHANGED faults
  /\ UNCHANGED <<mainVars, ipSem, eventVars, scanVars, scanning, ip6, lifeVars, tableVars>>

GetAddress6 ==
  /\ Running /\ ip6 /\ link \in {"joined", "online"} /\ ip6' = FALSE /\ Post("got_ip6")
  /\ IF main = "joining" THEN faults < MaxFaults /\ faults' = faults + 1 ELSE UNCHANGED faults
  /\ UNCHANGED <<mainVars, ipSem, eventVars, scanVars, link, scanning, lifeVars, tableVars>>

ScanEnds ==
  /\ Running /\ scanning /\ scanning' = FALSE /\ Post("scan_done")
  /\ UNCHANGED <<mainVars, ipSem, eventVars, scanVars, link, ip6, lifeVars, faults, tableVars>>

Driver == JoinSucceeds \/ GetAddress \/ GetAddress6 \/ ScanEnds
-----------------------------------------------------------------------------
\* A mistake the runs must catch: the handlers are unregistered last.
StopSteps_HandlersLast ==
  <<"stop", "deinit", "disconnected", "got_ip", "got_ip6", "connected">>

\* What mystop does, in this order.
StopSteps == <<"disconnected", "got_ip", "got_ip6", "connected", "stop", "deinit">>

\* esp_restart, by the page or by the magnet; my_connect has registered mystop if it
\* got there with WiFi on, and without it the chip resets at once.
Restart ==
  /\ life = "up" /\ restarts < MaxRestarts /\ restarts' = restarts + 1
  /\ IF useWIFI /\ main \in {"waiting", "done"}
       THEN life' = "stopping" /\ toStop' = StopSteps
       ELSE life' = "off" /\ UNCHANGED toStop
  /\ UNCHANGED <<mainVars, ipSem, eventVars, events, scanVars, driverVars, faults, tableVars>>

\* Unregistering a handler waits for the handler the event task is in.
Unregister ==
  /\ life = "stopping" /\ toStop # <<>> /\ Head(toStop) \in StationHandlers
  /\ handler = "none"
  /\ registered' = registered \ {Head(toStop)} /\ toStop' = Tail(toStop)
  /\ UNCHANGED <<useWIFI, main, left, ipSem, eventVars, events, scanVars, driverVars, faults, life,
                 restarts, tableVars>>

\* esp_wifi_stop: the station leaves, and a scan ends without an event.
StopWifi ==
  /\ life = "stopping" /\ toStop # <<>> /\ Head(toStop) = "stop" /\ toStop' = Tail(toStop)
  /\ link' = "stopped" /\ scanning' = FALSE /\ ip6' = FALSE
  /\ IF link \in {"joining", "joined", "online"} THEN Post("disconnected") ELSE UNCHANGED events
  /\ UNCHANGED <<mainVars, ipSem, eventVars, scanVars, faults, life, restarts, tableVars>>

\* esp_wifi_deinit, after which the driver has no station.
DeinitWifi ==
  /\ life = "stopping" /\ toStop # <<>> /\ Head(toStop) = "deinit" /\ toStop' = Tail(toStop)
  /\ link' = "none"
  /\ UNCHANGED <<mainVars, ipSem, eventVars, events, scanVars, scanning, ip6, faults, life,
                 restarts, tableVars>>

Stopped ==
  /\ life = "stopping" /\ toStop = <<>> /\ life' = "off"
  /\ UNCHANGED <<mainVars, ipSem, eventVars, events, scanVars, driverVars, faults, toStop,
                 restarts, tableVars>>

mystop == Unregister \/ StopWifi \/ DeinitWifi \/ Stopped

\* Nothing of the RAM is left.
Boot ==
  /\ life \in {"off", "aborted"} /\ life' = "up" /\ toStop' = <<>>
  /\ useWIFI' \in BOOLEAN /\ main' = "boot" /\ left' = 0 /\ ipSem' = NULL /\ registered' = {}
  /\ ip_addr_txt' = "" /\ nDisconnects' = 0 /\ handler' = "none" /\ events' = <<>>
  /\ scanner' = "none" /\ scanSem' = NULL /\ link' = "stopped" /\ scanning' = FALSE /\ ip6' = FALSE
  /\ Forget
  /\ UNCHANGED <<faults, restarts>>

\* recent_wifi.json, by the server's task, which waits while a scan is handled.
RecentWifi ==
  /\ Running /\ handler # "scan" /\ Page
  /\ UNCHANGED <<mainVars, ipSem, eventVars, events, scanVars, driverVars, lifeVars, faults>>

Next ==
  \/ my_connect \/ StartFails \/ EventTask \/ ScanTask \/ Driver \/ LinkDown
  \/ Restart \/ mystop \/ Boot \/ RecentWifi

\* Every task of the clock gets its turn, and the driver answers.
Fairness ==
  /\ WF_vars(my_connect) /\ WF_vars(EventTask) /\ WF_vars(ScanTask)
  /\ WF_vars(JoinSucceeds) /\ WF_vars(GetAddress) /\ WF_vars(ScanEnds)
  /\ WF_vars(mystop) /\ WF_vars(Boot)

Spec == Init /\ [][Next]_vars /\ Fairness
-----------------------------------------------------------------------------
(* When the events are handled, the status page has the address the station *)
(* has, or none, and the disconnects since it last had one                  *)
(* (clockConnect.c:351-355, 610-614).                                       *)
ShowsTheAddress ==
  life = "up" /\ events = <<>> /\ handler = "none" =>
    /\ (ip_addr_txt = "address") <=> (link = "online")
    /\ link = "online" => nDisconnects = 0

(* The results of a scan are in the table before the next scan is started:  *)
(* the handler gives its semaphore last (clockConnect.c:292, 518-521).      *)
ResultsBeforeNextScan ==
  scanning => handler # "scan" /\ \A i \in 1 .. Len(events) : events[i] # "scan_done"

(* Once the WiFi is started, an ESP_ERROR_CHECK or an assertion fails in    *)
(* two ways only: an address is there before my_connect has created its     *)
(* semaphore, or a restart has stopped the driver under the event of a scan *)
(* that is still to be handled.  No restart in the middle of a reconnect,   *)
(* with its 2.3 seconds of sleep, aborts                                    *)
(* (clockConnect.c:617-621, 898-909; 353 against 99, 167 against 904).      *)
OnlyTwoWaysToAbort ==
  [][life' = "aborted" /\ life # "aborted" /\ main \notin {"boot", "station", "started"} =>
       /\ handler = "none"
       /\ \/ main = "joining" /\ Head(events) \in {"got_ip", "got_ip6"}
          \/ life = "stopping" /\ Head(events) = "scan_done"]_vars

(* Without an address my_connect goes on after its 10 seconds each, and     *)
(* scan_task never waits for a scan that was not started                    *)
(* (clockConnect.c:520, 551).                                               *)
NobodyWaitsForEver ==
  <>[](main = "done") /\ []<>(scanner = "test")

(* However often the network goes away, and whatever the clock was doing,   *)
(* the station is joined again and the page has its address again           *)
(* (clockConnect.c:607-622).                                                *)
AddressComesBack == <>[](useWIFI => ip_addr_txt = "address")
=============================================================================
