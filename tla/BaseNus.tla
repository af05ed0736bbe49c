------------------------------ MODULE BaseNus ------------------------------
(* The base station's side of a readout: the connection logic of radio.c and  *)
(* the NUS client of nus.c, in the raw output format that prj.conf selects.   *)
(* All of it runs in two cooperative threads, the Bluetooth receive thread    *)
(* ("rx") and the system work queue with the buttons ("button"), so a handler *)
(* is one step up to where it waits for the controller: start_scanning waits  *)
(* in bt_le_scan_start() after it has set its flags, scan_recv between        *)
(* stopping the scan and creating the connection.                             *)
(*                                                                            *)
(* Scanning levels, beacon identities and the output queue are left out: the  *)
(* beacon's advertisement qualifies whenever it can be heard.                 *)
EXTENDS NusWire

CONSTANT MaxPresses     \* bound on the operator's button presses

ASSUME BaseAssumption == MaxPresses \in Nat

VARIABLES
  default_conn,                   \* default_conn is set
  connect_in_progress,
  scanning_requested,
  stop_after_finished_requested,
  scanner,                        \* the controller is scanning
  scan_start,                     \* the thread that waits in bt_le_scan_start()
  scan_recv,                      \* scan_recv has stopped the scan for a match
  nus_ready_notified,
  transfer_finish_pending,
  finish_disconnect_work,         \* the disconnect work is scheduled
  tagged_conn,                    \* tagged_conn is the connection
  rx_idle_timeout_work,
  discovering,                    \* a GATT discovery is under way
  subscribed,                     \* notifications reach data_received
  got,                            \* entries that were ever output
  heard,                          \* entries output during this connection
  presses,
  asked                           \* ghost: the operator's last word, see below

radioVars == <<default_conn, connect_in_progress, nus_ready_notified, transfer_finish_pending,
               finish_disconnect_work>>
scanVars  == <<scanning_requested, stop_after_finished_requested, scanner, scan_start, scan_recv,
               presses, asked>>
nusVars   == <<tagged_conn, rx_idle_timeout_work, discovering, subscribed, got, heard>>
baseVars  == <<radioVars, scanVars, nusVars>>

BaseInit ==
  /\ default_conn = FALSE
  /\ connect_in_progress = FALSE
  /\ scanning_requested = FALSE
  /\ stop_after_finished_requested = FALSE
  /\ scanner = FALSE
  /\ scan_start = "none"
  /\ scan_recv = FALSE
  /\ nus_ready_notified = FALSE
  /\ transfer_finish_pending = FALSE
  /\ finish_disconnect_work = FALSE
  /\ tagged_conn = FALSE
  /\ rx_idle_timeout_work = FALSE
  /\ discovering = FALSE
  /\ subscribed = FALSE
  /\ got = {}
  /\ heard = {}
  /\ presses = 0
  /\ asked = "start"

-----------------------------------------------------------------------------
(* Scanning.                                                                  *)

(* asked is "start", "finish" while what was in hand at a stop goes on, and    *)
(* "stop" once that is over.                                                  *)
InHand == scan_recv \/ default_conn \/ connect_in_progress
HandEmpty == asked' = IF asked = "finish" THEN "stop" ELSE asked

(* start_scanning(), with what the caller has just made of its two guards.    *)
(* bt_le_scan_start() refuses at once when the scan runs or is being started. *)
StartScanning(thread, conn, connecting) ==
  /\ stop_after_finished_requested' = FALSE
  /\ scanning_requested' = TRUE
  /\ scan_start' = IF conn \/ connecting \/ scanner \/ scan_start # "none"
                     THEN scan_start ELSE thread

\* bt_le_scan_start() returns.
ScanStarts == /\ scan_start # "none"
              /\ scan_start' = "none"
              /\ \/ scanner' = TRUE /\ NoFault
                 \/ ~scanner /\ UNCHANGED scanner /\ Fault
              /\ UNCHANGED <<linked, toBase, toBeacon, radioVars, scanning_requested,
                             stop_after_finished_requested, scan_recv, presses, asked, nusVars>>

\* A press reaches button_handler(), on the system work queue.
Press == /\ presses < MaxPresses
         /\ scan_start # "button"
         /\ presses' = presses + 1
         /\ UNCHANGED <<linked, toBase, toBeacon, radioVars, scan_recv, nusVars>>

\* radio_start_scanning_with_level()
PressStart == /\ Press
              /\ asked' = "start"
              /\ StartScanning("button", default_conn, connect_in_progress)
              /\ UNCHANGED <<scanner, faults>>

\* radio_request_stop_after_finished()
PressStop == /\ Press
             /\ asked' = IF InHand THEN "finish" ELSE "stop"
             /\ stop_after_finished_requested' = TRUE
             /\ scanning_requested' = FALSE
             /\ \/ scanner' = FALSE /\ NoFault
                \/ scanner /\ UNCHANGED scanner /\ Fault
             /\ UNCHANGED scan_start

\* scan_recv(), up to bt_le_scan_stop().
ScanMatch == /\ scanner
             /\ scan_start # "rx"
             /\ ~scan_recv
             /\ ~(default_conn \/ connect_in_progress \/ stop_after_finished_requested)
             /\ \/ scanner' = FALSE /\ scan_recv' = TRUE /\ NoFault
                \/ UNCHANGED <<scanner, scan_recv>> /\ Fault
             /\ UNCHANGED <<linked, toBase, toBeacon, radioVars, scanning_requested, scan_start,
                            stop_after_finished_requested, presses, asked, nusVars>>

RescanAlways == StartScanning("rx", FALSE, FALSE)  \* mutant: no look at the stop

\* Scanning again after a connection that did not come about.
Rescan == IF stop_after_finished_requested
            THEN UNCHANGED <<scanning_requested, stop_after_finished_requested, scan_start>>
            ELSE StartScanning("rx", FALSE, FALSE)

(* The rest of scan_recv().  bt_conn_le_create() refuses while the scanner    *)
(* runs or is started, as it is if the operator has just asked for it.        *)
CreateConn ==
  /\ scan_recv
  /\ scan_recv' = FALSE
  /\ \/ /\ ~scanner
        /\ connect_in_progress' = TRUE
        /\ default_conn' = TRUE
        /\ UNCHANGED <<scanning_requested, stop_after_finished_requested, scan_start, asked>>
     \/ /\ scanner \/ scan_start # "none"
        /\ connect_in_progress' = FALSE
        /\ default_conn' = FALSE
        /\ HandEmpty
        /\ Rescan
  /\ UNCHANGED <<linked, toBase, toBeacon, faults, nus_ready_notified, transfer_finish_pending,
                 finish_disconnect_work, scanner, presses, nusVars>>

-----------------------------------------------------------------------------
(* The connection.                                                            *)

\* connected(), with and without an error.
BaseConnected == /\ default_conn
                 /\ connect_in_progress
                 /\ connect_in_progress' = FALSE
                 /\ nus_ready_notified' = FALSE
                 /\ heard' = {}
                 /\ subscribed' = FALSE
                 /\ UNCHANGED <<default_conn, transfer_finish_pending, finish_disconnect_work, scanVars,
                                tagged_conn, rx_idle_timeout_work, discovering, got>>

ConnectFails == /\ default_conn
                /\ connect_in_progress
                /\ connect_in_progress' = FALSE
                /\ default_conn' = FALSE
                /\ HandEmpty
                /\ Rescan
                /\ UNCHANGED <<linked, toBase, toBeacon, faults, nus_ready_notified,
                               transfer_finish_pending, finish_disconnect_work, scanner,
                               scan_recv, presses, nusVars>>

Connection == default_conn /\ ~connect_in_progress

\* exchange_func() / notify_ready_for_nus() and with it nus_on_connected().
ReadyForNus == /\ Connection
               /\ ~nus_ready_notified
               /\ nus_ready_notified' = TRUE
               /\ tagged_conn' = TRUE
               /\ rx_idle_timeout_work' = TRUE
               /\ \/ discovering' = TRUE /\ NoFault
                  \/ discovering' = FALSE /\ Fault
               /\ UNCHANGED <<linked, toBase, toBeacon, default_conn, connect_in_progress,
                              transfer_finish_pending, finish_disconnect_work, scanVars, subscribed, got, heard>>

(* discovery_complete(): subscribe, then the start command; each may fail.     *)
Discovered ==
  /\ discovering
  /\ discovering' = FALSE
  /\ \/ /\ toBeacon' = Sent(toBeacon, <<[kind |-> "subscribe"], [kind |-> "st"]>>)
        /\ subscribed' = TRUE
        /\ NoFault
     \/ /\ toBeacon' = Sent(toBeacon, <<[kind |-> "subscribe"]>>)
        /\ subscribed' = TRUE
        /\ Fault
     \/ UNCHANGED <<toBeacon, subscribed>> /\ Fault
  /\ UNCHANGED <<linked, toBase, radioVars, scanVars, tagged_conn, rx_idle_timeout_work, got, heard>>

(* data_received(): the payload goes to the output queue, then the batch is    *)
(* acknowledged.  The queue's put waits for room, so it never drops.           *)
Ackable(m) == m.kind = "batch"

DataReceived ==
  /\ Connection
  /\ subscribed
  /\ toBase # <<>>
  /\ toBase' = Tail(toBase)
  /\ rx_idle_timeout_work' = TRUE
  /\ LET m == Head(toBase) IN
       IF tagged_conn /\ Ackable(m)
         THEN /\ got' = got \cup Entries(m)
              /\ heard' = heard \cup Entries(m)
              /\ \/ toBeacon' = Sent(toBeacon, <<[kind |-> "ack", domain |-> m.domain, count |-> m.count]>>)
                    /\ NoFault
                 \/ UNCHANGED toBeacon /\ Fault
         ELSE UNCHANGED <<got, heard, toBeacon, faults>>
  /\ UNCHANGED <<linked, radioVars, scanVars, tagged_conn, discovering, subscribed>>

\* radio_transfer_finished() while connected; a second call changes nothing.
TransferFinished == /\ transfer_finish_pending' = TRUE
                    /\ finish_disconnect_work' = (finish_disconnect_work \/ ~transfer_finish_pending)

\* rx_idle_timeout_handler(); `quiet`: nothing is going on over the connection.
RxIdleTimeout(quiet) ==
  /\ rx_idle_timeout_work
  /\ scan_start # "button"
  /\ rx_idle_timeout_work' = FALSE
  /\ IF quiet THEN NoFault ELSE Fault
  /\ TransferFinished
  /\ UNCHANGED <<linked, toBase, toBeacon, default_conn, connect_in_progress, nus_ready_notified,
                 scanVars, tagged_conn, discovering, subscribed, got, heard>>

\* finish_disconnect_handler()
FinishDisconnect ==
  /\ finish_disconnect_work
  /\ scan_start # "button"
  /\ finish_disconnect_work' = FALSE
  /\ \/ linked' = FALSE /\ NoFault /\ UNCHANGED transfer_finish_pending
     \/ linked /\ UNCHANGED linked /\ Fault /\ transfer_finish_pending' = FALSE
  /\ UNCHANGED <<toBase, toBeacon, default_conn, connect_in_progress, nus_ready_notified, scanVars, nusVars>>

\* disconnected() and with it nus_on_disconnected().
BaseDisconnected ==
  /\ Connection
  /\ ~linked
  /\ default_conn' = FALSE
  /\ connect_in_progress' = FALSE
  /\ nus_ready_notified' = FALSE
  /\ transfer_finish_pending' = FALSE
  /\ finish_disconnect_work' = FALSE
  /\ tagged_conn' = FALSE
  /\ rx_idle_timeout_work' = FALSE
  /\ discovering' = FALSE
  /\ subscribed' = FALSE
  /\ toBase' = <<>>
  /\ heard' = {}
  /\ HandEmpty
  /\ IF stop_after_finished_requested
       THEN /\ scanning_requested' = FALSE
            /\ UNCHANGED <<stop_after_finished_requested, scan_start>>
       ELSE IF scanning_requested
         THEN StartScanning("rx", FALSE, FALSE)
         ELSE UNCHANGED <<scanning_requested, stop_after_finished_requested, scan_start>>
  /\ UNCHANGED <<linked, toBeacon, faults, scanner, scan_recv, presses, got>>

Base == \/ PressStart \/ PressStop \/ ScanStarts \/ ScanMatch \/ CreateConn
        \/ ReadyForNus \/ Discovered \/ DataReceived \/ FinishDisconnect \/ BaseDisconnected
=============================================================================
