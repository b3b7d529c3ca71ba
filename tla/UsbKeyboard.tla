----------------------------- MODULE UsbKeyboard -----------------------------
(***************************************************************************)
(* The polled OHCI driver of ohci.c over its hardware: devices that are    *)
(* plugged in and out at any time, port resets, transfers that succeed,    *)
(* fail or hang, and timers that run meanwhile.  The payload polls it with *)
(* every FU_GET_CHAR and FU_POLL_CHAR; the reports go to BootKeyboard.     *)
(*                                                                         *)
(* The poll of one controller is one step: the firmware has one thread,    *)
(* and what the hardware does in the middle of a poll has the effect it    *)
(* would have had just before or just after it.  Each companion controller *)
(* of the RK356x has one root port.                                        *)
(***************************************************************************)
EXTENDS BootKeyboard

CONSTANTS
    Keyboards,    \* devices with a boot-keyboard interface
    Others,       \* devices without one
    MaxPlugs,     \* bound on plugging devices in and out
    MaxFaults,    \* bound on transfers of a live device that fail or hang
    MaxStrokes    \* bound on the changes of the keys a user holds down

Devices == Keyboards \union Others
None == "none"              \* no device
Malformed == "malformed"    \* descriptors that no check of the driver accepts
Nothing == [shift |-> FALSE, chord |-> FALSE, keys |-> <<>>]

ASSUME ControllersAssumption ==
    Cardinality(Controllers) \in Nat /\ Controllers = 1 .. Cardinality(Controllers)
ASSUME DevicesAssumption ==
    Keyboards \intersect Others = {} /\ Devices \intersect {None, Malformed} = {}
ASSUME BoundsAssumption ==
    MaxPlugs \in Nat /\ MaxFaults \in Nat /\ MaxStrokes \in Nat
ASSUME ReportsAssumption == Nothing \in Reports

VARIABLES
    ctrl,       \* struct Controller: enum_state, address, configured, and the
                \* device whose descriptors gave endpoint and interface
    turn,       \* the controller ohci_poll_all serves next; 0 when it returns
    due,        \* the controllers whose deadline has passed
    rested,     \* the controllers whose retry_after has passed
    control,    \* each controller's control transfer
    data,       \* the device that filled each controller's descriptor buffer
    interrupt,  \* each controller's interrupt transfer
    plugged,    \* the device at each controller's port
    resetting,  \* the controllers whose port drives a reset
    dev,        \* each device's own state
    keys,       \* the report that describes what each keyboard's user holds down
    sent,       \* the report each keyboard sent last
    plugs, faults, strokes  \* how often the outside world has acted

driverVars == <<ctrl, turn, due, rested>>
transferVars == <<control, data, interrupt>>
deviceVars == <<plugged, resetting, dev, keys, sent>>
boundVars == <<plugs, faults, strokes>>
usbVars == <<vars, driverVars, transferVars, deviceVars, boundVars>>

------------------------------------------------------------------------------
(* Control transfers.  A request has the name of the enum_state in which   *)
(* the driver waits for it.                                                *)

Descriptors == {"GET_DEVICE", "GET_DEVICE_FULL", "GET_CONFIG_HEAD", "GET_CONFIG"}
Requests == Descriptors \union {"SET_ADDRESS", "SET_CONFIG", "SET_PROTOCOL", "SET_IDLE"}

Unfinished(c) == control[c].status \in {"pending", "skipped"}

\* request_submit, control_submit: they rewrite the only endpoint descriptor
\* and transfer descriptors there are for control transfers.
Submit(c, request, address) ==
    /\ control' = [control EXCEPT ![c] =
         [request |-> request, address |-> address,
          status |-> IF Unfinished(c) THEN "clobbered" ELSE "pending"]]
    /\ due' = due \ {c}

Succeeded_OnTimeout(c) ==   \* Mutant: no answer in time counts as success.
    control[c].status = "ok" \/ (control[c].status = "pending" /\ c \in due)

\* control_status looks at the status stage only: a transfer that halts before
\* it is not told from one that still runs, until the deadline.
Succeeded(c) == control[c].status = "ok"

Failed(c) == control[c].status = "error" \/ (control[c].status # "ok" /\ c \in due)

\* ED_SKIP: the hardware leaves the transfer alone from its next frame on.
Skip(c) ==
    control' = [control EXCEPT ![c].status = IF @ = "pending" THEN "skipped" ELSE @]

------------------------------------------------------------------------------
(* ohci_poll_all: the poll of controller c                                 *)

Connected(c) == plugged[c] # None

\* The loop counter of ohci_poll_all, 0 past its end.
Serve(c) == IF c \in Controllers THEN c ELSE 0

Poll(c) == turn = c /\ turn' = Serve(c + 1)

Goto(c, state) == ctrl' = [ctrl EXCEPT ![c].state = state]

\* enumerate_step is past the test that the device is still there.
In(c, state) == ~ctrl[c].configured /\ ctrl[c].state = state /\ Connected(c)

Scan(c) ==
    /\ Poll(c) /\ In(c, "SCAN") /\ c \in rested
    /\ Goto(c, "POWER_WAIT") /\ due' = due \ {c}
    /\ UNCHANGED <<vars, rested, transferVars, deviceVars, boundVars>>

Gone(c) ==
    /\ Poll(c) /\ ~ctrl[c].configured /\ ctrl[c].state # "SCAN" /\ ~Connected(c)
    /\ Goto(c, "SCAN") /\ rested' = rested \union {c}
    /\ UNCHANGED <<vars, due, transferVars, deviceVars, boundVars>>

Fresh == [enabled |-> FALSE, address |-> 0, configured |-> FALSE, boot |-> FALSE]

PowerWait(c) ==
    /\ Poll(c) /\ In(c, "POWER_WAIT") /\ c \in due
    /\ resetting' = resetting \union {c}
    /\ dev' = [dev EXCEPT ![plugged[c]] = Fresh]
    /\ Goto(c, "RESET_WAIT") /\ due' = due \ {c}
    /\ UNCHANGED <<vars, rested, transferVars, plugged, keys, sent, boundVars>>

ResetWait(c) ==
    /\ Poll(c) /\ In(c, "RESET_WAIT")
    /\ c \notin resetting /\ dev[plugged[c]].enabled
    /\ Submit(c, "GET_DEVICE", 0) /\ Goto(c, "GET_DEVICE")
    /\ UNCHANGED <<vars, rested, data, interrupt, deviceVars, boundVars>>

Acceptable_AnyInterface(c) ==   \* Mutant: the interface class is not looked at.
    ctrl[c].state \in Descriptors => data[c] # Malformed

\* The checks on returned descriptors; the last is usb_find_boot_keyboard.
Acceptable(c) ==
    /\ ctrl[c].state \in Descriptors => data[c] # Malformed
    /\ ctrl[c].state = "GET_CONFIG" => data[c] \in Keyboards

Following_NoProtocol ==   \* Mutant: SET_PROTOCOL is forgotten.
    [GET_DEVICE |-> "SET_ADDRESS", GET_DEVICE_FULL |-> "GET_CONFIG_HEAD",
     GET_CONFIG_HEAD |-> "GET_CONFIG", GET_CONFIG |-> "SET_CONFIG",
     SET_CONFIG |-> "SET_IDLE"]

\* The request that follows a successful one at once.
Following ==
    [GET_DEVICE |-> "SET_ADDRESS", GET_DEVICE_FULL |-> "GET_CONFIG_HEAD",
     GET_CONFIG_HEAD |-> "GET_CONFIG", GET_CONFIG |-> "SET_CONFIG",
     SET_CONFIG |-> "SET_PROTOCOL", SET_PROTOCOL |-> "SET_IDLE"]

Ask(c) ==
    /\ Poll(c) /\ Succeeded(c) /\ Acceptable(c)
    /\ \E state \in DOMAIN Following :
         /\ In(c, state)
         /\ Submit(c, Following[state], IF state = "GET_DEVICE" THEN 0 ELSE ctrl[c].address)
         /\ ctrl' = [ctrl EXCEPT ![c] =
              [state |-> Following[state], configured |-> FALSE,
               address |-> IF state = "GET_DEVICE" THEN c ELSE ctrl[c].address,
               keyboard |-> IF state = "GET_CONFIG" THEN data[c] ELSE ctrl[c].keyboard]]
    /\ UNCHANGED <<vars, rested, data, interrupt, deviceVars, boundVars>>

SetAddress(c) ==
    /\ Poll(c) /\ In(c, "SET_ADDRESS") /\ Succeeded(c)
    /\ Goto(c, "ADDRESS_WAIT") /\ due' = due \ {c}
    /\ UNCHANGED <<vars, rested, transferVars, deviceVars, boundVars>>

AddressWait(c) ==
    /\ Poll(c) /\ In(c, "ADDRESS_WAIT") /\ c \in due
    /\ Submit(c, "GET_DEVICE_FULL", ctrl[c].address) /\ Goto(c, "GET_DEVICE_FULL")
    /\ UNCHANGED <<vars, rested, data, interrupt, deviceVars, boundVars>>

\* enumeration_fail and the tests that lead to it.
EnumerationFail(c) ==
    /\ Poll(c)
    /\ \/ In(c, "RESET_WAIT") /\ c \in resetting \intersect due
       \/ In(c, "RESET_WAIT") /\ c \notin resetting /\ ~dev[plugged[c]].enabled
       \/ \E state \in Requests :
            In(c, state) /\ (Failed(c) \/ (Succeeded(c) /\ ~Acceptable(c)))
    /\ Skip(c)
    /\ ctrl' = [ctrl EXCEPT ![c].state = "SCAN", ![c].address = 0]
    /\ rested' = rested \ {c}
    /\ UNCHANGED <<vars, due, data, interrupt, deviceVars, boundVars>>

\* periodic_start, when SET_IDLE has succeeded.
PeriodicStart(c) ==
    /\ Poll(c) /\ In(c, "SET_IDLE") /\ Succeeded(c)
    /\ ctrl' = [ctrl EXCEPT ![c].configured = TRUE]
    /\ interrupt' = [interrupt EXCEPT ![c].status = "armed"]
    /\ UNCHANGED <<vars, due, rested, control, data, deviceVars, boundVars>>

PeriodicStop_KeepState(c) ==   \* Mutant: enum_state does not go back to ENUM_SCAN.
    /\ Poll(c) /\ ctrl[c].configured
    /\ ~Connected(c) \/ interrupt[c].status = "error"
    /\ interrupt' = [interrupt EXCEPT ![c].status = "off"]
    /\ ctrl' = [ctrl EXCEPT ![c].configured = FALSE]
    /\ rested' = rested \ {c}
    /\ HidReset(c)
    /\ UNCHANGED <<due, control, data, deviceVars, boundVars>>

\* periodic_stop: the keyboard is gone, or its transfer failed.
PeriodicStop(c) ==
    /\ Poll(c) /\ ctrl[c].configured
    /\ ~Connected(c) \/ interrupt[c].status = "error"
    /\ interrupt' = [interrupt EXCEPT ![c].status = "off"]
    /\ ctrl' = [ctrl EXCEPT ![c].configured = FALSE, ![c].state = "SCAN"]
    /\ rested' = rested \ {c}
    /\ HidReset(c)
    /\ UNCHANGED <<due, control, data, deviceVars, boundVars>>

PeriodicPoll(c) ==
    /\ Poll(c) /\ ctrl[c].configured /\ Connected(c) /\ interrupt[c].status = "done"
    /\ HidReport(c, interrupt[c].report)
    /\ interrupt' = [interrupt EXCEPT ![c].status = "armed"]
    /\ UNCHANGED <<ctrl, due, rested, control, data, deviceVars, boundVars>>

\* Every other poll returns without having done anything.
Idle(c) ==
    /\ Poll(c)
    /\ \/ ~ctrl[c].configured /\ ctrl[c].state = "SCAN" /\ ~(Connected(c) /\ c \in rested)
       \/ (In(c, "POWER_WAIT") \/ In(c, "ADDRESS_WAIT")) /\ c \notin due
       \/ In(c, "RESET_WAIT") /\ c \in resetting \ due
       \/ \E state \in Requests : In(c, state) /\ ~Succeeded(c) /\ ~Failed(c)
       \/ ctrl[c].configured /\ Connected(c) /\ interrupt[c].status = "armed"
    /\ UNCHANGED <<vars, ctrl, due, rested, transferVars, deviceVars, boundVars>>

\* The FU_GET_CHAR or FU_POLL_CHAR call returns; the payload makes the next.
Return ==
    /\ turn = 0 /\ turn' = Serve(1)
    /\ GetChar \/ UNCHANGED vars
    /\ UNCHANGED <<ctrl, due, rested, transferVars, deviceVars, boundVars>>

Driver ==
    \/ \E c \in Controllers :
         \/ Scan(c) \/ Gone(c) \/ PowerWait(c) \/ ResetWait(c) \/ Ask(c)
         \/ SetAddress(c) \/ AddressWait(c) \/ EnumerationFail(c)
         \/ PeriodicStart(c) \/ PeriodicStop(c) \/ PeriodicPoll(c) \/ Idle(c)
    \/ Return

------------------------------------------------------------------------------
(* The hardware, as the driver uses it                                     *)

\* The device that answers on controller c's bus at an address.
Answers(c, address) ==
    /\ Connected(c)
    /\ dev[plugged[c]].enabled /\ dev[plugged[c]].address = address

\* A device carries out a request.
Obey(device, request, c) ==
    dev' = [dev EXCEPT ![device] =
      CASE request = "SET_ADDRESS"  -> [@ EXCEPT !.address = c]
        [] request = "SET_CONFIG"   -> [@ EXCEPT !.configured = TRUE]
        [] request = "SET_PROTOCOL" -> [@ EXCEPT !.boot = TRUE]
        [] OTHER                    -> @]

\* A transfer completes, also in the frame in which the driver gives it up.
TransferDone(c) ==
    /\ Unfinished(c) /\ Answers(c, control[c].address)
    /\ control' = [control EXCEPT ![c].status = "ok"]
    /\ Obey(plugged[c], control[c].request, c)
    /\ data' = IF control[c].request \in Descriptors
               THEN [data EXCEPT ![c] = plugged[c]] ELSE data
    /\ UNCHANGED <<vars, driverVars, interrupt, plugged, resetting, keys, sent, boundVars>>

\* Nobody answers, or the endpoint is skipped: over within a few frames, with
\* the status stage never reached.
TransferDies(c) ==
    /\ Unfinished(c)
    /\ control[c].status = "skipped" \/ ~Answers(c, control[c].address)
    /\ control' = [control EXCEPT ![c].status = "halted"]
    /\ UNCHANGED <<vars, driverVars, data, interrupt, deviceVars, boundVars>>

Fault == faults < MaxFaults /\ faults' = faults + 1

\* A live device stalls, in the status stage or before it, or returns nonsense.
TransferFault(c) ==
    /\ Fault
    /\ control[c].status = "pending" /\ Answers(c, control[c].address)
    /\ \/ /\ \E status \in {"error", "halted"} :
               control' = [control EXCEPT ![c].status = status]
          /\ UNCHANGED data
       \/ /\ control[c].request \in Descriptors
          /\ control' = [control EXCEPT ![c].status = "ok"]
          /\ data' = [data EXCEPT ![c] = Malformed]
    /\ UNCHANGED <<vars, driverVars, interrupt, deviceVars, plugs, strokes>>

\* What the hardware is about to end by itself: sooner than any delay of the
\* driver, the shortest of which outlasts a frame.
Settling(c) ==
    \/ control[c].status = "skipped"
    \/ control[c].status = "pending" /\ ~Answers(c, control[c].address)

\* The port has reset the device; one that is gone stays disabled.
ResetDone(c) ==
    /\ c \in resetting /\ ~Settling(c)
    /\ resetting' = resetting \ {c}
    /\ dev' = IF Connected(c) THEN [dev EXCEPT ![plugged[c]].enabled = TRUE] ELSE dev
    /\ UNCHANGED <<vars, driverVars, transferVars, plugged, keys, sent, boundVars>>

\* The keyboard sends what is held down when that has changed.
SendReport(c) ==
    /\ interrupt[c].status = "armed" /\ Answers(c, ctrl[c].address)
    /\ LET k == plugged[c] IN
         /\ k \in Keyboards /\ dev[k].configured /\ sent[k] # keys[k]
         /\ interrupt' = [interrupt EXCEPT ![c] =
              [status |-> "done", from |-> k, boot |-> dev[k].boot, report |-> keys[k]]]
         /\ sent' = [sent EXCEPT ![k] = keys[k]]
    /\ UNCHANGED <<vars, driverVars, control, data, plugged, resetting, dev, keys, boundVars>>

InterruptDies(c) ==
    /\ interrupt[c].status = "armed"
    /\ ~(Answers(c, ctrl[c].address) /\ dev[plugged[c]].configured)
    /\ interrupt' = [interrupt EXCEPT ![c].status = "error"]
    /\ UNCHANGED <<vars, driverVars, control, data, deviceVars, boundVars>>

InterruptFault(c) ==
    /\ Fault /\ interrupt[c].status = "armed"
    /\ interrupt' = [interrupt EXCEPT ![c].status = "error"]
    /\ UNCHANGED <<vars, driverVars, control, data, deviceVars, plugs, strokes>>

\* A delay passes: 20 ms of power, 2 ms after SET_ADDRESS, 500 ms of rest, or
\* the 100 ms of a transfer that has halted.
DelayPasses(c) ==
    /\ ~Settling(c)
    /\ \/ /\ c \notin due
          /\ \/ ctrl[c].state \in {"POWER_WAIT", "ADDRESS_WAIT"}
             \/ ctrl[c].state \in Requests /\ control[c].status = "halted"
          /\ due' = due \union {c} /\ UNCHANGED rested
       \/ /\ c \notin rested
          /\ rested' = rested \union {c} /\ UNCHANGED due
    /\ UNCHANGED <<vars, ctrl, turn, transferVars, deviceVars, boundVars>>

\* A deadline of 100 ms passes: a port that does not come out of reset, or a
\* device that neither answers nor fails.
DeadlinePasses(c) ==
    /\ Fault /\ c \notin due
    /\ \/ ctrl[c].state = "RESET_WAIT" /\ c \in resetting
       \/ control[c].status = "pending" /\ ~Settling(c)
    /\ due' = due \union {c}
    /\ UNCHANGED <<vars, ctrl, turn, rested, transferVars, deviceVars, plugs, strokes>>

Plug(c, d) ==
    /\ plugs < MaxPlugs /\ plugs' = plugs + 1
    /\ ~Connected(c) /\ \A b \in Controllers : plugged[b] # d
    /\ plugged' = [plugged EXCEPT ![c] = d]
    /\ UNCHANGED <<vars, driverVars, transferVars, resetting, dev, keys, sent, faults, strokes>>

\* A device loses its state with its power.
Unplug(c) ==
    /\ plugs < MaxPlugs /\ plugs' = plugs + 1
    /\ Connected(c)
    /\ plugged' = [plugged EXCEPT ![c] = None]
    /\ dev' = [dev EXCEPT ![plugged[c]] = Fresh]
    /\ sent' = [sent EXCEPT ![plugged[c]] = Nothing]
    /\ UNCHANGED <<vars, driverVars, transferVars, resetting, keys, faults, strokes>>

\* A user presses or releases keys.
Stroke(k, report) ==
    /\ strokes < MaxStrokes /\ strokes' = strokes + 1
    /\ report # keys[k]
    /\ keys' = [keys EXCEPT ![k] = report]
    /\ UNCHANGED <<vars, driverVars, transferVars, plugged, resetting, dev, sent, plugs, faults>>

Hardware(c) ==
    \/ TransferDone(c) \/ TransferDies(c) \/ ResetDone(c)
    \/ SendReport(c) \/ InterruptDies(c) \/ DelayPasses(c)

Outside ==
    \/ \E c \in Controllers :
         \/ TransferFault(c) \/ InterruptFault(c) \/ DeadlinePasses(c)
         \/ Unplug(c)
         \/ \E d \in Devices : Plug(c, d)
    \/ \E k \in Keyboards, report \in Reports : Stroke(k, report)

------------------------------------------------------------------------------

UsbInit ==
    /\ Init
    /\ ctrl = [c \in Controllers |->
         [state |-> "SCAN", address |-> 0, configured |-> FALSE, keyboard |-> None]]
    /\ turn = Serve(1) /\ due = {} /\ rested = Controllers
    /\ control = [c \in Controllers |->
         [request |-> "SET_IDLE", address |-> 0, status |-> "none"]]
    /\ data = [c \in Controllers |-> None]
    /\ interrupt = [c \in Controllers |->
         [status |-> "off", from |-> None, boot |-> FALSE, report |-> Nothing]]
    /\ plugged = [c \in Controllers |-> None] /\ resetting = {}
    /\ dev = [d \in Devices |-> Fresh]
    /\ keys = [k \in Keyboards |-> Nothing]
    /\ sent = [d \in Devices |-> Nothing]
    /\ plugs = 0 /\ faults = 0 /\ strokes = 0

UsbNext == Driver \/ Outside \/ \E c \in Controllers : Hardware(c)

UsbSpec == UsbInit /\ [][UsbNext]_usbVars

\* The payload keeps polling, and no part of the hardware stops for good:
\* transfers of live devices end, resets finish, delays pass, keyboards report.
Fairness ==
    /\ WF_usbVars(Driver)
    /\ \A c \in Controllers :
         /\ WF_usbVars(TransferDone(c)) /\ WF_usbVars(TransferDies(c))
         /\ WF_usbVars(ResetDone(c)) /\ WF_usbVars(DelayPasses(c))
         /\ WF_usbVars(SendReport(c)) /\ WF_usbVars(InterruptDies(c))

FairUsbSpec == UsbSpec /\ Fairness

------------------------------------------------------------------------------
(* Properties                                                              *)

States == Requests \union {"SCAN", "POWER_WAIT", "RESET_WAIT", "ADDRESS_WAIT"}
Addresses == {0} \union Controllers

ControllerType == [state : States, address : Addresses, configured : BOOLEAN,
                   keyboard : Keyboards \union {None}]
TransferType == [request : Requests, address : Addresses,
                 status : {"none", "pending", "skipped", "halted", "ok", "error", "clobbered"}]
InterruptType == [status : {"off", "armed", "done", "error"},
                  from : Keyboards \union {None}, boot : BOOLEAN, report : Reports]
DeviceType == [enabled : BOOLEAN, address : Addresses, configured : BOOLEAN, boot : BOOLEAN]

\* Types of the driver and of the hardware.
UsbTypeOK ==
    /\ ctrl \in [Controllers -> ControllerType]
    /\ turn \in Addresses /\ due \subseteq Controllers /\ rested \subseteq Controllers
    /\ control \in [Controllers -> TransferType]
    /\ data \in [Controllers -> Devices \union {None, Malformed}]
    /\ interrupt \in [Controllers -> InterruptType]
    /\ plugged \in [Controllers -> Devices \union {None}]
    /\ resetting \subseteq Controllers
    /\ dev \in [Devices -> DeviceType]
    /\ keys \in [Keyboards -> Reports] /\ sent \in [Devices -> Reports]

\* The driver never rewrites transfer descriptors that the hardware still
\* works on: not after a timeout, not after a device went away half-way.
TransferOwnership == \A c \in Controllers : control[c].status # "clobbered"

\* What arrives as a report was sent, in the boot protocol, by the keyboard
\* whose descriptors the driver read: devices may be exchanged at any time.
DrivesOwnKeyboard ==
    \A c \in Controllers : interrupt[c].status = "done" =>
        interrupt[c].boot /\ interrupt[c].from = ctrl[c].keyboard

\* A keyboard that stays plugged in is configured in the end, and all that its
\* user does is reported: after any history of faults and detached devices.
KeyboardServed ==
    \A c \in Controllers, k \in Keyboards :
        <>[](plugged[c] = k) =>
            <>[](ctrl[c].configured /\ ctrl[c].keyboard = k /\ sent[k] = keys[k])
=============================================================================
