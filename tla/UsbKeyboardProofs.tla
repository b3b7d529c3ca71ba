-------------------------- MODULE UsbKeyboardProofs --------------------------
(***************************************************************************)
(* Theorems about the OHCI driver for any number of controllers, devices,  *)
(* faults and exchanges of devices: the driver never touches a transfer    *)
(* the hardware still works on (TransferOwnership), and every report comes *)
(* from the keyboard it configured (DrivesOwnKeyboard).                    *)
(***************************************************************************)
EXTENDS UsbKeyboard, FoldLemmas

\* The states in which the device is addressed by its new address.
Addressed == {"GET_DEVICE_FULL", "GET_CONFIG_HEAD", "GET_CONFIG", "SET_CONFIG",
              "SET_PROTOCOL", "SET_IDLE"}
Selected == {"SET_CONFIG", "SET_PROTOCOL", "SET_IDLE"}

\* Between the devices: each is at one port at most, and loses its state there.
DevicesInv ==
    /\ \A b, c \in Controllers : plugged[b] = plugged[c] /\ plugged[b] # None => b = c
    /\ \A d \in Devices : dev[d] # Fresh => \E c \in Controllers : plugged[c] = d

\* A port that drives a reset has a device without state, and its controller
\* talks to nobody.
ResetInv(c) ==
    c \in resetting =>
      /\ ctrl[c].state \in {"SCAN", "POWER_WAIT", "RESET_WAIT"} /\ ~ctrl[c].configured
      /\ Connected(c) => dev[plugged[c]] = Fresh

\* Where the driver submits its next transfer, the last one is finished, and
\* the transfer it waits for is the one it has submitted.
TransferInv(c) ==
    /\ control[c].status # "clobbered"
    /\ \/ ctrl[c].state = "ADDRESS_WAIT" \/ ctrl[c].configured
       \/ ctrl[c].state = "RESET_WAIT" /\ c \notin resetting
       => ~Unfinished(c)
    /\ ctrl[c].state \in Requests => control[c].request = ctrl[c].state
    /\ ctrl[c].state \in Requests /\ ~ctrl[c].configured => control[c].status # "skipped"
    /\ ctrl[c].state \in Addressed => control[c].address = c
    /\ ctrl[c].state \in Addressed \union {"SET_ADDRESS", "ADDRESS_WAIT"} => ctrl[c].address = c
    /\ ctrl[c].configured => ctrl[c].state = "SET_IDLE"
    /\ interrupt[c].status # "off" => ctrl[c].configured

\* While a device answers at the address the driver gave, it is the one whose
\* descriptors were read and that has obeyed the requests so far.
KeyboardInv(c) ==
    /\ Answers(c, c) =>
         /\ ctrl[c].state = "GET_CONFIG" /\ Succeeded(c) => data[c] \in {plugged[c], Malformed}
         /\ ctrl[c].state \in Selected => ctrl[c].keyboard = plugged[c]
         /\ ctrl[c].state = "SET_PROTOCOL" /\ Succeeded(c) => dev[plugged[c]].boot
         /\ ctrl[c].state = "SET_IDLE" => dev[plugged[c]].boot
    /\ interrupt[c].status = "done" => interrupt[c].boot /\ interrupt[c].from = ctrl[c].keyboard

UsbInv ==
    /\ UsbTypeOK /\ DevicesInv
    /\ \A c \in Controllers : ResetInv(c) /\ TransferInv(c) /\ KeyboardInv(c)

------------------------------------------------------------------------------
\* Controllers are positive numbers, and the markers are no devices.
LEMMA ControllerFacts ==
    /\ \A c \in Controllers : c \in Nat /\ c # 0
    /\ None \notin Devices /\ Malformed \notin Devices /\ None # Malformed
  BY ControllersAssumption, DevicesAssumption DEF None, Malformed

\* A step that leaves a controller, its port and its device alone.
LEMMA Frame ==
    ASSUME NEW b \in Controllers, ResetInv(b), TransferInv(b), KeyboardInv(b),
           ctrl'[b] = ctrl[b], control'[b] = control[b], data'[b] = data[b],
           interrupt'[b] = interrupt[b], plugged'[b] = plugged[b],
           b \in resetting' => b \in resetting,
           b \in resetting => b \in resetting',
           plugged[b] # None => dev'[plugged[b]] = dev[plugged[b]]
    PROVE  ResetInv(b)' /\ TransferInv(b)' /\ KeyboardInv(b)'
<1>1. ResetInv(b)'
  BY DEF ResetInv, Connected
<1>2. TransferInv(b)'
  BY DEF TransferInv, Unfinished
<1>3. KeyboardInv(b)'
  BY DEF KeyboardInv, Answers, Connected, Succeeded
<1> QED
  BY <1>1, <1>2, <1>3

------------------------------------------------------------------------------
(* Types                                                                   *)

\* Ask submits requests, and none of those that have actions of their own.
LEMMA FollowingFacts ==
    ASSUME NEW s \in DOMAIN Following
    PROVE  s \in Requests /\ Following[s] \in Requests \ {"SCAN", "GET_DEVICE", "GET_DEVICE_FULL"}
  BY DEF Following, Requests, Descriptors

\* What a submission writes is typed.
LEMMA SubmitType ==
    ASSUME UsbTypeOK, NEW c \in Controllers, NEW request \in Requests,
           NEW address \in Addresses, Submit(c, request, address)
    PROVE  control' \in [Controllers -> TransferType] /\ due' \subseteq Controllers
<1> DEFINE transfer == [request |-> request, address |-> address,
                        status |-> IF Unfinished(c) THEN "clobbered" ELSE "pending"]
<1>1. transfer \in TransferType
  BY DEF TransferType
<1>2. control' = [control EXCEPT ![c] = transfer] /\ due' = due \ {c}
  BY DEF Submit
<1> QED
  BY <1>1, <1>2 DEF UsbTypeOK

\* What a device's obedience writes is typed.
LEMMA ObeyType ==
    ASSUME UsbTypeOK, NEW c \in Controllers, NEW d \in Devices,
           NEW request, Obey(d, request, c)
    PROVE  dev' \in [Devices -> DeviceType]
<1> DEFINE after ==
      CASE request = "SET_ADDRESS"  -> [dev[d] EXCEPT !.address = c]
        [] request = "SET_CONFIG"   -> [dev[d] EXCEPT !.configured = TRUE]
        [] request = "SET_PROTOCOL" -> [dev[d] EXCEPT !.boot = TRUE]
        [] OTHER                    -> dev[d]
<1>1. dev[d] \in DeviceType
  BY DEF UsbTypeOK
<1>2. after \in DeviceType
  <2>1. CASE request = "SET_ADDRESS"
    BY <1>1, <2>1 DEF DeviceType, Addresses
  <2>2. CASE request = "SET_CONFIG"
    BY <1>1, <2>2 DEF DeviceType
  <2>3. CASE request = "SET_PROTOCOL"
    BY <1>1, <2>3 DEF DeviceType
  <2>4. CASE request \notin {"SET_ADDRESS", "SET_CONFIG", "SET_PROTOCOL"}
    BY <1>1, <2>4
  <2> QED
    BY <2>1, <2>2, <2>3, <2>4
<1>3. dev' = [dev EXCEPT ![d] = after]
  BY DEF Obey
<1> QED
  BY <1>2, <1>3 DEF UsbTypeOK

\* What Ask does, written out.
LEMMA AskEffect ==
    ASSUME UsbTypeOK, NEW c \in Controllers, Ask(c)
    PROVE  \E s \in DOMAIN Following :
             LET after == [state |-> Following[s], configured |-> FALSE,
                           address |-> IF s = "GET_DEVICE" THEN c ELSE ctrl[c].address,
                           keyboard |-> IF s = "GET_CONFIG" THEN data[c] ELSE ctrl[c].keyboard]
             IN /\ ~ctrl[c].configured /\ ctrl[c].state = s /\ Connected(c) /\ Succeeded(c)
                /\ s = "GET_CONFIG" => data[c] \in Keyboards
                /\ Submit(c, Following[s], IF s = "GET_DEVICE" THEN 0 ELSE ctrl[c].address)
                /\ ctrl' = [ctrl EXCEPT ![c] = after]
                /\ after \in ControllerType
                /\ ctrl' \in [Controllers -> ControllerType]
<1>1. PICK s \in DOMAIN Following :
        /\ In(c, s)
        /\ Submit(c, Following[s], IF s = "GET_DEVICE" THEN 0 ELSE ctrl[c].address)
        /\ ctrl' = [ctrl EXCEPT ![c] =
             [state |-> Following[s], configured |-> FALSE,
              address |-> IF s = "GET_DEVICE" THEN c ELSE ctrl[c].address,
              keyboard |-> IF s = "GET_CONFIG" THEN data[c] ELSE ctrl[c].keyboard]]
  BY DEF Ask
<1> DEFINE after == [state |-> Following[s], configured |-> FALSE,
                     address |-> IF s = "GET_DEVICE" THEN c ELSE ctrl[c].address,
                     keyboard |-> IF s = "GET_CONFIG" THEN data[c] ELSE ctrl[c].keyboard]
<1>2. s = "GET_CONFIG" => data[c] \in Keyboards
  BY <1>1 DEF Ask, Acceptable, In
<1>3. ctrl[c] \in ControllerType
  BY DEF UsbTypeOK
<1>4. after \in ControllerType
  <2>1. Following[s] \in States
    BY FollowingFacts DEF States
  <2>2. (IF s = "GET_DEVICE" THEN c ELSE ctrl[c].address) \in Addresses
    BY <1>3 DEF ControllerType, Addresses
  <2>3. (IF s = "GET_CONFIG" THEN data[c] ELSE ctrl[c].keyboard) \in Keyboards \union {None}
    BY <1>2, <1>3 DEF ControllerType
  <2> QED
    BY <2>1, <2>2, <2>3 DEF ControllerType
<1>5. ctrl' = [ctrl EXCEPT ![c] = after]
  BY <1>1
<1>6. ctrl' \in [Controllers -> ControllerType]
  BY <1>4, <1>5 DEF UsbTypeOK
<1>7. Succeeded(c)
  BY DEF Ask
<1> QED
  BY <1>1, <1>2, <1>4, <1>5, <1>6, <1>7 DEF In

\* What Ask does in a state of the invariant: the last transfer is over.
LEMMA AskFacts ==
    ASSUME UsbInv, NEW c \in Controllers, Ask(c)
    PROVE  \E s \in DOMAIN Following :
             /\ ~ctrl[c].configured /\ ctrl[c].state = s /\ Succeeded(c)
             /\ s = "GET_CONFIG" => data[c] \in Keyboards
             /\ ~ctrl'[c].configured /\ ctrl'[c].state = Following[s]
             /\ ctrl'[c].address = (IF s = "GET_DEVICE" THEN c ELSE ctrl[c].address)
             /\ ctrl'[c].keyboard = (IF s = "GET_CONFIG" THEN data[c] ELSE ctrl[c].keyboard)
             /\ control'[c].request = Following[s] /\ control'[c].status = "pending"
             /\ control'[c].address = (IF s = "GET_DEVICE" THEN 0 ELSE ctrl[c].address)
<1>1. PICK s \in DOMAIN Following :
        LET after == [state |-> Following[s], configured |-> FALSE,
                      address |-> IF s = "GET_DEVICE" THEN c ELSE ctrl[c].address,
                      keyboard |-> IF s = "GET_CONFIG" THEN data[c] ELSE ctrl[c].keyboard]
        IN /\ ~ctrl[c].configured /\ ctrl[c].state = s /\ Connected(c) /\ Succeeded(c)
           /\ s = "GET_CONFIG" => data[c] \in Keyboards
           /\ Submit(c, Following[s], IF s = "GET_DEVICE" THEN 0 ELSE ctrl[c].address)
           /\ ctrl' = [ctrl EXCEPT ![c] = after]
           /\ after \in ControllerType
           /\ ctrl' \in [Controllers -> ControllerType]
  BY AskEffect DEF UsbInv
<1>2. ~Unfinished(c)
  BY <1>1 DEF Succeeded, Unfinished
<1>3. control' = [control EXCEPT ![c] =
        [request |-> Following[s], address |-> IF s = "GET_DEVICE" THEN 0 ELSE ctrl[c].address,
         status |-> "pending"]]
  BY <1>1, <1>2 DEF Submit
<1>4. control'[c] = [request |-> Following[s], status |-> "pending",
                     address |-> IF s = "GET_DEVICE" THEN 0 ELSE ctrl[c].address]
  BY <1>3 DEF UsbInv, UsbTypeOK
<1> QED
  BY <1>1, <1>4

\* What a device's obedience changes.
LEMMA ObeyEffect ==
    ASSUME UsbTypeOK, NEW c \in Controllers, NEW d \in Devices,
           NEW request, Obey(d, request, c)
    PROVE  /\ \A e \in Devices : e # d => dev'[e] = dev[e]
           /\ dev'[d].enabled = dev[d].enabled
           /\ request # "SET_ADDRESS" => dev'[d].address = dev[d].address
           /\ dev[d].boot \/ request = "SET_PROTOCOL" => dev'[d].boot
  BY DEF Obey, UsbTypeOK

\* A field of one entry is assigned a value of its type.
LEMMA EntryAssigned ==
    ASSUME NEW S, NEW T, NEW f \in [S -> T], NEW x \in S, NEW v \in T
    PROVE  [f EXCEPT ![x] = v] \in [S -> T]
  OBVIOUS

LEMMA ControllerAssigned ==
    ASSUME NEW f \in [Controllers -> ControllerType], NEW c \in Controllers
    PROVE  /\ \A s \in States : [f EXCEPT ![c].state = s] \in [Controllers -> ControllerType]
           /\ \A a \in Addresses : [f EXCEPT ![c].address = a] \in [Controllers -> ControllerType]
           /\ \A b \in BOOLEAN : [f EXCEPT ![c].configured = b] \in [Controllers -> ControllerType]
<1>1. f[c] \in ControllerType
  OBVIOUS
<1>2. \A s \in States : [f[c] EXCEPT !.state = s] \in ControllerType
  BY <1>1 DEF ControllerType
<1>3. \A a \in Addresses : [f[c] EXCEPT !.address = a] \in ControllerType
  BY <1>1 DEF ControllerType
<1>4. \A b \in BOOLEAN : [f[c] EXCEPT !.configured = b] \in ControllerType
  BY <1>1 DEF ControllerType
<1> QED
  BY <1>2, <1>3, <1>4, EntryAssigned

LEMMA StatusAssigned ==
    ASSUME UsbTypeOK, NEW c \in Controllers
    PROVE  /\ \A s \in {"skipped", "halted", "ok", "error"} :
                [control EXCEPT ![c].status = s] \in [Controllers -> TransferType]
           /\ \A s \in {"off", "armed", "error"} :
                [interrupt EXCEPT ![c].status = s] \in [Controllers -> InterruptType]
<1>1. /\ control \in [Controllers -> TransferType] /\ control[c] \in TransferType
      /\ interrupt \in [Controllers -> InterruptType] /\ interrupt[c] \in InterruptType
  BY DEF UsbTypeOK
<1>2. \A s \in {"skipped", "halted", "ok", "error"} :
        [control[c] EXCEPT !.status = s] \in TransferType
  BY <1>1 DEF TransferType
<1>3. \A s \in {"off", "armed", "error"} : [interrupt[c] EXCEPT !.status = s] \in InterruptType
  BY <1>1 DEF InterruptType
<1> QED
  BY <1>1, <1>2, <1>3, EntryAssigned

LEMMA EnabledAssigned ==
    ASSUME UsbTypeOK, NEW d \in Devices, NEW b \in BOOLEAN
    PROVE  [dev EXCEPT ![d].enabled = b] \in [Devices -> DeviceType]
<1>1. dev \in [Devices -> DeviceType] /\ dev[d] \in DeviceType
  BY DEF UsbTypeOK
<1>2. [dev[d] EXCEPT !.enabled = b] \in DeviceType
  BY <1>1 DEF DeviceType
<1> QED
  BY <1>1, <1>2, EntryAssigned

LEMMA StateFacts ==
    /\ Requests \subseteq States
    /\ {"SCAN", "POWER_WAIT", "RESET_WAIT", "ADDRESS_WAIT"} \subseteq States
    /\ {"GET_DEVICE", "GET_DEVICE_FULL", "SET_ADDRESS", "SET_IDLE"} \subseteq States
    /\ 0 \in Addresses /\ Controllers \subseteq Addresses
  BY DEF States, Requests, Descriptors, Addresses

\* Scan keeps the types.
LEMMA ScanType == ASSUME UsbTypeOK, NEW c \in Controllers, Scan(c) PROVE UsbTypeOK'
<1>1. ctrl' \in [Controllers -> ControllerType]
  <2>1. ctrl \in [Controllers -> ControllerType]
    BY DEF UsbTypeOK
  <2>2. ctrl' = [ctrl EXCEPT ![c].state = "POWER_WAIT"]
    BY DEF Scan, Goto
  <2> QED
    BY <2>1, <2>2, ControllerAssigned, StateFacts
<1>2. turn' \in Addresses
  BY DEF Scan, Poll, Serve, Addresses
<1> QED
  BY <1>1, <1>2 DEF Scan, UsbTypeOK, transferVars, deviceVars

\* Gone keeps the types.
LEMMA GoneType == ASSUME UsbTypeOK, NEW c \in Controllers, Gone(c) PROVE UsbTypeOK'
<1>1. ctrl' \in [Controllers -> ControllerType]
  <2>1. ctrl \in [Controllers -> ControllerType]
    BY DEF UsbTypeOK
  <2>2. ctrl' = [ctrl EXCEPT ![c].state = "SCAN"]
    BY DEF Gone, Goto
  <2> QED
    BY <2>1, <2>2, ControllerAssigned, StateFacts
<1>2. turn' \in Addresses
  BY DEF Gone, Poll, Serve, Addresses
<1> QED
  BY <1>1, <1>2 DEF Gone, UsbTypeOK, transferVars, deviceVars

\* PowerWait keeps the types.
LEMMA PowerWaitType ==
    ASSUME UsbTypeOK, NEW c \in Controllers, PowerWait(c)
    PROVE  UsbTypeOK'
<1>1. dev' \in [Devices -> DeviceType]
  <2>1. dev \in [Devices -> DeviceType] /\ plugged[c] \in Devices \union {None}
    BY DEF UsbTypeOK
  <2>2. plugged[c] \in Devices /\ dev' = [dev EXCEPT ![plugged[c]] = Fresh]
    BY <2>1 DEF PowerWait, Connected, In
  <2>3. Fresh \in DeviceType
    BY DEF Fresh, DeviceType, Addresses
  <2> QED
    BY <2>1, <2>2, <2>3, EntryAssigned
<1>2. ctrl' \in [Controllers -> ControllerType]
  <2>1. ctrl \in [Controllers -> ControllerType]
    BY DEF UsbTypeOK
  <2>2. ctrl' = [ctrl EXCEPT ![c].state = "RESET_WAIT"]
    BY DEF PowerWait, Goto
  <2> QED
    BY <2>1, <2>2, ControllerAssigned, StateFacts
<1>3. turn' \in Addresses
  BY DEF PowerWait, Poll, Serve, Addresses
<1> QED
  BY <1>1, <1>2, <1>3 DEF PowerWait, UsbTypeOK, transferVars

\* ResetWait keeps the types.
LEMMA ResetWaitType ==
    ASSUME UsbTypeOK, NEW c \in Controllers, ResetWait(c)
    PROVE  UsbTypeOK'
<1>1. control' \in [Controllers -> TransferType] /\ due' \subseteq Controllers
  <2>1. Submit(c, "GET_DEVICE", 0) /\ "GET_DEVICE" \in Requests /\ 0 \in Addresses
    BY DEF ResetWait, Requests, Descriptors, Addresses
  <2> QED
    BY <2>1, SubmitType
<1>2. ctrl' \in [Controllers -> ControllerType]
  <2>1. ctrl \in [Controllers -> ControllerType]
    BY DEF UsbTypeOK
  <2>2. ctrl' = [ctrl EXCEPT ![c].state = "GET_DEVICE"]
    BY DEF ResetWait, Goto
  <2> QED
    BY <2>1, <2>2, ControllerAssigned, StateFacts
<1>3. turn' \in Addresses
  BY DEF ResetWait, Poll, Serve, Addresses
<1> QED
  BY <1>1, <1>2, <1>3 DEF ResetWait, UsbTypeOK, deviceVars

\* Ask keeps the types.
LEMMA AskType == ASSUME UsbTypeOK, NEW c \in Controllers, Ask(c) PROVE UsbTypeOK'
<1>1. control' \in [Controllers -> TransferType] /\ due' \subseteq Controllers
  <2>1. PICK s \in DOMAIN Following :
               Submit(c, Following[s], IF s = "GET_DEVICE" THEN 0 ELSE ctrl[c].address)
    BY DEF Ask
  <2>2. (IF s = "GET_DEVICE" THEN 0 ELSE ctrl[c].address) \in Addresses
    BY DEF UsbTypeOK, ControllerType, Addresses
  <2> QED
    BY <2>1, <2>2, FollowingFacts, SubmitType
<1>2. ctrl' \in [Controllers -> ControllerType]
  BY AskEffect
<1>3. turn' \in Addresses
  BY DEF Ask, Poll, Serve, Addresses
<1> QED
  BY <1>1, <1>2, <1>3 DEF Ask, UsbTypeOK, deviceVars

\* SetAddress keeps the types.
LEMMA SetAddressType ==
    ASSUME UsbTypeOK, NEW c \in Controllers, SetAddress(c)
    PROVE  UsbTypeOK'
<1>1. ctrl' \in [Controllers -> ControllerType]
  <2>1. ctrl \in [Controllers -> ControllerType]
    BY DEF UsbTypeOK
  <2>2. ctrl' = [ctrl EXCEPT ![c].state = "ADDRESS_WAIT"]
    BY DEF SetAddress, Goto
  <2> QED
    BY <2>1, <2>2, ControllerAssigned, StateFacts
<1>2. turn' \in Addresses
  BY DEF SetAddress, Poll, Serve, Addresses
<1> QED
  BY <1>1, <1>2 DEF SetAddress, UsbTypeOK, transferVars, deviceVars

\* AddressWait keeps the types.
LEMMA AddressWaitType ==
    ASSUME UsbTypeOK, NEW c \in Controllers, AddressWait(c)
    PROVE  UsbTypeOK'
<1>1. control' \in [Controllers -> TransferType] /\ due' \subseteq Controllers
  <2>1. /\ Submit(c, "GET_DEVICE_FULL", ctrl[c].address)
        /\ "GET_DEVICE_FULL" \in Requests /\ ctrl[c].address \in Addresses
    BY DEF AddressWait, Requests, Descriptors, UsbTypeOK, ControllerType
  <2> QED
    BY <2>1, SubmitType
<1>2. ctrl' \in [Controllers -> ControllerType]
  <2>1. ctrl \in [Controllers -> ControllerType]
    BY DEF UsbTypeOK
  <2>2. ctrl' = [ctrl EXCEPT ![c].state = "GET_DEVICE_FULL"]
    BY DEF AddressWait, Goto
  <2> QED
    BY <2>1, <2>2, ControllerAssigned, StateFacts
<1>3. turn' \in Addresses
  BY DEF AddressWait, Poll, Serve, Addresses
<1> QED
  BY <1>1, <1>2, <1>3 DEF AddressWait, UsbTypeOK, deviceVars

\* EnumerationFail keeps the types.
LEMMA EnumerationFailType ==
    ASSUME UsbTypeOK, NEW c \in Controllers, EnumerationFail(c)
    PROVE  UsbTypeOK'
<1>1. control' \in [Controllers -> TransferType]
  <2>1. /\ control \in [Controllers -> TransferType]
        /\ control' = [control EXCEPT ![c].status = IF @ = "pending" THEN "skipped" ELSE @]
    BY DEF EnumerationFail, Skip, UsbTypeOK
  <2>2. CASE control[c].status = "pending"
    BY <2>1, <2>2, StatusAssigned
  <2>3. CASE control[c].status # "pending"
    <3>1. control[c] \in TransferType
      BY <2>1
    <3>2. [control[c] EXCEPT !.status = control[c].status] \in TransferType
      BY <3>1 DEF TransferType
    <3> QED
      BY <2>1, <2>3, <3>2, EntryAssigned
  <2> QED
    BY <2>2, <2>3
<1>2. ctrl' \in [Controllers -> ControllerType]
  <2> DEFINE scanning == [ctrl EXCEPT ![c].state = "SCAN"]
  <2>1. scanning \in [Controllers -> ControllerType]
    <3>1. ctrl \in [Controllers -> ControllerType]
      BY DEF UsbTypeOK
    <3> QED
      BY <3>1, ControllerAssigned, StateFacts
  <2>2. ctrl' = [scanning EXCEPT ![c].address = 0]
    BY DEF EnumerationFail
  <2> HIDE DEF scanning
  <2> QED
    BY <2>1, <2>2, ControllerAssigned, StateFacts
<1>3. turn' \in Addresses
  BY DEF EnumerationFail, Poll, Serve, Addresses
<1> QED
  BY <1>1, <1>2, <1>3 DEF EnumerationFail, UsbTypeOK, deviceVars

\* PeriodicStart keeps the types.
LEMMA PeriodicStartType ==
    ASSUME UsbTypeOK, NEW c \in Controllers, PeriodicStart(c)
    PROVE  UsbTypeOK'
<1>1. ctrl' \in [Controllers -> ControllerType]
  <2>1. ctrl \in [Controllers -> ControllerType]
    BY DEF UsbTypeOK
  <2>2. ctrl' = [ctrl EXCEPT ![c].configured = TRUE]
    BY DEF PeriodicStart
  <2> QED
    BY <2>1, <2>2, ControllerAssigned
<1>2. interrupt' \in [Controllers -> InterruptType]
  <2>1. interrupt' = [interrupt EXCEPT ![c].status = "armed"]
    BY DEF PeriodicStart
  <2> QED
    BY <2>1, StatusAssigned
<1>3. turn' \in Addresses
  BY DEF PeriodicStart, Poll, Serve, Addresses
<1> QED
  BY <1>1, <1>2, <1>3 DEF PeriodicStart, UsbTypeOK, deviceVars

\* PeriodicStop keeps the types.
LEMMA PeriodicStopType ==
    ASSUME UsbTypeOK, NEW c \in Controllers, PeriodicStop(c)
    PROVE  UsbTypeOK'
<1>1. interrupt' \in [Controllers -> InterruptType]
  <2>1. interrupt' = [interrupt EXCEPT ![c].status = "off"]
    BY DEF PeriodicStop
  <2> QED
    BY <2>1, StatusAssigned
<1>2. ctrl' \in [Controllers -> ControllerType]
  <2> DEFINE stopped == [ctrl EXCEPT ![c].configured = FALSE]
  <2>1. stopped \in [Controllers -> ControllerType]
    <3>1. ctrl \in [Controllers -> ControllerType]
      BY DEF UsbTypeOK
    <3> QED
      BY <3>1, ControllerAssigned
  <2>2. ctrl' = [stopped EXCEPT ![c].state = "SCAN"]
    BY DEF PeriodicStop
  <2> HIDE DEF stopped
  <2> QED
    BY <2>1, <2>2, ControllerAssigned, StateFacts
<1>3. turn' \in Addresses
  BY DEF PeriodicStop, Poll, Serve, Addresses
<1> QED
  BY <1>1, <1>2, <1>3 DEF PeriodicStop, UsbTypeOK, deviceVars

\* PeriodicPoll keeps the types.
LEMMA PeriodicPollType ==
    ASSUME UsbTypeOK, NEW c \in Controllers, PeriodicPoll(c)
    PROVE  UsbTypeOK'
<1>1. interrupt' \in [Controllers -> InterruptType]
  <2>1. interrupt' = [interrupt EXCEPT ![c].status = "armed"]
    BY DEF PeriodicPoll
  <2> QED
    BY <2>1, StatusAssigned
<1>2. turn' \in Addresses
  BY DEF PeriodicPoll, Poll, Serve, Addresses
<1> QED
  BY <1>1, <1>2 DEF PeriodicPoll, UsbTypeOK, deviceVars

\* Idle keeps the types.
LEMMA IdleType == ASSUME UsbTypeOK, NEW c \in Controllers, Idle(c) PROVE UsbTypeOK'
<1>1. turn' \in Addresses
  BY DEF Idle, Poll, Serve, Addresses
<1> QED
  BY <1>1 DEF Idle, UsbTypeOK, transferVars, deviceVars

\* TransferDone keeps the types.
LEMMA TransferDoneType ==
    ASSUME UsbTypeOK, NEW c \in Controllers, TransferDone(c)
    PROVE  UsbTypeOK'
<1>1. control' \in [Controllers -> TransferType]
  <2>1. control' = [control EXCEPT ![c].status = "ok"]
    BY DEF TransferDone
  <2> QED
    BY <2>1, StatusAssigned
<1>2. dev' \in [Devices -> DeviceType]
  <2>1. Obey(plugged[c], control[c].request, c) /\ plugged[c] \in Devices
    BY DEF TransferDone, Answers, Connected, UsbTypeOK
  <2> QED
    BY <2>1, ObeyType
<1> QED
  BY <1>1, <1>2 DEF TransferDone, UsbTypeOK, driverVars

\* TransferDies keeps the types.
LEMMA TransferDiesType ==
    ASSUME UsbTypeOK, NEW c \in Controllers, TransferDies(c)
    PROVE  UsbTypeOK'
<1>1. control' \in [Controllers -> TransferType]
  <2>1. control' = [control EXCEPT ![c].status = "halted"]
    BY DEF TransferDies
  <2> QED
    BY <2>1, StatusAssigned
<1> QED
  BY <1>1 DEF TransferDies, UsbTypeOK, driverVars, deviceVars

\* TransferFault keeps the types.
LEMMA TransferFaultType ==
    ASSUME UsbTypeOK, NEW c \in Controllers, TransferFault(c)
    PROVE  UsbTypeOK'
<1>1. control' \in [Controllers -> TransferType]
  <2>1. PICK s \in {"halted", "ok", "error"} : control' = [control EXCEPT ![c].status = s]
    <3>1. \/ \E status \in {"error", "halted"} :
                control' = [control EXCEPT ![c].status = status]
          \/ control' = [control EXCEPT ![c].status = "ok"]
      BY Zenon DEF TransferFault
    <3> QED
      BY <3>1
  <2> QED
    BY <2>1, StatusAssigned
<1>2. data' \in [Controllers -> Devices \union {None, Malformed}]
  <2>1. data \in [Controllers -> Devices \union {None, Malformed}]
    BY DEF UsbTypeOK
  <2>2. data' = data \/ data' = [data EXCEPT ![c] = Malformed]
    BY DEF TransferFault
  <2> QED
    BY <2>1, <2>2, EntryAssigned
<1>3. /\ UNCHANGED <<ctrl, turn, due, rested, interrupt>>
      /\ UNCHANGED <<plugged, resetting, dev, keys, sent>>
  BY DEF TransferFault, driverVars, deviceVars
<1> QED
  BY <1>1, <1>2, <1>3 DEF UsbTypeOK

\* ResetDone keeps the types.
LEMMA ResetDoneType ==
    ASSUME UsbTypeOK, NEW c \in Controllers, ResetDone(c)
    PROVE  UsbTypeOK'
<1>1. dev' \in [Devices -> DeviceType]
  <2>1. dev \in [Devices -> DeviceType] /\ plugged[c] \in Devices \union {None}
    BY DEF UsbTypeOK
  <2>2. CASE Connected(c)
    <3>1. plugged[c] \in Devices /\ dev' = [dev EXCEPT ![plugged[c]].enabled = TRUE]
      BY <2>1, <2>2 DEF ResetDone, Connected
    <3> QED
      BY <3>1, EnabledAssigned
  <2>3. CASE ~Connected(c)
    BY <2>1, <2>3 DEF ResetDone
  <2> QED
    BY <2>2, <2>3
<1> QED
  BY <1>1 DEF ResetDone, UsbTypeOK, driverVars, transferVars

\* SendReport keeps the types.
LEMMA SendReportType ==
    ASSUME UsbTypeOK, NEW c \in Controllers, SendReport(c)
    PROVE  UsbTypeOK'
<1>1. interrupt' \in [Controllers -> InterruptType]
  <2>1. PICK k \in Keyboards :
          interrupt' = [interrupt EXCEPT ![c] = [status |-> "done", from |-> k,
                          boot |-> dev[k].boot, report |-> keys[k]]]
    BY DEF SendReport
  <2>2. dev[k] \in DeviceType /\ keys[k] \in Reports
    BY DEF UsbTypeOK, Devices
  <2> QED
    BY <2>1, <2>2 DEF UsbTypeOK, InterruptType, DeviceType
<1>2. sent' \in [Devices -> Reports]
  BY ControllerFacts DEF SendReport, UsbTypeOK, Addresses
<1> QED
  BY <1>1, <1>2 DEF SendReport, UsbTypeOK, driverVars

\* InterruptDies keeps the types.
LEMMA InterruptDiesType ==
    ASSUME UsbTypeOK, NEW c \in Controllers, InterruptDies(c)
    PROVE  UsbTypeOK'
<1>1. interrupt' \in [Controllers -> InterruptType]
  <2>1. interrupt' = [interrupt EXCEPT ![c].status = "error"]
    BY DEF InterruptDies
  <2> QED
    BY <2>1, StatusAssigned
<1> QED
  BY <1>1 DEF InterruptDies, UsbTypeOK, driverVars, deviceVars

\* InterruptFault keeps the types.
LEMMA InterruptFaultType ==
    ASSUME UsbTypeOK, NEW c \in Controllers, InterruptFault(c)
    PROVE  UsbTypeOK'
<1>1. interrupt' \in [Controllers -> InterruptType]
  <2>1. interrupt' = [interrupt EXCEPT ![c].status = "error"]
    BY DEF InterruptFault
  <2> QED
    BY <2>1, StatusAssigned
<1> QED
  BY <1>1 DEF InterruptFault, UsbTypeOK, driverVars, deviceVars

\* DelayPasses keeps the types.
LEMMA DelayPassesType ==
    ASSUME UsbTypeOK, NEW c \in Controllers, DelayPasses(c)
    PROVE  UsbTypeOK'
  BY DEF DelayPasses, UsbTypeOK, transferVars, deviceVars

\* DeadlinePasses keeps the types.
LEMMA DeadlinePassesType ==
    ASSUME UsbTypeOK, NEW c \in Controllers, DeadlinePasses(c)
    PROVE  UsbTypeOK'
  BY DEF DeadlinePasses, UsbTypeOK, transferVars, deviceVars

\* Unplug keeps the types.
LEMMA UnplugType ==
    ASSUME UsbTypeOK, NEW c \in Controllers, Unplug(c)
    PROVE  UsbTypeOK'
<1>1. dev' \in [Devices -> DeviceType]
  BY DEF Unplug, UsbTypeOK, DeviceType, Fresh, Connected, Addresses
<1>2. sent' \in [Devices -> Reports]
  BY ReportsAssumption DEF Unplug, UsbTypeOK
<1> QED
  BY <1>1, <1>2 DEF Unplug, UsbTypeOK, driverVars, transferVars

------------------------------------------------------------------------------
(* Steps                                                                   *)

\* SCAN remembers nothing of the device it found.
LEMMA ScanStep == ASSUME UsbInv, NEW c \in Controllers, Scan(c) PROVE UsbInv'
<1>1. UsbTypeOK'
  BY ScanType DEF UsbInv
<1>2. DevicesInv'
  BY DEF UsbInv, DevicesInv, Scan, deviceVars
<1>3. ResetInv(c)'
  BY DEF UsbInv, ResetInv, Scan, Goto, In, deviceVars
<1>4. TransferInv(c)'
  BY DEF UsbInv, TransferInv, Scan, Goto, In, Addressed, Requests, Descriptors,
     transferVars
<1>5. KeyboardInv(c)'
  BY DEF UsbInv, KeyboardInv, UsbTypeOK, Scan, Goto, Selected, transferVars
<1>6. ASSUME NEW b \in Controllers, b # c
      PROVE  ResetInv(b)' /\ TransferInv(b)' /\ KeyboardInv(b)'
  BY <1>6, Frame DEF UsbInv, Scan, Goto, transferVars, deviceVars
<1> QED
  BY <1>1, <1>2, <1>3, <1>4, <1>5, <1>6 DEF UsbInv

\* A device that vanishes leaves at most a transfer that is dying.
LEMMA GoneStep == ASSUME UsbInv, NEW c \in Controllers, Gone(c) PROVE UsbInv'
<1>1. UsbTypeOK'
  BY GoneType DEF UsbInv
<1>2. DevicesInv'
  BY DEF UsbInv, DevicesInv, Gone, deviceVars
<1>3. ResetInv(c)'
  BY DEF UsbInv, ResetInv, Gone, Goto, Connected, deviceVars
<1>4. TransferInv(c)'
  BY DEF UsbInv, TransferInv, UsbTypeOK, Gone, Goto, Addressed, Requests, Descriptors,
     transferVars
<1>5. KeyboardInv(c)'
  BY DEF UsbInv, KeyboardInv, UsbTypeOK, Gone, Goto, Selected, transferVars
<1>6. ASSUME NEW b \in Controllers, b # c
      PROVE  ResetInv(b)' /\ TransferInv(b)' /\ KeyboardInv(b)'
  BY <1>6, Frame DEF UsbInv, Gone, Goto, transferVars, deviceVars
<1> QED
  BY <1>1, <1>2, <1>3, <1>4, <1>5, <1>6 DEF UsbInv

\* The reset takes away the device's state, and its address.
LEMMA PowerWaitStep ==
    ASSUME UsbInv, NEW c \in Controllers, PowerWait(c)
    PROVE  UsbInv'
<1>1. UsbTypeOK'
  BY PowerWaitType DEF UsbInv
<1>2. DevicesInv'
  BY DEF UsbInv, DevicesInv, PowerWait
<1>3. ResetInv(c)'
  BY DEF UsbInv, ResetInv, UsbTypeOK, PowerWait, Goto, In, Connected
<1>4. TransferInv(c)'
  BY DEF UsbInv, TransferInv, PowerWait, Goto, In, Addressed, Requests, Descriptors,
     transferVars
<1>5. KeyboardInv(c)'
  BY DEF UsbInv, KeyboardInv, UsbTypeOK, PowerWait, Answers, Goto, Connected, Fresh,
     transferVars
<1>6. ASSUME NEW b \in Controllers, b # c
      PROVE  ResetInv(b)' /\ TransferInv(b)' /\ KeyboardInv(b)'
  BY <1>6, Frame DEF UsbInv, DevicesInv, PowerWait, Goto, transferVars
<1> QED
  BY <1>1, <1>2, <1>3, <1>4, <1>5, <1>6 DEF UsbInv

\* GET_DESCRIPTOR goes out once the reset has ended; the last transfer died before.
LEMMA ResetWaitStep ==
    ASSUME UsbInv, NEW c \in Controllers, ResetWait(c)
    PROVE  UsbInv'
<1>1. UsbTypeOK'
  BY ResetWaitType DEF UsbInv
<1>2. DevicesInv'
  BY DEF UsbInv, DevicesInv, ResetWait, deviceVars
<1>3. ResetInv(c)'
  BY DEF ResetInv, ResetWait, deviceVars
<1>4. TransferInv(c)'
  BY DEF UsbInv, TransferInv, UsbTypeOK, ResetWait, Goto, In, Submit, Addressed
<1>5. KeyboardInv(c)'
  BY DEF UsbInv, KeyboardInv, UsbTypeOK, ResetWait, Goto, Selected
<1>6. ASSUME NEW b \in Controllers, b # c
      PROVE  ResetInv(b)' /\ TransferInv(b)' /\ KeyboardInv(b)'
  BY <1>6, Frame DEF UsbInv, ResetWait, Goto, Submit, deviceVars
<1> QED
  BY <1>1, <1>2, <1>3, <1>4, <1>5, <1>6 DEF UsbInv

\* The next request follows a finished one and the same device answers it.
LEMMA AskStep == ASSUME UsbInv, NEW c \in Controllers, Ask(c) PROVE UsbInv'
<1>1. UsbTypeOK'
  BY AskType DEF UsbInv
<1>2. DevicesInv'
  BY DEF UsbInv, DevicesInv, Ask, deviceVars
<1>3. ResetInv(c)'
  <2>1. PICK s \in DOMAIN Following :
          /\ ~ctrl[c].configured /\ ctrl[c].state = s /\ Succeeded(c)
          /\ s = "GET_CONFIG" => data[c] \in Keyboards
          /\ ~ctrl'[c].configured /\ ctrl'[c].state = Following[s]
          /\ ctrl'[c].address = (IF s = "GET_DEVICE" THEN c ELSE ctrl[c].address)
          /\ ctrl'[c].keyboard = (IF s = "GET_CONFIG" THEN data[c] ELSE ctrl[c].keyboard)
          /\ control'[c].request = Following[s] /\ control'[c].status = "pending"
          /\ control'[c].address = (IF s = "GET_DEVICE" THEN 0 ELSE ctrl[c].address)
    BY AskFacts
  <2>2. UNCHANGED <<data, interrupt, plugged, resetting, dev>>
    BY DEF Ask, deviceVars
  <2>3. ResetInv(c) /\ TransferInv(c) /\ KeyboardInv(c)
    BY DEF UsbInv
  <2>4. ctrl[c].state \notin {"SCAN", "POWER_WAIT", "RESET_WAIT"}
    BY <2>1 DEF Following
  <2> QED
    BY <2>2, <2>3, <2>4 DEF ResetInv
<1>4. TransferInv(c)'
  <2>1. PICK s \in DOMAIN Following :
          /\ ~ctrl[c].configured /\ ctrl[c].state = s /\ Succeeded(c)
          /\ s = "GET_CONFIG" => data[c] \in Keyboards
          /\ ~ctrl'[c].configured /\ ctrl'[c].state = Following[s]
          /\ ctrl'[c].address = (IF s = "GET_DEVICE" THEN c ELSE ctrl[c].address)
          /\ ctrl'[c].keyboard = (IF s = "GET_CONFIG" THEN data[c] ELSE ctrl[c].keyboard)
          /\ control'[c].request = Following[s] /\ control'[c].status = "pending"
          /\ control'[c].address = (IF s = "GET_DEVICE" THEN 0 ELSE ctrl[c].address)
    BY AskFacts
  <2>2. UNCHANGED <<data, interrupt, plugged, resetting, dev>>
    BY DEF Ask, deviceVars
  <2>3. ResetInv(c) /\ TransferInv(c) /\ KeyboardInv(c)
    BY DEF UsbInv
  <2> QED
    BY <2>1, <2>2, <2>3 DEF TransferInv, Following, Addressed
<1>5. KeyboardInv(c)'
  <2>1. PICK s \in DOMAIN Following :
          /\ ~ctrl[c].configured /\ ctrl[c].state = s /\ Succeeded(c)
          /\ s = "GET_CONFIG" => data[c] \in Keyboards
          /\ ~ctrl'[c].configured /\ ctrl'[c].state = Following[s]
          /\ ctrl'[c].address = (IF s = "GET_DEVICE" THEN c ELSE ctrl[c].address)
          /\ ctrl'[c].keyboard = (IF s = "GET_CONFIG" THEN data[c] ELSE ctrl[c].keyboard)
          /\ control'[c].request = Following[s] /\ control'[c].status = "pending"
          /\ control'[c].address = (IF s = "GET_DEVICE" THEN 0 ELSE ctrl[c].address)
    BY AskFacts
  <2>2. UNCHANGED <<data, interrupt, plugged, resetting, dev>>
    BY DEF Ask, deviceVars
  <2>3. ResetInv(c) /\ TransferInv(c) /\ KeyboardInv(c)
    BY DEF UsbInv
  <2>4. data[c] = Malformed => data[c] \notin Keyboards
    BY ControllerFacts DEF Devices
  <2>5. ~Succeeded(c)'
    BY <2>1 DEF Succeeded
  <2>6. Answers(c, c)' <=> Answers(c, c)
    BY <2>2 DEF Answers, Connected
  <2>7. interrupt'[c].status # "done"
    BY <2>1, <2>2, <2>3 DEF TransferInv
  <2>8. ASSUME Answers(c, c), ctrl'[c].state \in Selected PROVE ctrl'[c].keyboard = plugged[c]
    <3>1. CASE s = "GET_CONFIG"
      BY <2>1, <2>3, <2>4, <2>8, <3>1 DEF KeyboardInv
    <3>2. CASE s # "GET_CONFIG"
      <4>1. s \in Selected
        BY <2>1, <2>8, <3>2 DEF Following, Selected
      <4> QED
        BY <2>1, <2>3, <2>8, <3>2, <4>1 DEF KeyboardInv
    <3> QED
      BY <3>1, <3>2
  <2>9. ASSUME Answers(c, c), ctrl'[c].state = "SET_IDLE" PROVE dev[plugged[c]].boot
    <3>1. s = "SET_PROTOCOL"
      BY <2>1, <2>9 DEF Following
    <3> QED
      BY <2>1, <2>3, <2>9, <3>1 DEF KeyboardInv
  <2>10. UNCHANGED <<plugged, dev>>
    BY <2>2
  <2> QED
    BY <2>5, <2>6, <2>7, <2>8, <2>9, <2>10 DEF KeyboardInv
<1>6. ASSUME NEW b \in Controllers, b # c
      PROVE  ResetInv(b)' /\ TransferInv(b)' /\ KeyboardInv(b)'
  BY <1>6, Frame DEF UsbInv, Ask, Submit, deviceVars
<1> QED
  BY <1>1, <1>2, <1>3, <1>4, <1>5, <1>6 DEF UsbInv

\* The device has its address, though it may need 2 ms to use it.
LEMMA SetAddressStep ==
    ASSUME UsbInv, NEW c \in Controllers, SetAddress(c)
    PROVE  UsbInv'
<1>1. UsbTypeOK'
  BY SetAddressType DEF UsbInv
<1>2. DevicesInv'
  BY DEF UsbInv, DevicesInv, SetAddress, deviceVars
<1>3. ResetInv(c)'
  BY DEF UsbInv, ResetInv, SetAddress, In, deviceVars
<1>4. TransferInv(c)'
  BY DEF UsbInv, TransferInv, SetAddress, Goto, In, Unfinished, Addressed, Requests,
     Descriptors, Succeeded, transferVars
<1>5. KeyboardInv(c)'
  BY DEF UsbInv, KeyboardInv, UsbTypeOK, SetAddress, Goto, Selected, transferVars
<1>6. ASSUME NEW b \in Controllers, b # c
      PROVE  ResetInv(b)' /\ TransferInv(b)' /\ KeyboardInv(b)'
  BY <1>6, Frame DEF UsbInv, SetAddress, Goto, transferVars, deviceVars
<1> QED
  BY <1>1, <1>2, <1>3, <1>4, <1>5, <1>6 DEF UsbInv

\* The first request to the new address.
LEMMA AddressWaitStep ==
    ASSUME UsbInv, NEW c \in Controllers, AddressWait(c)
    PROVE  UsbInv'
<1>1. UsbTypeOK'
  BY AddressWaitType DEF UsbInv
<1>2. DevicesInv'
  BY DEF UsbInv, DevicesInv, AddressWait, deviceVars
<1>3. ResetInv(c)'
  BY DEF UsbInv, ResetInv, AddressWait, In, deviceVars
<1>4. TransferInv(c)'
  BY DEF UsbInv, TransferInv, UsbTypeOK, AddressWait, Goto, In, Submit
<1>5. KeyboardInv(c)'
  BY DEF UsbInv, KeyboardInv, UsbTypeOK, AddressWait, Goto, Selected
<1>6. ASSUME NEW b \in Controllers, b # c
      PROVE  ResetInv(b)' /\ TransferInv(b)' /\ KeyboardInv(b)'
  BY <1>6, Frame DEF UsbInv, AddressWait, Goto, Submit, deviceVars
<1> QED
  BY <1>1, <1>2, <1>3, <1>4, <1>5, <1>6 DEF UsbInv

\* The driver gives up, with the endpoint skipped.
LEMMA EnumerationFailStep ==
    ASSUME UsbInv, NEW c \in Controllers, EnumerationFail(c)
    PROVE  UsbInv'
<1>1. UsbTypeOK'
  BY EnumerationFailType DEF UsbInv
<1>2. DevicesInv'
  BY DEF UsbInv, DevicesInv, EnumerationFail, deviceVars
<1>3. ResetInv(c)'
  BY DEF UsbInv, ResetInv, UsbTypeOK, EnumerationFail, In, deviceVars
<1>4. TransferInv(c)'
  BY DEF UsbInv, TransferInv, UsbTypeOK, EnumerationFail, In, Skip, Addressed, Requests,
     Descriptors
<1>5. KeyboardInv(c)'
  BY DEF UsbInv, KeyboardInv, UsbTypeOK, EnumerationFail, Selected
<1>6. ASSUME NEW b \in Controllers, b # c
      PROVE  ResetInv(b)' /\ TransferInv(b)' /\ KeyboardInv(b)'
  BY <1>6, Frame DEF UsbInv, UsbTypeOK, EnumerationFail, Skip, deviceVars
<1> QED
  BY <1>1, <1>2, <1>3, <1>4, <1>5, <1>6 DEF UsbInv

\* The keyboard is configured after SET_IDLE and speaks the boot protocol by then.
LEMMA PeriodicStartStep ==
    ASSUME UsbInv, NEW c \in Controllers, PeriodicStart(c)
    PROVE  UsbInv'
<1>1. UsbTypeOK'
  BY PeriodicStartType DEF UsbInv
<1>2. DevicesInv'
  BY DEF UsbInv, DevicesInv, PeriodicStart, deviceVars
<1>3. ResetInv(c)'
  BY DEF UsbInv, ResetInv, PeriodicStart, In, deviceVars
<1>4. TransferInv(c)'
  BY DEF UsbInv, TransferInv, UsbTypeOK, PeriodicStart, In, Unfinished, Succeeded
<1>5. KeyboardInv(c)'
  BY DEF UsbInv, KeyboardInv, PeriodicStart, Answers, In, deviceVars
<1>6. ASSUME NEW b \in Controllers, b # c
      PROVE  ResetInv(b)' /\ TransferInv(b)' /\ KeyboardInv(b)'
  BY <1>6, Frame DEF UsbInv, PeriodicStart, deviceVars
<1> QED
  BY <1>1, <1>2, <1>3, <1>4, <1>5, <1>6 DEF UsbInv

\* The interrupt transfer is off before anything else starts.
LEMMA PeriodicStopStep ==
    ASSUME UsbInv, NEW c \in Controllers, PeriodicStop(c)
    PROVE  UsbInv'
<1>1. UsbTypeOK'
  BY PeriodicStopType DEF UsbInv
<1>2. DevicesInv'
  BY DEF UsbInv, DevicesInv, PeriodicStop, deviceVars
<1>3. ResetInv(c)'
  BY DEF UsbInv, ResetInv, PeriodicStop, deviceVars
<1>4. TransferInv(c)'
  BY DEF UsbInv, TransferInv, UsbTypeOK, PeriodicStop, Addressed, Requests, Descriptors
<1>5. KeyboardInv(c)'
  BY DEF UsbInv, KeyboardInv, UsbTypeOK, PeriodicStop, Selected
<1>6. ASSUME NEW b \in Controllers, b # c
      PROVE  ResetInv(b)' /\ TransferInv(b)' /\ KeyboardInv(b)'
  BY <1>6, Frame DEF UsbInv, UsbTypeOK, PeriodicStop, deviceVars
<1> QED
  BY <1>1, <1>2, <1>3, <1>4, <1>5, <1>6 DEF UsbInv

\* The report is consumed and the transfer armed again.
LEMMA PeriodicPollStep ==
    ASSUME UsbInv, NEW c \in Controllers, PeriodicPoll(c)
    PROVE  UsbInv'
<1>1. UsbTypeOK'
  BY PeriodicPollType DEF UsbInv
<1>2. DevicesInv'
  BY DEF UsbInv, DevicesInv, PeriodicPoll, deviceVars
<1>3. ResetInv(c)'
  BY DEF UsbInv, ResetInv, PeriodicPoll, deviceVars
<1>4. TransferInv(c)'
  BY DEF UsbInv, TransferInv, PeriodicPoll, Unfinished
<1>5. KeyboardInv(c)'
  BY DEF UsbInv, TransferInv, KeyboardInv, PeriodicPoll, Answers, deviceVars
<1>6. ASSUME NEW b \in Controllers, b # c
      PROVE  ResetInv(b)' /\ TransferInv(b)' /\ KeyboardInv(b)'
  BY <1>6, Frame DEF UsbInv, PeriodicPoll, deviceVars
<1> QED
  BY <1>1, <1>2, <1>3, <1>4, <1>5, <1>6 DEF UsbInv

\* A poll without effect.
LEMMA IdleStep == ASSUME UsbInv, NEW c \in Controllers, Idle(c) PROVE UsbInv'
<1>1. UsbTypeOK'
  BY IdleType DEF UsbInv
<1>2. DevicesInv'
  BY DEF UsbInv, DevicesInv, Idle, deviceVars
<1>3. ResetInv(c)'
  BY DEF UsbInv, ResetInv, Idle, Connected, deviceVars
<1>4. TransferInv(c)'
  BY DEF UsbInv, TransferInv, Idle, Unfinished, transferVars, deviceVars
<1>5. KeyboardInv(c)'
  BY DEF UsbInv, KeyboardInv, Idle, Answers, Connected, Succeeded, transferVars,
     deviceVars
<1>6. ASSUME NEW b \in Controllers, b # c
      PROVE  ResetInv(b)' /\ TransferInv(b)' /\ KeyboardInv(b)'
  BY Frame DEF UsbInv, Idle, transferVars, deviceVars
<1> QED
  BY <1>1, <1>2, <1>3, <1>4, <1>5, <1>6 DEF UsbInv

\* The device that answers is the one the driver addressed.
LEMMA TransferDoneStep ==
    ASSUME UsbInv, NEW c \in Controllers, TransferDone(c)
    PROVE  UsbInv'
<1>1. UsbTypeOK'
  BY TransferDoneType DEF UsbInv
<1>2. DevicesInv'
  <2>1. plugged[c] \in Devices /\ Obey(plugged[c], control[c].request, c) /\ plugged' = plugged
    BY DEF TransferDone, Answers, Connected, UsbInv, UsbTypeOK
  <2>2. \A e \in Devices : e # plugged[c] => dev'[e] = dev[e]
    BY <2>1, ObeyEffect DEF UsbInv
  <2> QED
    BY <2>1, <2>2 DEF DevicesInv, UsbInv
<1>3. ResetInv(c)'
  BY DEF UsbInv, ResetInv, TransferDone, Answers, Fresh
<1>4. TransferInv(c)'
  BY DEF UsbInv, TransferInv, TransferDone, driverVars
<1>5. KeyboardInv(c)'
  <2>1. /\ plugged[c] \in Devices /\ Obey(plugged[c], control[c].request, c)
        /\ UNCHANGED <<plugged, ctrl, interrupt>> /\ Unfinished(c)
        /\ control'[c].status = "ok" /\ control'[c].request = control[c].request
        /\ control[c].request \in Descriptors => data'[c] = plugged[c]
    BY DEF TransferDone, Answers, Connected, UsbInv, UsbTypeOK, driverVars
  <2>2. /\ dev'[plugged[c]].enabled = dev[plugged[c]].enabled
        /\ control[c].request # "SET_ADDRESS" =>
             dev'[plugged[c]].address = dev[plugged[c]].address
        /\ dev[plugged[c]].boot \/ control[c].request = "SET_PROTOCOL" => dev'[plugged[c]].boot
    BY <2>1, ObeyEffect DEF UsbInv
  <2>3. TransferInv(c) /\ KeyboardInv(c)
    BY DEF UsbInv
  <2>4. ctrl[c].state \in Requests => control[c].request = ctrl[c].state
    BY <2>3 DEF TransferInv
  <2> QED
    BY <2>1, <2>2, <2>3, <2>4 DEF KeyboardInv, Answers, Connected, Selected, Requests,
       Descriptors
<1>6. ASSUME NEW b \in Controllers, b # c
      PROVE  ResetInv(b)' /\ TransferInv(b)' /\ KeyboardInv(b)'
  BY <1>6, Frame DEF UsbInv, DevicesInv, TransferDone, Obey, driverVars
<1> QED
  BY <1>1, <1>2, <1>3, <1>4, <1>5, <1>6 DEF UsbInv

\* A transfer that nobody answers ends without success.
LEMMA TransferDiesStep ==
    ASSUME UsbInv, NEW c \in Controllers, TransferDies(c)
    PROVE  UsbInv'
<1>1. UsbTypeOK'
  BY TransferDiesType DEF UsbInv
<1>2. DevicesInv'
  BY DEF UsbInv, DevicesInv, TransferDies, deviceVars
<1>3. ResetInv(c)'
  BY DEF UsbInv, ResetInv, TransferDies, Connected, driverVars, deviceVars
<1>4. TransferInv(c)'
  BY DEF UsbInv, TransferInv, UsbTypeOK, TransferDies, Unfinished, driverVars
<1>5. KeyboardInv(c)'
  BY DEF UsbInv, TransferInv, KeyboardInv, TransferDies, Answers, Connected, Addressed,
     Requests, Descriptors, driverVars, deviceVars
<1>6. ASSUME NEW b \in Controllers, b # c
      PROVE  ResetInv(b)' /\ TransferInv(b)' /\ KeyboardInv(b)'
  BY <1>6, Frame DEF UsbInv, TransferDies, driverVars, deviceVars
<1> QED
  BY <1>1, <1>2, <1>3, <1>4, <1>5, <1>6 DEF UsbInv

\* A fault ends a transfer, and never successfully except with bad descriptors.
LEMMA TransferFaultStep ==
    ASSUME UsbInv, NEW c \in Controllers, TransferFault(c)
    PROVE  UsbInv'
<1>1. UsbTypeOK'
  BY TransferFaultType DEF UsbInv
<1>2. DevicesInv'
  BY DEF UsbInv, DevicesInv, TransferFault, deviceVars
<1>3. ResetInv(c)'
  BY DEF UsbInv, ResetInv, TransferFault, Answers, Fresh, deviceVars
<1>4. TransferInv(c)'
  <2>1. PICK status \in {"error", "halted", "ok"} :
          /\ control' = [control EXCEPT ![c].status = status]
          /\ status = "ok" =>
               data'[c] = Malformed /\ control[c].request \in Descriptors
    BY DEF TransferFault, UsbInv, UsbTypeOK
  <2>2. /\ UNCHANGED <<ctrl, interrupt, plugged, resetting, dev>>
        /\ control[c].status = "pending"
    BY DEF TransferFault, driverVars, deviceVars
  <2>3. TransferInv(c) /\ KeyboardInv(c)
    BY DEF UsbInv
  <2>4. /\ control'[c].status = status /\ control'[c].request = control[c].request
        /\ control'[c].address = control[c].address
    BY <2>1 DEF UsbInv, UsbTypeOK
  <2> QED
    BY <2>2, <2>3, <2>4 DEF TransferInv, Unfinished
<1>5. KeyboardInv(c)'
  <2>1. PICK status \in {"error", "halted", "ok"} :
          /\ control' = [control EXCEPT ![c].status = status]
          /\ status = "ok" =>
               data'[c] = Malformed /\ control[c].request \in Descriptors
    BY DEF TransferFault, UsbInv, UsbTypeOK
  <2>2. /\ UNCHANGED <<ctrl, interrupt, plugged, resetting, dev>>
        /\ control[c].status = "pending"
    BY DEF TransferFault, driverVars, deviceVars
  <2>3. TransferInv(c) /\ KeyboardInv(c)
    BY DEF UsbInv
  <2>4. ctrl[c].state = "SET_PROTOCOL" => control[c].request = "SET_PROTOCOL"
    BY <2>3 DEF TransferInv, Requests
  <2> QED
    BY <2>1, <2>2, <2>3, <2>4 DEF KeyboardInv, Answers, Connected, Succeeded,
       Descriptors
<1>6. ASSUME NEW b \in Controllers, b # c
      PROVE  ResetInv(b)' /\ TransferInv(b)' /\ KeyboardInv(b)'
  BY <1>6, Frame DEF UsbInv, UsbTypeOK, TransferFault, driverVars, deviceVars
<1> QED
  BY <1>1, <1>2, <1>3, <1>4, <1>5, <1>6 DEF UsbInv

\* Out of reset the device answers at 0, and no transfer is under way.
LEMMA ResetDoneStep ==
    ASSUME UsbInv, NEW c \in Controllers, ResetDone(c)
    PROVE  UsbInv'
<1>1. UsbTypeOK'
  BY ResetDoneType DEF UsbInv
<1>2. DevicesInv'
  BY DEF UsbInv, DevicesInv, ResetDone
<1>3. ResetInv(c)'
  BY DEF ResetInv, ResetDone
<1>4. TransferInv(c)'
  BY DEF UsbInv, ResetInv, TransferInv, ResetDone, Settling, Answers, Fresh, Unfinished,
     driverVars, transferVars
<1>5. KeyboardInv(c)'
  BY ControllerFacts DEF UsbInv, ResetInv, TransferInv, KeyboardInv, ResetDone, Answers,
     Connected, Fresh, transferVars
<1>6. ASSUME NEW b \in Controllers, b # c
      PROVE  ResetInv(b)' /\ TransferInv(b)' /\ KeyboardInv(b)'
  BY <1>6, Frame DEF UsbInv, DevicesInv, ResetDone, driverVars, transferVars
<1> QED
  BY <1>1, <1>2, <1>3, <1>4, <1>5, <1>6 DEF UsbInv

\* Only a configured device in the boot protocol answers the interrupt transfer.
LEMMA SendReportStep ==
    ASSUME UsbInv, NEW c \in Controllers, SendReport(c)
    PROVE  UsbInv'
<1>1. UsbTypeOK'
  BY SendReportType DEF UsbInv
<1>2. DevicesInv'
  BY DEF UsbInv, DevicesInv, SendReport
<1>3. ResetInv(c)'
  BY DEF UsbInv, ResetInv, TransferInv, SendReport
<1>4. TransferInv(c)'
  BY DEF UsbInv, TransferInv, SendReport, Unfinished, driverVars
<1>5. KeyboardInv(c)'
  BY DEF UsbInv, TransferInv, KeyboardInv, SendReport, Addressed, Selected, driverVars
<1>6. ASSUME NEW b \in Controllers, b # c
      PROVE  ResetInv(b)' /\ TransferInv(b)' /\ KeyboardInv(b)'
  BY <1>6, Frame DEF UsbInv, SendReport, driverVars
<1> QED
  BY <1>1, <1>2, <1>3, <1>4, <1>5, <1>6 DEF UsbInv

\* Nobody answers the interrupt transfer.
LEMMA InterruptDiesStep ==
    ASSUME UsbInv, NEW c \in Controllers, InterruptDies(c)
    PROVE  UsbInv'
<1>1. UsbTypeOK'
  BY InterruptDiesType DEF UsbInv
<1>2. DevicesInv'
  BY DEF UsbInv, DevicesInv, InterruptDies, deviceVars
<1>3. ResetInv(c)'
  BY DEF UsbInv, ResetInv, TransferInv, InterruptDies, deviceVars
<1>4. TransferInv(c)'
  BY DEF UsbInv, TransferInv, InterruptDies, Unfinished, driverVars
<1>5. KeyboardInv(c)'
  BY DEF UsbInv, TransferInv, KeyboardInv, InterruptDies, Answers, Connected,
     driverVars, deviceVars
<1>6. ASSUME NEW b \in Controllers, b # c
      PROVE  ResetInv(b)' /\ TransferInv(b)' /\ KeyboardInv(b)'
  BY <1>6, Frame DEF UsbInv, InterruptDies, driverVars, deviceVars
<1> QED
  BY <1>1, <1>2, <1>3, <1>4, <1>5, <1>6 DEF UsbInv

\* The interrupt transfer fails.
LEMMA InterruptFaultStep ==
    ASSUME UsbInv, NEW c \in Controllers, InterruptFault(c)
    PROVE  UsbInv'
<1>1. UsbTypeOK'
  BY InterruptFaultType DEF UsbInv
<1>2. DevicesInv'
  BY DEF UsbInv, DevicesInv, InterruptFault, deviceVars
<1>3. ResetInv(c)'
  BY DEF UsbInv, ResetInv, TransferInv, InterruptFault, deviceVars
<1>4. TransferInv(c)'
  BY DEF UsbInv, TransferInv, InterruptFault, Unfinished, driverVars
<1>5. KeyboardInv(c)'
  BY DEF UsbInv, TransferInv, KeyboardInv, InterruptFault, Answers, Connected,
     driverVars, deviceVars
<1>6. ASSUME NEW b \in Controllers, b # c
      PROVE  ResetInv(b)' /\ TransferInv(b)' /\ KeyboardInv(b)'
  BY <1>6, Frame DEF UsbInv, InterruptFault, driverVars, deviceVars
<1> QED
  BY <1>1, <1>2, <1>3, <1>4, <1>5, <1>6 DEF UsbInv

\* Time passes.
LEMMA DelayPassesStep ==
    ASSUME UsbInv, NEW c \in Controllers, DelayPasses(c)
    PROVE  UsbInv'
<1>1. UsbTypeOK'
  BY DelayPassesType DEF UsbInv
<1>2. DevicesInv'
  BY DEF UsbInv, DevicesInv, DelayPasses, deviceVars
<1>3. ResetInv(c)'
  BY DEF UsbInv, ResetInv, DelayPasses, Connected, deviceVars
<1>4. TransferInv(c)'
  BY DEF UsbInv, TransferInv, DelayPasses, Unfinished, transferVars, deviceVars
<1>5. KeyboardInv(c)'
  BY DEF UsbInv, KeyboardInv, DelayPasses, Answers, Connected, Succeeded, transferVars,
     deviceVars
<1>6. ASSUME NEW b \in Controllers, b # c
      PROVE  ResetInv(b)' /\ TransferInv(b)' /\ KeyboardInv(b)'
  BY Frame DEF UsbInv, DelayPasses, transferVars, deviceVars
<1> QED
  BY <1>1, <1>2, <1>3, <1>4, <1>5, <1>6 DEF UsbInv

\* A deadline passes.
LEMMA DeadlinePassesStep ==
    ASSUME UsbInv, NEW c \in Controllers, DeadlinePasses(c)
    PROVE  UsbInv'
<1>1. UsbTypeOK'
  BY DeadlinePassesType DEF UsbInv
<1>2. DevicesInv'
  BY DEF UsbInv, DevicesInv, DeadlinePasses, deviceVars
<1>3. ResetInv(c)'
  BY DEF UsbInv, ResetInv, DeadlinePasses, Connected, deviceVars
<1>4. TransferInv(c)'
  BY DEF UsbInv, TransferInv, DeadlinePasses, Unfinished, transferVars, deviceVars
<1>5. KeyboardInv(c)'
  BY DEF UsbInv, KeyboardInv, DeadlinePasses, Answers, Connected, Succeeded,
     transferVars, deviceVars
<1>6. ASSUME NEW b \in Controllers, b # c
      PROVE  ResetInv(b)' /\ TransferInv(b)' /\ KeyboardInv(b)'
  BY Frame DEF UsbInv, DeadlinePasses, transferVars, deviceVars
<1> QED
  BY <1>1, <1>2, <1>3, <1>4, <1>5, <1>6 DEF UsbInv

\* Device, address and state are gone together.
LEMMA UnplugStep == ASSUME UsbInv, NEW c \in Controllers, Unplug(c) PROVE UsbInv'
<1>1. UsbTypeOK'
  BY UnplugType DEF UsbInv
<1>2. DevicesInv'
  BY DEF UsbInv, DevicesInv, UsbTypeOK, Unplug
<1>3. ResetInv(c)'
  BY DEF UsbInv, ResetInv, Unplug, Connected, driverVars
<1>4. TransferInv(c)'
  BY DEF UsbInv, TransferInv, Unplug, Unfinished, driverVars, transferVars
<1>5. KeyboardInv(c)'
  BY DEF UsbInv, KeyboardInv, UsbTypeOK, Unplug, Answers, Connected, driverVars,
     transferVars
<1>6. ASSUME NEW b \in Controllers, b # c
      PROVE  ResetInv(b)' /\ TransferInv(b)' /\ KeyboardInv(b)'
  BY <1>6, Frame DEF UsbInv, DevicesInv, Unplug, driverVars, transferVars
<1> QED
  BY <1>1, <1>2, <1>3, <1>4, <1>5, <1>6 DEF UsbInv

\* Plug keeps the types.
LEMMA PlugType ==
    ASSUME UsbTypeOK, NEW c \in Controllers, NEW d \in Devices, Plug(c, d)
    PROVE  UsbTypeOK'
  BY DEF Plug, UsbTypeOK, driverVars, transferVars

\* What is plugged in has no state, so it answers to nobody.
LEMMA PlugStep ==
    ASSUME UsbInv, NEW c \in Controllers, NEW d \in Devices, Plug(c, d)
    PROVE  UsbInv'
<1>1. UsbTypeOK'
  BY PlugType DEF UsbInv
<1>2. plugged'[c] = d /\ (\A b \in Controllers : b # c => plugged'[b] = plugged[b])
  BY DEF Plug, UsbInv, UsbTypeOK
<1>3. plugged[c] = None /\ (\A b \in Controllers : plugged[b] # d)
  BY DEF Plug, Connected
<1>4. UNCHANGED <<ctrl, control, data, interrupt, resetting, dev>>
  BY DEF Plug, driverVars, transferVars
<1>5. dev[d] = Fresh
  BY <1>3 DEF UsbInv, DevicesInv
<1>6. DevicesInv'
  <2>1. ASSUME NEW a \in Controllers, NEW b \in Controllers,
               plugged'[a] = plugged'[b], plugged'[a] # None
        PROVE  a = b
    BY <1>2, <1>3, <2>1 DEF UsbInv, DevicesInv
  <2>2. ASSUME NEW e \in Devices, dev[e] # Fresh
        PROVE  \E a \in Controllers : plugged'[a] = e
    <3>1. PICK a \in Controllers : plugged[a] = e
      BY <2>2 DEF UsbInv, DevicesInv
    <3>2. a # c
      BY <1>3, <3>1, ControllerFacts
    <3> QED
      BY <1>2, <3>1, <3>2
  <2> QED
    BY <1>4, <2>1, <2>2 DEF DevicesInv
<1>7. ASSUME NEW b \in Controllers, b # c
      PROVE  ResetInv(b)' /\ TransferInv(b)' /\ KeyboardInv(b)'
  BY <1>2, <1>4, <1>7, Frame DEF UsbInv
<1>8. ResetInv(c)'
  BY <1>2, <1>4, <1>5 DEF UsbInv, ResetInv
<1>9. TransferInv(c)'
  BY <1>4 DEF UsbInv, TransferInv, Unfinished
<1>10. KeyboardInv(c)'
  BY <1>2, <1>4, <1>5 DEF UsbInv, KeyboardInv, Answers, Fresh
<1> QED
  BY <1>1, <1>6, <1>7, <1>8, <1>9, <1>10 DEF UsbInv

\* Users change nothing in the driver.
LEMMA StrokeStep ==
    ASSUME UsbInv, NEW k \in Keyboards, NEW report \in Reports, Stroke(k, report)
    PROVE  UsbInv'
<1>1. keys' \in [Keyboards -> Reports]
  BY DEF Stroke, UsbInv, UsbTypeOK
<1>2. UNCHANGED <<driverVars, transferVars, plugged, resetting, dev, sent>>
  BY DEF Stroke
<1>3. UsbTypeOK'
  BY <1>1, <1>2 DEF UsbInv, UsbTypeOK, driverVars, transferVars
<1>4. DevicesInv'
  BY <1>2 DEF UsbInv, DevicesInv
<1>5. ASSUME NEW b \in Controllers PROVE ResetInv(b)' /\ TransferInv(b)' /\ KeyboardInv(b)'
  BY <1>2, Frame DEF UsbInv, driverVars, transferVars
<1> QED
  BY <1>3, <1>4, <1>5 DEF UsbInv

\* Steps of the payload alone, and steps of nobody.
LEMMA OtherStep ==
    ASSUME UsbInv, turn' \in Addresses,
           UNCHANGED <<ctrl, due, rested, transferVars, deviceVars>>
    PROVE  UsbInv'
<1>1. UsbTypeOK'
  BY DEF UsbInv, UsbTypeOK, transferVars, deviceVars
<1>2. DevicesInv'
  BY DEF UsbInv, DevicesInv, deviceVars
<1>3. ASSUME NEW b \in Controllers PROVE ResetInv(b)' /\ TransferInv(b)' /\ KeyboardInv(b)'
  BY Frame DEF UsbInv, transferVars, deviceVars
<1> QED
  BY <1>1, <1>2, <1>3 DEF UsbInv

\* The call returns to the payload, which makes the next one.
LEMMA ReturnStep == ASSUME UsbInv, Return PROVE UsbInv'
  BY OtherStep DEF Return, Serve, Addresses

\* It holds at first, with nothing plugged in.
LEMMA UsbInitial == UsbInit => UsbInv
<1> SUFFICES ASSUME UsbInit PROVE UsbInv
  OBVIOUS
<1>1. UsbTypeOK
  <2>1. ctrl \in [Controllers -> ControllerType]
    BY DEF UsbInit, ControllerType, States, Addresses
  <2>2. control \in [Controllers -> TransferType]
    BY DEF UsbInit, TransferType, Requests, Addresses
  <2>3. interrupt \in [Controllers -> InterruptType]
    BY ReportsAssumption DEF UsbInit, InterruptType
  <2>4. dev \in [Devices -> DeviceType]
    BY DEF UsbInit, DeviceType, Fresh, Addresses
  <2>5. keys \in [Keyboards -> Reports] /\ sent \in [Devices -> Reports]
    BY ReportsAssumption DEF UsbInit
  <2> QED
    BY <2>1, <2>2, <2>3, <2>4, <2>5 DEF UsbInit, UsbTypeOK, Serve, Addresses
<1>2. DevicesInv
  BY DEF UsbInit, DevicesInv
<1>3. ASSUME NEW c \in Controllers PROVE ResetInv(c) /\ TransferInv(c) /\ KeyboardInv(c)
  BY DEF UsbInit, ResetInv, TransferInv, KeyboardInv, Addressed, Requests, Descriptors
<1> QED
  BY <1>1, <1>2, <1>3 DEF UsbInv

\* The driver keeps the invariant.
LEMMA DriverStep == ASSUME UsbInv, Driver PROVE UsbInv'
<1>1. CASE Return
  BY <1>1, ReturnStep
<1>2. ASSUME NEW c \in Controllers,
             \/ Scan(c) \/ Gone(c) \/ PowerWait(c) \/ ResetWait(c) \/ Ask(c)
             \/ SetAddress(c) \/ AddressWait(c) \/ EnumerationFail(c)
             \/ PeriodicStart(c) \/ PeriodicStop(c) \/ PeriodicPoll(c) \/ Idle(c)
      PROVE  UsbInv'
  BY <1>2, ScanStep, GoneStep, PowerWaitStep, ResetWaitStep, AskStep, SetAddressStep,
     AddressWaitStep, EnumerationFailStep, PeriodicStartStep, PeriodicStopStep,
     PeriodicPollStep, IdleStep
<1> QED
  BY <1>1, <1>2 DEF Driver

\* So does the hardware.
LEMMA HardwareStep ==
    ASSUME UsbInv, NEW c \in Controllers, Hardware(c) PROVE UsbInv'
  BY TransferDoneStep, TransferDiesStep, ResetDoneStep, SendReportStep,
     InterruptDiesStep, DelayPassesStep DEF Hardware

\* So do users and faults.
LEMMA OutsideStep == ASSUME UsbInv, Outside PROVE UsbInv'
<1>1. ASSUME NEW c \in Controllers,
             \/ TransferFault(c) \/ InterruptFault(c) \/ DeadlinePasses(c) \/ Unplug(c)
      PROVE  UsbInv'
  BY <1>1, TransferFaultStep, InterruptFaultStep, DeadlinePassesStep, UnplugStep
<1>2. ASSUME NEW c \in Controllers, NEW d \in Devices, Plug(c, d) PROVE UsbInv'
  BY <1>2, PlugStep
<1>3. ASSUME NEW k \in Keyboards, NEW report \in Reports, Stroke(k, report) PROVE UsbInv'
  BY <1>3, StrokeStep
<1> QED
  BY <1>1, <1>2, <1>3 DEF Outside

\* Every step keeps the invariant.
LEMMA UsbStep == ASSUME UsbInv, [UsbNext]_usbVars PROVE UsbInv'
<1>1. CASE UNCHANGED usbVars
  <2>1. turn \in Addresses
    BY DEF UsbInv, UsbTypeOK
  <2> QED
    BY <1>1, <2>1, OtherStep DEF usbVars, driverVars
<1>2. CASE UsbNext
  BY <1>2, DriverStep, HardwareStep, OutsideStep DEF UsbNext
<1> QED
  BY <1>1, <1>2

------------------------------------------------------------------------------
(* Theorems                                                                *)

\* The driver, its transfers and the devices stay in step with each other.
THEOREM UsbInvariant == UsbSpec => []UsbInv
  BY UsbInitial, UsbStep, PTL DEF UsbSpec

\* Driver and hardware keep their types: addresses stay those of controllers
\* and only keyboards are recorded as keyboards.
THEOREM UsbTypeSafe == UsbSpec => []UsbTypeOK
<1>1. UsbInv => UsbTypeOK
  BY DEF UsbInv
<1> QED
  BY <1>1, UsbInvariant, PTL

\* Whatever fails, hangs or is unplugged, and whenever: the one set of transfer
\* descriptors of a controller is never rewritten while the hardware uses it.
THEOREM TransfersOwned == UsbSpec => []TransferOwnership
<1>1. UsbInv => TransferOwnership
  BY DEF UsbInv, TransferInv, TransferOwnership
<1> QED
  BY <1>1, UsbInvariant, PTL

\* However devices are exchanged, reports come from the keyboard whose
\* descriptors the driver read, after it chose the boot protocol.
THEOREM ReportsFromOwnKeyboard == UsbSpec => []DrivesOwnKeyboard
<1>1. UsbInv => DrivesOwnKeyboard
  BY DEF UsbInv, KeyboardInv, DrivesOwnKeyboard
<1> QED
  BY <1>1, UsbInvariant, PTL


------------------------------------------------------------------------------
(* The decoder and its ring (BootKeyboard): the ring                        *)

N == INPUT_QUEUE_SIZE

LEMMA ModuloSize ==
  ASSUME NEW a \in 0 .. 2 * N - 1
  PROVE  a % N = IF a < N THEN a ELSE a - N
  BY QueueAssumption DEF N

\* What an entry of the ring holds: a character, or the 0 it began with.
Entries == Chars \union {""}

\* How many characters wait between two positions, and the slot of the n-th.
Between(read, write) == IF write >= read THEN write - read ELSE N + write - read
Place(read, n) == IF read + n - 1 < N THEN read + n - 1 ELSE read + n - 1 - N
Successor(pos) == IF pos + 1 = N THEN 0 ELSE pos + 1

LEMMA SizeFacts == N \in Nat /\ N > 1 /\ Slots = 0 .. N - 1
  BY QueueAssumption DEF N, Slots

LEMMA AfterIs ==
  ASSUME NEW pos \in Slots
  PROVE  After(pos) = Successor(pos) /\ After(pos) \in Slots
<1>1. After(pos) = (pos + 1) % N /\ pos \in 0 .. N - 1 /\ N \in Nat /\ N > 1
  BY SizeFacts DEF After, N
<1>2. (pos + 1) % N = Successor(pos)
  BY <1>1, ModuloSize DEF Successor
<1>3. Successor(pos) \in 0 .. N - 1
  BY <1>1 DEF Successor
<1> QED
  BY <1>1, <1>2, <1>3, SizeFacts

LEMMA PositionFacts ==
  ASSUME NEW read \in Slots, NEW write \in Slots
  PROVE  /\ Between(read, write) \in 0 .. N - 1
         /\ read = write <=> Between(read, write) = 0
         /\ Successor(write) = read <=> Between(read, write) = N - 1
         /\ Successor(write) # read => /\ Between(read, Successor(write)) = Between(read, write) + 1
                                   /\ Place(read, Between(read, write) + 1) = write
         /\ read # write => Between(Successor(read), write) = Between(read, write) - 1
         /\ (N + write - read) % N = Between(read, write)
<1> N \in Nat /\ N > 1 /\ read \in 0 .. N - 1 /\ write \in 0 .. N - 1
  BY SizeFacts
<1>1. (N + write - read) % N = Between(read, write)
  BY ModuloSize DEF Between
<1> QED
  BY <1>1 DEF Between, Place, Successor

\* The slot after the first is the first of the ring moved on by one.
LEMMA NextPlace ==
  ASSUME NEW read \in Slots, NEW n \in 1 .. N - 1
  PROVE  Place(Successor(read), n) = Place(read, n + 1)
<1> N \in Nat /\ N > 1 /\ read \in 0 .. N - 1
  BY SizeFacts
<1> QED
  BY DEF Place, Successor

LEMMA PlaceFacts ==
  ASSUME NEW read \in Slots, NEW write \in Slots, NEW n \in 1 .. Between(read, write)
  PROVE  /\ Place(read, n) \in Slots /\ Place(read, n) # write
         /\ (read + n - 1) % N = Place(read, n)
         /\ Place(read, 1) = read
         /\ n > 1 => Place(Successor(read), n - 1) = Place(read, n)
<1> N \in Nat /\ N > 1 /\ read \in 0 .. N - 1 /\ write \in 0 .. N - 1
  BY SizeFacts
<1> Between(read, write) \in 0 .. N - 1
  BY PositionFacts, Zenon
<1> n \in 1 .. N - 1
  OBVIOUS
<1>1. (read + n - 1) % N = Place(read, n)
  <2> DEFINE a == read + n - 1
  <2>1. a \in 0 .. 2 * N - 1
    OBVIOUS
  <2>2. Place(read, n) = IF a < N THEN a ELSE a - N
    BY DEF Place
  <2> HIDE DEF a
  <2>3. a % N = IF a < N THEN a ELSE a - N
    BY <2>1, ModuloSize
  <2> QED
    BY <2>2, <2>3 DEF a
<1>2. Place(read, n) \in 0 .. N - 1 /\ Place(read, n) # write
  BY DEF Place, Between
<1>3. Place(read, 1) = read /\ (n > 1 => Place(Successor(read), n - 1) = Place(read, n))
  BY DEF Place, Successor
<1> QED
  BY <1>1, <1>2, <1>3, SizeFacts

\* The length of a ring's queue.
Count(r) == Between(r.read_pos, r.write_pos)

IsRing(r) ==
    /\ r \in [queue : [Slots -> Entries], read_pos : Slots, write_pos : Slots]
    /\ \A n \in 1 .. Count(r) : r.queue[Place(r.read_pos, n)] \in Chars

LEMMA RingWaits ==
  ASSUME NEW r, IsRing(r)
  PROVE  /\ Count(r) \in 0 .. N - 1
         /\ Waiting(r) \in Seq(Chars) /\ Len(Waiting(r)) = Count(r)
         /\ \A n \in 1 .. Count(r) : Waiting(r)[n] = r.queue[Place(r.read_pos, n)]
         /\ Waiting(r) = [n \in 1 .. Count(r) |-> r.queue[Place(r.read_pos, n)]]
<1>1. r.read_pos \in Slots /\ r.write_pos \in Slots
  BY DEF IsRing
<1>2. Count(r) \in 0 .. N - 1 /\ N \in Nat
  BY <1>1, PositionFacts, SizeFacts DEF Count
<1>3. (N + r.write_pos - r.read_pos) % N = Count(r)
  BY <1>1, PositionFacts DEF Count
<1>4. \A n \in 1 .. Count(r) : (r.read_pos + n - 1) % N = Place(r.read_pos, n)
  BY <1>1, PlaceFacts DEF Count
<1>5. Waiting(r) = [n \in 1 .. Count(r) |-> r.queue[Place(r.read_pos, n)]]
  BY <1>3, <1>4, Zenon DEF Waiting, N
<1>6. \A n \in 1 .. Count(r) : r.queue[Place(r.read_pos, n)] \in Chars
  BY DEF IsRing
<1> QED
  BY <1>2, <1>5, <1>6

LEMMA AppendIs ==
  ASSUME NEW S, NEW s \in Seq(S), NEW t \in Seq(S), NEW c \in S, Len(t) = Len(s) + 1,
         \A n \in 1 .. Len(s) : t[n] = s[n], t[Len(s) + 1] = c
  PROVE  t = Append(s, c)
  OBVIOUS

LEMMA TailIs ==
  ASSUME NEW S, NEW s \in Seq(S), NEW t \in Seq(S), Len(s) > 0, Len(t) = Len(s) - 1,
         \A n \in 1 .. Len(t) : t[n] = s[n + 1]
  PROVE  t = Tail(s)
  OBVIOUS

LEMMA EnqueueAppends ==
  ASSUME NEW r, IsRing(r), NEW c \in Entries
  PROVE  /\ IsRing(Enqueue(r, c))
         /\ Waiting(Enqueue(r, c)) =
              IF c = "" \/ Len(Waiting(r)) = N - 1 THEN Waiting(r) ELSE Append(Waiting(r), c)
<1>1. r.read_pos \in Slots /\ r.write_pos \in Slots
  BY DEF IsRing
<1>2. Count(r) \in 0 .. N - 1 /\ Len(Waiting(r)) = Count(r) /\ N \in Nat
  BY RingWaits, SizeFacts
<1>3. After(r.write_pos) \in Slots /\ After(r.write_pos) = Successor(r.write_pos)
      /\ (After(r.write_pos) = r.read_pos <=> Count(r) = N - 1)
  <2>1. After(r.write_pos) \in Slots /\ After(r.write_pos) = Successor(r.write_pos)
    BY <1>1, AfterIs, Zenon
  <2>2. Successor(r.write_pos) = r.read_pos <=> Count(r) = N - 1
    BY <1>1, PositionFacts, Zenon DEF Count
  <2> QED
    BY <2>1, <2>2
<1>4. CASE c = "" \/ Count(r) = N - 1
  BY <1>2, <1>3, <1>4 DEF Enqueue
<1>5. CASE c # "" /\ Count(r) # N - 1
  <2> DEFINE q == [r EXCEPT !.queue[r.write_pos] = c, !.write_pos = After(@)]
  <2>1. Enqueue(r, c) = q
    BY <1>3, <1>5 DEF Enqueue
  <2>2. /\ q \in [queue : [Slots -> Entries], read_pos : Slots, write_pos : Slots]
        /\ q.read_pos = r.read_pos /\ q.write_pos = After(r.write_pos)
        /\ \A s \in Slots : q.queue[s] = IF s = r.write_pos THEN c ELSE r.queue[s]
    BY <1>1, <1>3 DEF IsRing
  <2> HIDE DEF q
  <2>3. Count(q) = Count(r) + 1 /\ Place(r.read_pos, Count(r) + 1) = r.write_pos
    <3>1. Successor(r.write_pos) # r.read_pos
      BY <1>3, <1>5
    <3>2. Between(r.read_pos, Successor(r.write_pos)) = Count(r) + 1
          /\ Place(r.read_pos, Count(r) + 1) = r.write_pos
      BY <1>1, <3>1, PositionFacts, Zenon DEF Count
    <3>3. Count(q) = Between(r.read_pos, Successor(r.write_pos))
      BY <1>3, <2>2, Zenon DEF Count
    <3> QED
      BY <3>2, <3>3
  <2>4. \A n \in 1 .. Count(r) : q.queue[Place(q.read_pos, n)] = r.queue[Place(r.read_pos, n)]
    <3>1. \A n \in 1 .. Count(r) :
             Place(r.read_pos, n) \in Slots /\ Place(r.read_pos, n) # r.write_pos
      BY <1>1, PlaceFacts, Zenon DEF Count
    <3> QED
      BY <2>2, <3>1
  <2>5. q.queue[Place(q.read_pos, Count(r) + 1)] = c
    BY <1>1, <2>2, <2>3
  <2>6. IsRing(q)
    <3>1. ASSUME NEW n \in 1 .. Count(q) PROVE q.queue[Place(q.read_pos, n)] \in Chars
      <4>1. n = Count(r) + 1 \/ n \in 1 .. Count(r)
        <5>1. Count(q) = Count(r) + 1
          BY <2>3
        <5> QED
          BY <1>2, <5>1
      <4>2. \A m \in 1 .. Count(r) : r.queue[Place(r.read_pos, m)] \in Chars
        BY DEF IsRing
      <4>3. c \in Chars
        BY <1>5 DEF Entries
      <4> QED
        BY <2>4, <2>5, <4>1, <4>2, <4>3
    <3> QED
      BY <2>2, <3>1 DEF IsRing
  <2>7. Waiting(q) = Append(Waiting(r), c)
    <3>1. /\ Waiting(q) \in Seq(Chars) /\ Len(Waiting(q)) = Count(q)
          /\ \A n \in 1 .. Count(q) : Waiting(q)[n] = q.queue[Place(q.read_pos, n)]
      BY <2>6, RingWaits, Zenon
    <3>2. /\ Waiting(r) \in Seq(Chars) /\ Len(Waiting(r)) = Count(r)
          /\ \A n \in 1 .. Count(r) : Waiting(r)[n] = r.queue[Place(r.read_pos, n)]
      BY RingWaits, Zenon
    <3>3. Count(q) = Count(r) + 1
      BY <2>3
    <3>4. /\ \A n \in 1 .. Count(r) : n \in 1 .. Count(q)
          /\ Count(r) + 1 \in 1 .. Count(q)
      BY <1>2, <3>3
    <3>5. \A n \in 1 .. Count(r) : Waiting(q)[n] = Waiting(r)[n]
      BY <2>4, <3>1, <3>2, <3>4, Zenon
    <3>6. Waiting(q)[Count(r) + 1] = c
      BY <2>5, <3>1, <3>4, Zenon
    <3>7. c \in Chars
      BY <1>5 DEF Entries
    <3> QED
      BY <3>1, <3>2, <3>3, <3>5, <3>6, <3>7, AppendIs
  <2> QED
    BY <1>2, <1>5, <2>1, <2>6, <2>7
<1> QED
  BY <1>2, <1>4, <1>5

LEMMA GetRemoves ==
  ASSUME NEW r, IsRing(r), r.read_pos # r.write_pos,
         NEW q, q = [r EXCEPT !.read_pos = After(@)]
  PROVE  /\ IsRing(q) /\ Waiting(r) # <<>>
         /\ r.queue[r.read_pos] = Head(Waiting(r)) /\ Waiting(q) = Tail(Waiting(r))
<1>1. r.read_pos \in Slots /\ r.write_pos \in Slots
  BY DEF IsRing
<1>2. After(r.read_pos) \in Slots /\ After(r.read_pos) = Successor(r.read_pos)
  BY <1>1, AfterIs
<1>3. /\ q \in [queue : [Slots -> Entries], read_pos : Slots, write_pos : Slots]
      /\ q.read_pos = Successor(r.read_pos) /\ q.write_pos = r.write_pos /\ q.queue = r.queue
  BY <1>2 DEF IsRing
<1>4. Count(r) \in 1 .. N - 1 /\ Count(q) = Count(r) - 1
  <2>1. Count(r) \in 0 .. N - 1 /\ Count(r) # 0 /\ N \in Nat
    BY <1>1, PositionFacts, SizeFacts DEF Count
  <2>2. Count(q) = Count(r) - 1
    <3>1. Between(Successor(r.read_pos), r.write_pos) = Count(r) - 1
      BY <1>1, PositionFacts, Zenon DEF Count
    <3> QED
      BY <1>3, <3>1 DEF Count
  <2> QED
    BY <2>1, <2>2
<1>5. /\ Waiting(r) \in Seq(Chars) /\ Len(Waiting(r)) = Count(r)
      /\ \A n \in 1 .. Count(r) : /\ Waiting(r)[n] = r.queue[Place(r.read_pos, n)]
                                  /\ Waiting(r)[n] \in Chars
  BY RingWaits
<1>6. ASSUME NEW n \in 1 .. Count(q) PROVE q.queue[Place(q.read_pos, n)] = Waiting(r)[n + 1]
  <2>1. n + 1 \in 1 .. Count(r) /\ n + 1 > 1 /\ (n + 1) - 1 = n
    BY <1>4
  <2>2. Place(q.read_pos, n) = Place(r.read_pos, n + 1)
    <3>1. n \in 1 .. N - 1
      BY <1>4, SizeFacts
    <3>2. r.read_pos \in Slots
      BY <1>1
    <3>3. Place(Successor(r.read_pos), n) = Place(r.read_pos, n + 1)
      BY <3>1, <3>2, NextPlace, Zenon
    <3> QED
      BY <1>3, <3>3, Zenon
  <2> QED
    BY <1>3, <1>5, <2>1, <2>2
<1>7. IsRing(q)
  <2>1. \A n \in 1 .. Count(q) : n + 1 \in 1 .. Count(r)
    BY <1>4
  <2> QED
    BY <1>3, <1>5, <1>6, <2>1 DEF IsRing
<1>8. Waiting(q) = Tail(Waiting(r))
  <2>1. Waiting(q) \in Seq(Chars) /\ Len(Waiting(q)) = Count(q)
    BY <1>7, RingWaits, Zenon
  <2>2. \A n \in 1 .. Count(q) : Waiting(q)[n] = Waiting(r)[n + 1]
    <3>1. \A n \in 1 .. Count(q) : Waiting(q)[n] = q.queue[Place(q.read_pos, n)]
      BY <1>7, RingWaits, Zenon
    <3> QED
      BY <1>6, <3>1
  <2>3. Waiting(r) \in Seq(Chars) /\ Len(Waiting(r)) > 0 /\ Len(Waiting(q)) = Len(Waiting(r)) - 1
    BY <1>4, <1>5, <2>1, SizeFacts
  <2>4. \A n \in 1 .. Len(Waiting(q)) : Waiting(q)[n] = Waiting(r)[n + 1]
    BY <2>1, <2>2
  <2> QED
    BY <2>1, <2>3, <2>4, TailIs, Zenon
<1>9. Place(r.read_pos, 1) = r.read_pos
  BY <1>1, <1>4, PlaceFacts DEF Count
<1>10. Waiting(r) # <<>> /\ r.queue[r.read_pos] = Head(Waiting(r))
  <2>1. 1 \in 1 .. Count(r)
    BY <1>4
  <2>2. r.queue[r.read_pos] = Waiting(r)[1]
    BY <1>5, <1>9, <2>1, Zenon
  <2>3. Len(Waiting(r)) > 0 /\ Waiting(r) \in Seq(Chars)
    BY <1>4, <1>5, SizeFacts
  <2> HIDE DEF Waiting
  <2> QED
    BY <2>2, <2>3
<1> QED
  BY <1>7, <1>8, <1>10, Zenon

------------------------------------------------------------------------------
(* The decoder                                                             *)

Rings == {r \in [queue : [Slots -> Entries], read_pos : Slots, write_pos : Slots] : IsRing(r)}
Hids == [caps : BOOLEAN, ring : Rings]

LEMMA RingsAre == \A r : r \in Rings <=> IsRing(r)
  BY DEF Rings, IsRing

LEMMA TablesAre ==
  /\ DOMAIN Letters = 1 .. 26 /\ DOMAIN Capitals = 1 .. 26 /\ DOMAIN Controls = 1 .. 5
  /\ DOMAIN Plain = 1 .. 21 /\ DOMAIN Shifted = 1 .. 21 /\ Len(Plain) = 21
  BY DEF Letters, Capitals, Controls, Plain, Shifted

LEMMA TranslateType ==
  ASSUME NEW usage \in Usages, NEW shift \in BOOLEAN, NEW caps \in BOOLEAN
  PROVE  Translate(usage, shift, caps) \in Entries
<1> DEFINE index == IF usage <= 39 THEN usage - 30 ELSE 10 + usage - 45
<1> DEFINE letter == usage \in 4 .. 29
           plain  == usage \in (30 .. 39) \union (45 .. 56) /\ index < Len(Plain)
           ctl    == usage \in 40 .. 44
<1> usage \in 0 .. 255
  BY DEF Usages
<1>0. ASSUME NEW table \in {Letters, Capitals, Plain, Shifted, Controls}, NEW n \in DOMAIN table
      PROVE  table[n] \in Entries
  <2>1. table[n] \in ToSet(table)
    BY Zenon DEF ToSet
  <2> QED
    BY <2>1, Zenon DEF Entries, Chars
<1>1. Translate(usage, shift, caps) =
        IF letter THEN (IF shift # caps THEN Capitals ELSE Letters)[usage - 3]
        ELSE IF plain THEN (IF shift THEN Shifted ELSE Plain)[index + 1]
        ELSE IF ctl THEN Controls[usage - 39] ELSE ""
  BY Zenon DEF Translate
<1>2. letter => usage - 3 \in DOMAIN Letters /\ usage - 3 \in DOMAIN Capitals
  BY TablesAre
<1>3. plain => index + 1 \in DOMAIN Plain /\ index + 1 \in DOMAIN Shifted
  <2>1. plain => index + 1 \in 1 .. 21
    BY TablesAre
  <2> QED
    BY <2>1, TablesAre
<1>4. ctl => usage - 39 \in DOMAIN Controls
  BY TablesAre
<1> HIDE DEF letter, plain, ctl, index
<1>5. CASE letter
  BY <1>0, <1>1, <1>2, <1>5, Zenon
<1>6. CASE ~letter /\ plain
  BY <1>0, <1>1, <1>3, <1>6, Zenon
<1>7. CASE ~letter /\ ~plain /\ ctl
  BY <1>0, <1>1, <1>4, <1>7, Zenon
<1>8. CASE ~letter /\ ~plain /\ ~ctl
  BY <1>1, <1>8, Zenon DEF Entries
<1> QED
  BY <1>5, <1>6, <1>7, <1>8, Zenon

LEMMA DecodeKeyType ==
  ASSUME NEW hid \in Hids, NEW usage \in Usages, NEW shift \in BOOLEAN
  PROVE  DecodeKey(hid, usage, shift) \in Hids
<1>1. hid.caps \in BOOLEAN /\ IsRing(hid.ring)
  BY RingsAre DEF Hids
<1>2. IsRing(Enqueue(hid.ring, Translate(usage, shift, hid.caps)))
  BY <1>1, TranslateType, EnqueueAppends
<1> QED
  BY <1>1, <1>2, RingsAre DEF DecodeKey, Hids

\* The decoder's loop, turn by turn.
LEMMA DecodeTurns ==
  ASSUME NEW r \in Reports, NEW start \in Hids
  PROVE  \E g \in [0 .. Len(r.keys) -> Hids] :
           /\ g[0] = start
           /\ \A n \in 1 .. Len(r.keys) : g[n] = DecodeKey(g[n - 1], r.keys[n], r.shift)
           /\ g[Len(r.keys)] =
                FoldLeft(LAMBDA hid, k : DecodeKey(hid, k, r.shift), start, r.keys)
<1> DEFINE k == Len(r.keys)
           step == [n \in 1 .. k |-> [hid \in Hids |-> DecodeKey(hid, r.keys[n], r.shift)]]
           Is(f) == f = [s \in SUBSET DOMAIN r.keys |->
                           IF s = {} THEN start
                           ELSE DecodeKey(f[s \ {Max(s)}], r.keys[Max(s)], r.shift)]
<1>1. /\ r.shift \in BOOLEAN /\ k \in Nat /\ DOMAIN r.keys = 1 .. k
      /\ \A n \in 1 .. k : r.keys[n] \in Usages
  BY KeysAssumption
<1>2. step \in [1 .. k -> [Hids -> Hids]]
  BY <1>1, DecodeKeyType
<1>3. FoldLeft(LAMBDA hid, m : DecodeKey(hid, m, r.shift), start, r.keys)
        = (CHOOSE h : Is(h))[DOMAIN r.keys]
  BY Zenon DEF FoldLeft, MapThenFoldSet
<1>4. \E f : IsFold(Hids, start, k, step, f)
  <2>1. k \in Nat
    BY <1>1
  <2> HIDE DEF step, k
  <2> QED
    BY <1>2, <2>1, FoldExists
<1>5. PICK f : Is(f)
  <2>0. PICK f : IsFold(Hids, start, k, step, f)
    BY <1>4
  <2>1. f \in [SUBSET (1 .. k) -> Hids] /\ \A s \in SUBSET (1 .. k) :
          f[s] = IF s = {} THEN start ELSE step[Max(s)][f[s \ {Max(s)}]]
    BY <2>0 DEF IsFold
  <2>2. ASSUME NEW s \in SUBSET (1 .. k), s # {}
        PROVE  f[s] = DecodeKey(f[s \ {Max(s)}], r.keys[Max(s)], r.shift)
    <3>1. k \in Nat /\ s \ {Max(s)} \in SUBSET (1 .. k)
      BY <1>1
    <3>2. Max(s) \in 1 .. k /\ f[s \ {Max(s)}] \in Hids
      BY <2>1, <2>2, <3>1, MaxIn
    <3> QED
      BY <2>1, <2>2, <3>2
  <2>3. f[{}] = start /\ f = [s \in SUBSET (1 .. k) |-> f[s]]
    BY <2>1
  <2>4. Is(f)
    BY <1>1, <2>2, <2>3
  <2> QED
    BY <2>4
<1> DEFINE iter == CHOOSE h : Is(h)
<1>6. Is(iter)
  <2> HIDE DEF Is
  <2> QED
    BY <1>5, Zenon
<1>7. iter[{}] = start /\ \A s \in SUBSET (1 .. k) : s # {} /\ iter[s \ {Max(s)}] \in Hids =>
        iter[s] = step[Max(s)][iter[s \ {Max(s)}]]
  <2> HIDE DEF iter
  <2>1. iter[{}] = start
    BY <1>1, <1>6
  <2>2. ASSUME NEW s \in SUBSET (1 .. k), s # {}, iter[s \ {Max(s)}] \in Hids
        PROVE  iter[s] = step[Max(s)][iter[s \ {Max(s)}]]
    <3>1. k \in Nat
      BY <1>1
    <3>2. Max(s) \in 1 .. k
      BY <2>2, <3>1, MaxIn
    <3>3. iter[s] = DecodeKey(iter[s \ {Max(s)}], r.keys[Max(s)], r.shift)
      BY <1>1, <1>6, <2>2
    <3> QED
      BY <2>2, <3>2, <3>3
  <2> QED
    BY <2>1, <2>2
<1>8. \E g : IsLoop(Hids, start, k, step, g) /\ g[k] = iter[1 .. k]
  <2>1. k \in Nat
    BY <1>1
  <2> HIDE DEF iter, step, k
  <2>2. Unfolds(Hids, start, k, step, iter)
    BY <1>7 DEF Unfolds
  <2> QED
    BY <1>2, <2>1, <2>2, FoldPrefixes
<1>9. PICK g : IsLoop(Hids, start, k, step, g) /\ g[k] = iter[1 .. k]
  BY <1>8
<1>10. ASSUME NEW n \in 1 .. k PROVE g[n] = DecodeKey(g[n - 1], r.keys[n], r.shift)
  <2>1. n - 1 \in 0 .. k
    BY <1>1
  <2>2. g[n - 1] \in Hids
    BY <1>9, <2>1 DEF IsLoop
  <2> QED
    BY <1>9, <2>2 DEF IsLoop
<1>11. g \in [0 .. k -> Hids] /\ g[0] = start
  BY <1>9 DEF IsLoop
<1> HIDE DEF iter, step
<1> QED
  BY <1>1, <1>3, <1>9, <1>10, <1>11, Zenon DEF iter

------------------------------------------------------------------------------
(* The ring implements the queue                                           *)

DecoderInv == caps_lock \in BOOLEAN /\ IsRing(ring)

LEMMA StartIsHid ==
  ASSUME DecoderInv
  PROVE  [caps |-> caps_lock, ring |-> ring] \in Hids
  BY RingsAre DEF DecoderInv, Hids

\* One turn of the loop leaves what waits in place.
LEMMA DecodeKeyExtends ==
  ASSUME NEW hid \in Hids, NEW usage \in Usages, NEW shift \in BOOLEAN
  PROVE  LET next == DecodeKey(hid, usage, shift).ring
         IN  \/ Waiting(next) = Waiting(hid.ring)
             \/ \E ch \in Chars : Waiting(next) = Append(Waiting(hid.ring), ch)
<1>1. hid.caps \in BOOLEAN /\ IsRing(hid.ring)
  BY RingsAre DEF Hids
<1> DEFINE ch == Translate(usage, shift, hid.caps)
<1>2. ch \in Entries
  BY <1>1, TranslateType
<1>3. Waiting(Enqueue(hid.ring, ch)) =
        IF ch = "" \/ Len(Waiting(hid.ring)) = N - 1
        THEN Waiting(hid.ring) ELSE Append(Waiting(hid.ring), ch)
  BY <1>1, <1>2, EnqueueAppends
<1>4. ch = "" \/ ch \in Chars
  BY <1>2 DEF Entries
<1>5. CASE usage \in previous
  BY <1>5 DEF DecodeKey
<1>6. CASE usage \notin previous /\ usage = CapsLockKey
  <2>1. DecodeKey(hid, usage, shift).ring = hid.ring
    BY <1>6 DEF DecodeKey, Hids
  <2> QED
    BY <2>1
<1>7. CASE usage \notin previous /\ usage # CapsLockKey
  <2>1. DecodeKey(hid, usage, shift).ring = Enqueue(hid.ring, ch)
    BY <1>7 DEF DecodeKey, Hids
  <2> HIDE DEF ch
  <2> QED
    BY <1>3, <1>4, <2>1
<1> QED
  BY <1>5, <1>6, <1>7

Longer(s, t) == Len(s) <= Len(t) /\ \A i \in 1 .. Len(s) : t[i] = s[i]

LEMMA LongerFacts ==
  ASSUME NEW s \in Seq(Chars), NEW t \in Seq(Chars), Longer(s, t)
  PROVE  /\ IsPrefix(s, t)
         /\ \A ch \in Chars : Longer(s, Append(t, ch))
<1>1. SubSeq(s, 1, Len(s)) = SubSeq(t, 1, Len(s))
  BY DEF Longer
<1> QED
  BY <1>1 DEF Longer, IsPrefix

LEMMA DecodeExtends ==
  ASSUME DecoderInv, NEW r \in Reports
  PROVE  /\ Decode(r).caps \in BOOLEAN /\ IsRing(Decode(r).ring)
         /\ IsPrefix(Waiting(ring), Waiting(Decode(r).ring))
<1> DEFINE start == [caps |-> caps_lock, ring |-> ring]
           k == Len(r.keys)
<1>1. start \in Hids /\ start.ring = ring
  BY StartIsHid
<1>2. \A hid \in Hids : hid.caps \in BOOLEAN /\ IsRing(hid.ring) /\ Waiting(hid.ring) \in Seq(Chars)
  BY RingsAre, RingWaits DEF Hids
<1>3. ASSUME NEW hid \in Hids, Decode(r) = hid, Longer(Waiting(ring), Waiting(hid.ring))
      PROVE  /\ Decode(r).caps \in BOOLEAN /\ IsRing(Decode(r).ring)
             /\ IsPrefix(Waiting(ring), Waiting(Decode(r).ring))
  BY <1>1, <1>2, <1>3, LongerFacts
<1>4. Longer(Waiting(ring), Waiting(ring))
  BY <1>1, <1>2 DEF Longer
<1>5. CASE r.chord
  BY <1>1, <1>3, <1>4, <1>5 DEF Decode
<1>6. CASE ~r.chord
  <2>1. PICK g \in [0 .. k -> Hids] :
          /\ g[0] = start
          /\ \A n \in 1 .. k : g[n] = DecodeKey(g[n - 1], r.keys[n], r.shift)
          /\ g[k] = FoldLeft(LAMBDA hid, m : DecodeKey(hid, m, r.shift), start, r.keys)
    BY <1>1, DecodeTurns
  <2>2. Decode(r) = g[k]
    BY <1>6, <2>1, Zenon DEF Decode
  <2>a. g[0] = start /\ \A n \in 1 .. k : g[n] = DecodeKey(g[n - 1], r.keys[n], r.shift)
    BY <2>1, Zenon
  <2>3. k \in Nat /\ r.shift \in BOOLEAN /\ \A n \in 1 .. k : r.keys[n] \in Usages
    BY KeysAssumption
  <2> DEFINE S == {n \in 0 .. k : Longer(Waiting(ring), Waiting(g[n].ring))}
  <2>4. 0 \in S
    BY <1>1, <1>4, <2>a, <2>3
  <2>5. ASSUME NEW n \in 0 .. k - 1, n \in S PROVE n + 1 \in S
    <3>1. n + 1 \in 1 .. k /\ n \in 0 .. k /\ n + 1 \in 0 .. k /\ (n + 1) - 1 = n
      BY <2>3
    <3>2. g[n] \in Hids /\ g[n + 1] = DecodeKey(g[n], r.keys[n + 1], r.shift)
      BY <2>a, <3>1
    <3>3. \/ Waiting(g[n + 1].ring) = Waiting(g[n].ring)
          \/ \E ch \in Chars : Waiting(g[n + 1].ring) = Append(Waiting(g[n].ring), ch)
      BY <2>3, <3>1, <3>2, DecodeKeyExtends
    <3>4. Waiting(ring) \in Seq(Chars) /\ Waiting(g[n].ring) \in Seq(Chars)
      BY <1>1, <1>2, <3>2
    <3>5. Longer(Waiting(ring), Waiting(g[n].ring))
      BY <2>5
    <3>6. Longer(Waiting(ring), Waiting(g[n + 1].ring))
      BY <3>3, <3>4, <3>5, LongerFacts, Zenon
    <3> QED
      BY <3>1, <3>6
  <2>6. k \in S
    <3> HIDE DEF S, k
    <3>1. \A n \in 0 .. k : n \in S
      BY <2>3, <2>4, <2>5, CountUp, Zenon
    <3> QED
      BY <2>3, <3>1
  <2>7. g[k] \in Hids
    BY <2>3
  <2> QED
    BY <1>3, <2>2, <2>6, <2>7
<1> QED
  BY <1>5, <1>6

LEMMA EmptyRingWaits == IsRing(EmptyRing) /\ Waiting(EmptyRing) = <<>>
<1>1. EmptyRing.queue = [s \in Slots |-> ""] /\ EmptyRing.read_pos = 0 /\ EmptyRing.write_pos = 0
  BY DEF EmptyRing
<1>2. 0 \in Slots /\ Between(0, 0) = 0
  BY SizeFacts DEF Between
<1>3. EmptyRing \in [queue : [Slots -> Entries], read_pos : Slots, write_pos : Slots]
  BY <1>2 DEF EmptyRing, Entries
<1>4. Count(EmptyRing) = 0
  BY <1>1, <1>2 DEF Count
<1>5. IsRing(EmptyRing)
  BY <1>3, <1>4 DEF IsRing
<1>6. Waiting(EmptyRing) \in Seq(Chars) /\ Len(Waiting(EmptyRing)) = 0
  BY <1>4, <1>5, RingWaits
<1> QED
  BY <1>5, <1>6

LEMMA DecoderKept ==
  ASSUME DecoderInv, [Next]_vars
  PROVE  DecoderInv'
<1>1. CASE \E c \in Controllers, r \in Reports : HidReport(c, r)
  BY <1>1, DecodeExtends DEF HidReport, DecoderInv, vars
<1>2. CASE \E c \in Controllers : HidReset(c)
  BY <1>2 DEF HidReset, DecoderInv
<1>3. CASE GetChar
  <2>1. CASE ring.read_pos = ring.write_pos
    BY <1>3, <2>1 DEF GetChar, DecoderInv
  <2>2. CASE ring.read_pos # ring.write_pos
    BY <1>3, <2>2, GetRemoves DEF GetChar, DecoderInv
  <2> QED
    BY <2>1, <2>2
<1>4. CASE UNCHANGED vars
  BY <1>4 DEF vars, DecoderInv
<1> QED
  BY <1>1, <1>2, <1>3, <1>4 DEF Next

LEMMA DecoderHolds == Spec => []DecoderInv
<1>1. Init => DecoderInv
  BY EmptyRingWaits DEF Init, DecoderInv
<1> QED
  BY <1>1, DecoderKept, PTL DEF Spec

\* Every step of the ring is one of the queue.
LEMMA QueueStep ==
  ASSUME DecoderInv, [Next]_vars
  PROVE  [Queue!Next]_<<Waiting(ring), answer>>
<1>1. ASSUME NEW c \in Controllers, NEW r \in Reports, HidReport(c, r), Valid(r)
      PROVE  Queue!Type
  <2>1. ring' = Decode(r).ring /\ answer' = answer
    BY <1>1 DEF HidReport
  <2>2. IsRing(ring') /\ IsPrefix(Waiting(ring), Waiting(ring'))
    BY <2>1, DecodeExtends
  <2>3. Waiting(ring') \in Seq(Chars) /\ Len(Waiting(ring')) <= INPUT_QUEUE_SIZE - 1
    <3>1. /\ Waiting(ring') \in Seq(Chars) /\ Len(Waiting(ring')) = Count(ring')
          /\ Count(ring') \in 0 .. N - 1
      BY <2>2, RingWaits
    <3> QED
      BY <3>1, SizeFacts DEF N
  <2> QED
    BY <2>1, <2>2, <2>3, Zenon DEF Queue!Type, Queue!IsPrefix, IsPrefix
<1>2. ASSUME GetChar PROVE Queue!Get
  <2>1. Waiting(ring) = <<>> <=> ring.read_pos = ring.write_pos
    <3>1. CASE ring.read_pos = ring.write_pos
      <4>1. ring.read_pos \in Slots /\ ring.write_pos \in Slots
        BY DEF DecoderInv, IsRing
      <4>2. Count(ring) = 0
        BY <3>1, <4>1, PositionFacts DEF Count
      <4>3. Waiting(ring) \in Seq(Chars) /\ Len(Waiting(ring)) = 0
        BY <4>2, RingWaits DEF DecoderInv
      <4> QED
        BY <3>1, <4>3
    <3>2. CASE ring.read_pos # ring.write_pos
      BY <3>2, GetRemoves DEF DecoderInv
    <3> QED
      BY <3>1, <3>2
  <2>2. CASE ring.read_pos = ring.write_pos
    BY <1>2, <2>1, <2>2 DEF GetChar, Queue!Get
  <2>3. CASE ring.read_pos # ring.write_pos
    BY <1>2, <2>1, <2>3, GetRemoves DEF GetChar, Queue!Get, DecoderInv
  <2> QED
    BY <2>2, <2>3
<1>3. ASSUME NEW c \in Controllers, HidReset(c) PROVE UNCHANGED <<ring, answer>>
  BY <1>3 DEF HidReset
<1>4. ASSUME NEW c \in Controllers, NEW r \in Reports, HidReport(c, r), ~Valid(r)
      PROVE  UNCHANGED <<ring, answer>>
  BY <1>4 DEF HidReport, vars
<1>5. ASSUME UNCHANGED vars PROVE UNCHANGED <<ring, answer>>
  BY <1>5 DEF vars
<1>6. UNCHANGED <<ring, answer>> => UNCHANGED <<Waiting(ring), answer>>
  BY DEF Waiting
<1> QED
  BY <1>1, <1>2, <1>3, <1>4, <1>5, <1>6 DEF Next, Queue!Next

\* For every size of the ring and every set of reports the input queue hands
\* the payload each character once, in the order typed, and never more wait
\* than fit (input.c input_enqueue, firmware.c FU_GET_CHAR).
THEOREM QueueImplemented == Spec => ImplementsCharQueue
<1>1. Init => Queue!Init
  BY EmptyRingWaits DEF Init, Queue!Init
<1> QED
  BY <1>1, QueueStep, DecoderHolds, PTL DEF Spec, ImplementsCharQueue, Queue!Spec

------------------------------------------------------------------------------
(* Every key that goes down types once                                     *)

TypeKey(typed, k, c, shift) ==
    LET char == IF k \in held[c] THEN "" ELSE Translate(k, shift, caps_lock)
    IN  IF char = "" THEN typed ELSE Append(typed, char)

LEMMA TypeKeyType ==
  ASSUME DecoderInv, NEW typed \in Seq(Chars), NEW usage \in Usages, NEW c, NEW shift \in BOOLEAN
  PROVE  TypeKey(typed, usage, c, shift) \in Seq(Chars)
<1>1. Translate(usage, shift, caps_lock) \in Entries
  BY TranslateType DEF DecoderInv
<1>2. Translate(usage, shift, caps_lock) = "" \/ Translate(usage, shift, caps_lock) \in Chars
  BY <1>1 DEF Entries
<1> DEFINE char == IF usage \in held[c] THEN "" ELSE Translate(usage, shift, caps_lock)
<1>3. char = "" \/ char \in Chars
  BY <1>2
<1>4. TypeKey(typed, usage, c, shift) = IF char = "" THEN typed ELSE Append(typed, char)
  BY DEF TypeKey
<1> HIDE DEF char
<1> QED
  <2>1. char \in Chars => Append(typed, char) \in Seq(Chars)
    OBVIOUS
  <2> QED
    BY <1>3, <1>4, <2>1, Zenon

\* What the keys of a report type, key by key.
LEMMA TypedTurns ==
  ASSUME DecoderInv, NEW c \in Controllers, NEW r \in Reports
  PROVE  \E g \in [0 .. Len(r.keys) -> Seq(Chars)] :
           /\ g[0] = <<>>
           /\ \A n \in 1 .. Len(r.keys) : g[n] = TypeKey(g[n - 1], r.keys[n], c, r.shift)
           /\ g[Len(r.keys)] =
                FoldLeft(LAMBDA typed, k : TypeKey(typed, k, c, r.shift), <<>>, r.keys)
<1> DEFINE k == Len(r.keys)
           step == [n \in 1 .. k |-> [typed \in Seq(Chars) |-> TypeKey(typed, r.keys[n], c, r.shift)]]
           Is(f) == f = [s \in SUBSET DOMAIN r.keys |->
                           IF s = {} THEN <<>>
                           ELSE TypeKey(f[s \ {Max(s)}], r.keys[Max(s)], c, r.shift)]
<1>0. <<>> \in Seq(Chars)
  OBVIOUS
<1>1. /\ r.shift \in BOOLEAN /\ k \in Nat /\ DOMAIN r.keys = 1 .. k
      /\ \A n \in 1 .. k : r.keys[n] \in Usages
  BY KeysAssumption
<1>2. step \in [1 .. k -> [Seq(Chars) -> Seq(Chars)]]
  BY <1>1, TypeKeyType
<1>3. FoldLeft(LAMBDA typed, m : TypeKey(typed, m, c, r.shift), <<>>, r.keys)
        = (CHOOSE h : Is(h))[DOMAIN r.keys]
  BY Zenon DEF FoldLeft, MapThenFoldSet
<1>4. \E f : IsFold(Seq(Chars), <<>>, k, step, f)
  <2>1. k \in Nat
    BY <1>1
  <2> HIDE DEF step, k
  <2> QED
    BY <1>0, <1>2, <2>1, FoldExists
<1>5. PICK f : Is(f)
  <2>0. PICK f : IsFold(Seq(Chars), <<>>, k, step, f)
    BY <1>4
  <2>1. f \in [SUBSET (1 .. k) -> Seq(Chars)] /\ \A s \in SUBSET (1 .. k) :
          f[s] = IF s = {} THEN <<>> ELSE step[Max(s)][f[s \ {Max(s)}]]
    BY <2>0 DEF IsFold
  <2>2. ASSUME NEW s \in SUBSET (1 .. k), s # {}
        PROVE  f[s] = TypeKey(f[s \ {Max(s)}], r.keys[Max(s)], c, r.shift)
    <3>1. k \in Nat /\ s \ {Max(s)} \in SUBSET (1 .. k)
      BY <1>1
    <3>2. Max(s) \in 1 .. k /\ f[s \ {Max(s)}] \in Seq(Chars)
      BY <2>1, <2>2, <3>1, MaxIn
    <3> QED
      BY <2>1, <2>2, <3>2
  <2>3. f[{}] = <<>> /\ f = [s \in SUBSET (1 .. k) |-> f[s]]
    BY <2>1
  <2>4. Is(f)
    BY <1>1, <2>2, <2>3
  <2> QED
    BY <2>4
<1> DEFINE iter == CHOOSE h : Is(h)
<1>6. Is(iter)
  <2> HIDE DEF Is
  <2> QED
    BY <1>5, Zenon
<1>7. iter[{}] = <<>> /\ \A s \in SUBSET (1 .. k) : s # {} /\ iter[s \ {Max(s)}] \in Seq(Chars) =>
        iter[s] = step[Max(s)][iter[s \ {Max(s)}]]
  <2> HIDE DEF iter
  <2>1. iter[{}] = <<>>
    BY <1>1, <1>6
  <2>2. ASSUME NEW s \in SUBSET (1 .. k), s # {}, iter[s \ {Max(s)}] \in Seq(Chars)
        PROVE  iter[s] = step[Max(s)][iter[s \ {Max(s)}]]
    <3>1. k \in Nat
      BY <1>1
    <3>2. Max(s) \in 1 .. k
      BY <2>2, <3>1, MaxIn
    <3>3. iter[s] = TypeKey(iter[s \ {Max(s)}], r.keys[Max(s)], c, r.shift)
      BY <1>1, <1>6, <2>2
    <3> QED
      BY <2>2, <3>2, <3>3
  <2> QED
    BY <2>1, <2>2
<1>8. \E g : IsLoop(Seq(Chars), <<>>, k, step, g) /\ g[k] = iter[1 .. k]
  <2>1. k \in Nat
    BY <1>1
  <2> DEFINE none == <<>>
             H == Seq(Chars)
  <2>2. none \in H /\ step \in [1 .. k -> [H -> H]]
    BY <1>0, <1>2
  <2>3. Unfolds(H, none, k, step, iter)
    <3> HIDE DEF iter, step, k
    <3> QED
      BY <1>7 DEF Unfolds
  <2>4. \E g : IsLoop(H, none, k, step, g) /\ g[k] = iter[1 .. k]
    <3> HIDE DEF iter, step, k, none, H
    <3> QED
      BY <2>1, <2>2, <2>3, FoldPrefixes
  <2> HIDE DEF iter, step, k
  <2> QED
    BY <2>4
<1>9. PICK g : IsLoop(Seq(Chars), <<>>, k, step, g) /\ g[k] = iter[1 .. k]
  BY <1>8
<1>10. ASSUME NEW n \in 1 .. k PROVE g[n] = TypeKey(g[n - 1], r.keys[n], c, r.shift)
  <2>1. n - 1 \in 0 .. k
    BY <1>1
  <2>2. g[n - 1] \in Seq(Chars)
    BY <1>9, <2>1 DEF IsLoop
  <2> QED
    BY <1>9, <2>2 DEF IsLoop
<1>11. g \in [0 .. k -> Seq(Chars)] /\ g[0] = <<>>
  BY <1>9 DEF IsLoop
<1> HIDE DEF iter, step
<1> QED
  BY <1>1, <1>3, <1>9, <1>10, <1>11, Zenon DEF iter

\* What is left of a sequence in the ring.
Cut(s) == SubSeq(s, 1, IF Len(s) < N THEN Len(s) ELSE N - 1)

LEMMA CutFacts ==
  ASSUME NEW s \in Seq(Chars), NEW t \in Seq(Chars), NEW ch \in Chars
  PROVE  /\ Len(s) <= N - 1 => Cut(s \o <<>>) = s
         /\ Cut(s \o Append(t, ch)) =
              IF Len(Cut(s \o t)) = N - 1 THEN Cut(s \o t) ELSE Append(Cut(s \o t), ch)
<1> N \in Nat /\ N > 1
  BY SizeFacts
<1>1. Len(s) <= N - 1 => Cut(s \o <<>>) = s
  BY DEF Cut
<1> DEFINE u == s \o t
<1>2. u \in Seq(Chars) /\ s \o Append(t, ch) = Append(u, ch)
  OBVIOUS
<1> HIDE DEF u
<1>3. Cut(Append(u, ch)) = IF Len(Cut(u)) = N - 1 THEN Cut(u) ELSE Append(Cut(u), ch)
  <2>1. CASE Len(u) < N - 1
    <3>1. Cut(u) = u /\ Cut(Append(u, ch)) = Append(u, ch)
      BY <1>2, <2>1 DEF Cut
    <3> QED
      BY <1>2, <2>1, <3>1
  <2>2. CASE Len(u) >= N - 1
    <3>1. Len(Append(u, ch)) >= N /\ N - 1 \in Nat
      BY <1>2, <2>2
    <3>2. Cut(Append(u, ch)) = SubSeq(Append(u, ch), 1, N - 1)
      BY <3>1 DEF Cut
    <3>3. Cut(u) = SubSeq(u, 1, N - 1)
      BY <1>2, <2>2 DEF Cut
    <3>4. SubSeq(Append(u, ch), 1, N - 1) = SubSeq(u, 1, N - 1) /\ Len(SubSeq(u, 1, N - 1)) = N - 1
      BY <1>2, <2>2, <3>1
    <3> QED
      BY <3>2, <3>3, <3>4
  <2>3. Len(u) < N - 1 \/ Len(u) >= N - 1
    BY <1>2
  <2> QED
    BY <2>1, <2>2, <2>3
<1> QED
  BY <1>1, <1>2, <1>3 DEF u

LEMMA DecodeTypes ==
  ASSUME DecoderInv, NEW c \in Controllers, NEW r \in Reports,
         held[c] = previous, CapsLockKey \notin ToSet(r.keys), Valid(r), ~r.chord
  PROVE  Waiting(Decode(r).ring) = Cut(Waiting(ring) \o Typed(c, r))
<1> DEFINE start == [caps |-> caps_lock, ring |-> ring]
           k == Len(r.keys)
           W == Waiting(ring)
<1>1. start \in Hids /\ start.ring = ring /\ start.caps = caps_lock
  BY StartIsHid
<1>2. W \in Seq(Chars) /\ Len(W) <= N - 1 /\ IsRing(ring) /\ caps_lock \in BOOLEAN
  <2>1. IsRing(ring) /\ caps_lock \in BOOLEAN
    BY DEF DecoderInv
  <2>2. W \in Seq(Chars) /\ Len(W) = Count(ring) /\ Count(ring) \in 0 .. N - 1
    BY <2>1, RingWaits
  <2> QED
    BY <2>1, <2>2, SizeFacts
<1>3. /\ r.shift \in BOOLEAN /\ k \in Nat
      /\ \A n \in 1 .. k : r.keys[n] \in Usages /\ r.keys[n] # CapsLockKey
  BY KeysAssumption DEF ToSet
<1>4. PICK g \in [0 .. k -> Hids] :
        /\ g[0] = start
        /\ \A n \in 1 .. k : g[n] = DecodeKey(g[n - 1], r.keys[n], r.shift)
        /\ g[k] = FoldLeft(LAMBDA hid, m : DecodeKey(hid, m, r.shift), start, r.keys)
  BY <1>1, DecodeTurns
<1>5. PICK t \in [0 .. k -> Seq(Chars)] :
        /\ t[0] = <<>>
        /\ \A n \in 1 .. k : t[n] = TypeKey(t[n - 1], r.keys[n], c, r.shift)
        /\ t[k] = FoldLeft(LAMBDA typed, m : TypeKey(typed, m, c, r.shift), <<>>, r.keys)
  BY TypedTurns
<1>6. Decode(r) = g[k]
  BY <1>4, Zenon DEF Decode
<1>7. Typed(c, r) = t[k]
  BY <1>5, Zenon DEF Typed, TypeKey
<1>8. /\ g[0] = start /\ t[0] = <<>>
      /\ \A n \in 1 .. k : g[n] = DecodeKey(g[n - 1], r.keys[n], r.shift)
      /\ \A n \in 1 .. k : t[n] = TypeKey(t[n - 1], r.keys[n], c, r.shift)
  BY <1>4, <1>5, Zenon
<1> DEFINE S == {n \in 0 .. k : g[n].caps = caps_lock /\ Waiting(g[n].ring) = Cut(W \o t[n])}
<1>9. 0 \in S
  <2>1. Cut(W \o <<>>) = W
    <3>1. "a" \in Chars
      BY TablesAre DEF Chars, ToSet, Letters
    <3> QED
      BY <1>2, <3>1, CutFacts
  <2>2. W \o t[0] = W \o <<>>
    BY <1>8, Zenon
  <2>3. g[0].caps = caps_lock /\ Waiting(g[0].ring) = W /\ 0 \in 0 .. k
    <3> HIDE DEF start
    <3> QED
      BY <1>1, <1>3, <1>8
  <2> HIDE DEF W
  <2> QED
    BY <2>1, <2>2, <2>3, Zenon
<1>10. ASSUME NEW n \in 0 .. k - 1, n \in S PROVE n + 1 \in S
  <2>1. n + 1 \in 1 .. k /\ n \in 0 .. k /\ n + 1 \in 0 .. k /\ (n + 1) - 1 = n
    BY <1>3
  <2> DEFINE key == r.keys[n + 1]
             ch == Translate(key, r.shift, caps_lock)
  <2>2. /\ g[n + 1] = DecodeKey(g[n], key, r.shift) /\ t[n + 1] = TypeKey(t[n], key, c, r.shift)
        /\ key \in Usages /\ key # CapsLockKey /\ g[n] \in Hids /\ t[n] \in Seq(Chars)
    BY <1>3, <1>8, <2>1
  <2>3. g[n].caps = caps_lock /\ Waiting(g[n].ring) = Cut(W \o t[n])
    BY <1>10
  <2>4. CASE key \in previous
    <3>1. g[n + 1] = g[n] /\ t[n + 1] = t[n]
      BY <2>2, <2>4 DEF DecodeKey, TypeKey
    <3> QED
      BY <2>1, <2>3, <3>1
  <2>5. CASE key \notin previous
    <3>1. g[n + 1] = [g[n] EXCEPT !.ring = Enqueue(g[n].ring, ch)]
      BY <2>2, <2>3, <2>5 DEF DecodeKey
    <3>2. t[n + 1] = IF ch = "" THEN t[n] ELSE Append(t[n], ch)
      BY <2>2, <2>5, Zenon DEF TypeKey
    <3>3. g[n + 1].caps = caps_lock /\ g[n + 1].ring = Enqueue(g[n].ring, ch)
      BY <2>2, <2>3, <3>1 DEF Hids
    <3>4. ch \in Entries /\ IsRing(g[n].ring)
      BY <1>2, <1>3, <2>2, TranslateType, RingsAre DEF Hids
    <3>5. Waiting(g[n + 1].ring) =
            IF ch = "" \/ Len(Waiting(g[n].ring)) = N - 1
            THEN Waiting(g[n].ring) ELSE Append(Waiting(g[n].ring), ch)
      BY <3>3, <3>4, EnqueueAppends
    <3>6. Waiting(g[n + 1].ring) = Cut(W \o t[n + 1])
      <4> HIDE DEF ch, W
      <4>1. CASE ch = ""
        BY <2>3, <3>2, <3>5, <4>1
      <4>2. CASE ch # ""
        <5>1. ch \in Chars
          BY <3>4, <4>2 DEF Entries
        <5>2. Cut(W \o Append(t[n], ch)) =
                IF Len(Cut(W \o t[n])) = N - 1 THEN Cut(W \o t[n]) ELSE Append(Cut(W \o t[n]), ch)
          BY <1>2, <2>2, <5>1, CutFacts
        <5> QED
          BY <2>3, <3>2, <3>5, <4>2, <5>2
      <4> QED
        BY <4>1, <4>2
    <3> QED
      BY <2>1, <3>3, <3>6
  <2> QED
    BY <2>4, <2>5
<1>11. k \in S
  <2> HIDE DEF S, k
  <2>1. \A n \in 0 .. k : n \in S
    BY <1>3, <1>9, <1>10, CountUp, Zenon
  <2> QED
    BY <1>3, <2>1
<1> QED
  BY <1>6, <1>7, <1>11, Zenon

OneKeyboard == \A b, c \in Controllers : b = c

\* With one keyboard the decoder knows which of its keys are held.
HeldInv == held \in [Controllers -> SUBSET Nat] /\ \A c \in Controllers : held[c] = previous

LEMMA HeldHolds ==
  ASSUME OneKeyboard
  PROVE  Spec => []HeldInv
<1>1. Init => HeldInv
  BY DEF Init, HeldInv
<1>2. ASSUME HeldInv, [Next]_vars PROVE HeldInv'
  <2>1. ASSUME NEW c \in Controllers, NEW r \in Reports, HidReport(c, r) PROVE HeldInv'
    <3>1. ToSet(r.keys) \in SUBSET Nat
      <4>1. \A n \in DOMAIN r.keys : r.keys[n] \in Usages
        BY KeysAssumption
      <4>2. \A n \in DOMAIN r.keys : r.keys[n] \in Nat
        BY <4>1 DEF Usages
      <4> QED
        BY <4>2, Zenon DEF ToSet
    <3> QED
      BY <1>2, <2>1, <3>1 DEF HidReport, HeldInv, OneKeyboard, vars
  <2>2. ASSUME NEW c \in Controllers, HidReset(c) PROVE HeldInv'
    BY <1>2, <2>2 DEF HidReset, HeldInv, OneKeyboard
  <2>3. CASE GetChar \/ UNCHANGED vars
    BY <1>2, <2>3 DEF GetChar, HeldInv, vars
  <2> QED
    BY <1>2, <2>1, <2>2, <2>3 DEF Next
<1> QED
  BY <1>1, <1>2, PTL DEF Spec

TypesOnce ==
    \A c \in Controllers, r \in Reports :
      HidReport(c, r) /\ CapsLockKey \notin ToSet(r.keys) =>
        LET all == Waiting(ring) \o Typed(c, r)
        IN  Waiting(ring') = SubSeq(all, 1, IF Len(all) < INPUT_QUEUE_SIZE
                                            THEN Len(all) ELSE INPUT_QUEUE_SIZE - 1)

LEMMA TypesOnceStep ==
  ASSUME DecoderInv, HeldInv
  PROVE  TypesOnce
<1> SUFFICES ASSUME NEW c \in Controllers, NEW r \in Reports,
                    HidReport(c, r), CapsLockKey \notin ToSet(r.keys)
             PROVE  Waiting(ring') = Cut(Waiting(ring) \o Typed(c, r))
  BY Zenon DEF TypesOnce, Cut, N
<1>1. CASE Valid(r) /\ ~r.chord
  BY <1>1, DecodeTypes DEF HidReport, HeldInv
<1>2. CASE ~Valid(r) \/ r.chord
  <2>1. Typed(c, r) = <<>>
    BY <1>2, Zenon DEF Typed
  <2>2. ring' = ring
    BY <1>2 DEF HidReport, Decode, vars
  <2>3. Waiting(ring) \in Seq(Chars) /\ Len(Waiting(ring)) <= N - 1
    <3>1. /\ Waiting(ring) \in Seq(Chars) /\ Len(Waiting(ring)) = Count(ring)
          /\ Count(ring) \in 0 .. N - 1
      BY RingWaits DEF DecoderInv
    <3> QED
      BY <3>1, SizeFacts
  <2>4. Cut(Waiting(ring) \o <<>>) = Waiting(ring)
    <3>1. "a" \in Chars
      BY TablesAre DEF Chars, ToSet, Letters
    <3> QED
      BY <2>3, <3>1, CutFacts
  <2> QED
    BY <2>1, <2>2, <2>4
<1> QED
  BY <1>1, <1>2

\* With one keyboard, and for every report, every key that goes down types its
\* character exactly once and in order (hid_keyboard.c hid_keyboard_report).
THEOREM KeysTypedOnce ==
  ASSUME OneKeyboard
  PROVE  Spec => KeysTypeOnce
<1>1. DecoderInv /\ HeldInv => TypesOnce
  BY TypesOnceStep
<1>2. KeysTypeOnce <=> [][TypesOnce]_vars
  BY DEF KeysTypeOnce, TypesOnce
<1> QED
  BY <1>1, <1>2, DecoderHolds, HeldHolds, PTL

\* A key that was down in the report before changes nothing, so a report with no other key does not.
LEMMA HeldKeysDecode ==
  ASSUME DecoderInv, NEW r \in Reports, ToSet(r.keys) \subseteq previous
  PROVE  Decode(r).ring = ring
<1> DEFINE start == [caps |-> caps_lock, ring |-> ring]
           k == Len(r.keys)
           turns == FoldLeft(LAMBDA hid, m : DecodeKey(hid, m, r.shift), start, r.keys)
<1>1. k \in Nat /\ DOMAIN r.keys = 1 .. k
  BY KeysAssumption
<1>2. start \in Hids
  BY StartIsHid
<1> HIDE DEF start
<1>3. PICK g \in [0 .. k -> Hids] :
        /\ g[0] = start
        /\ \A n \in 1 .. k : g[n] = DecodeKey(g[n - 1], r.keys[n], r.shift)
        /\ g[k] = turns
  BY <1>2, DecodeTurns, Zenon
<1> HIDE DEF turns
<1> DEFINE S == {n \in 0 .. k : g[n] = start}
<1>4. 0 \in S
  BY <1>1, <1>3
<1>5. ASSUME NEW n \in 0 .. k - 1, n \in S PROVE n + 1 \in S
  <2>1. n + 1 \in 1 .. k /\ (n + 1) - 1 = n
    BY <1>1
  <2>2. r.keys[n + 1] \in previous
    <3>1. r.keys[n + 1] \in ToSet(r.keys)
      BY <1>1, <2>1, Zenon DEF ToSet
    <3> QED
      BY <3>1
  <2>3. g[n + 1] = DecodeKey(g[(n + 1) - 1], r.keys[n + 1], r.shift)
    BY <1>3, <2>1, Zenon
  <2>4. g[n + 1] = g[n]
    BY <2>1, <2>2, <2>3, Zenon DEF DecodeKey
  <2> QED
    BY <1>1, <1>5, <2>1, <2>4
<1>6. \A n \in 0 .. k : n \in S
  <2> HIDE DEF S, k
  <2> QED
    BY <1>1, <1>4, <1>5, CountUp
<1>7. turns = start
  <2>1. k \in S
    BY <1>1, <1>6
  <2> QED
    BY <1>3, <2>1
<1>8. Decode(r) = start
  BY <1>7, Zenon DEF Decode, start, turns
<1> QED
  BY <1>8 DEF start

\* With one keyboard the claim of the documentation is true: a report in which no key has gone down
\* types nothing (hid_keyboard.c hid_keyboard_report).  The run two_keyboards shows that it needs it.
THEOREM HeldKeysAreSilent ==
  ASSUME OneKeyboard
  PROVE  Spec => HeldKeysSilent
<1> DEFINE Silent ==
      \A c \in Controllers, r \in Reports :
        HidReport(c, r) /\ ToSet(r.keys) \subseteq held[c] => UNCHANGED ring
<1>1. DecoderInv /\ HeldInv => Silent
  <2> SUFFICES ASSUME DecoderInv, HeldInv, NEW c \in Controllers, NEW r \in Reports,
                      HidReport(c, r), ToSet(r.keys) \subseteq held[c]
               PROVE  ring' = ring
    OBVIOUS
  <2>1. held[c] = previous
    BY DEF HeldInv
  <2>2. Decode(r).ring = ring
    BY <2>1, HeldKeysDecode
  <2> QED
    BY <2>2 DEF HidReport, vars
<1>2. HeldKeysSilent <=> [][Silent]_vars
  BY DEF HeldKeysSilent
<1> HIDE DEF Silent
<1> QED
  BY <1>1, <1>2, DecoderHolds, HeldHolds, PTL

------------------------------------------------------------------------------
(* The driver over its hardware uses the decoder as BootKeyboard does.     *)

LEMMA DriverDecodesStep ==
  ASSUME UsbTypeOK, [UsbNext]_usbVars
  PROVE  [Next]_vars
<1>1. ASSUME NEW c \in Controllers, PeriodicPoll(c) PROVE Next
  <2>1. HidReport(c, interrupt[c].report)
    BY <1>1 DEF PeriodicPoll
  <2>2. interrupt[c].report \in Reports
    BY DEF UsbTypeOK, InterruptType
  <2> QED
    BY <2>1, <2>2 DEF Next
<1>2. ASSUME NEW c \in Controllers, PeriodicStop(c) PROVE Next
  BY <1>2 DEF PeriodicStop, Next
<1>3. Return => Next \/ UNCHANGED vars
  BY DEF Return, Next
<1>4. ASSUME NEW c \in Controllers,
             \/ Scan(c) \/ Gone(c) \/ PowerWait(c) \/ ResetWait(c) \/ Ask(c)
             \/ SetAddress(c) \/ AddressWait(c) \/ EnumerationFail(c)
             \/ PeriodicStart(c) \/ Idle(c)
      PROVE  UNCHANGED vars
  BY <1>4 DEF Scan, Gone, PowerWait, ResetWait, Ask, SetAddress, AddressWait, EnumerationFail,
              PeriodicStart, Idle
<1>5. ASSUME NEW c \in Controllers, Hardware(c) PROVE UNCHANGED vars
  BY <1>5 DEF Hardware, TransferDone, TransferDies, ResetDone, SendReport, InterruptDies, DelayPasses
<1>6. Outside => UNCHANGED vars
  BY DEF Outside, TransferFault, InterruptFault, DeadlinePasses, Unplug, Plug, Stroke
<1>7. UNCHANGED usbVars => UNCHANGED vars
  BY DEF usbVars
<1> QED
  BY <1>1, <1>2, <1>3, <1>4, <1>5, <1>6, <1>7 DEF UsbNext, Driver

\* Whatever is plugged in and out, and whatever fails, the driver only hands
\* the decoder reports, resets and reads (ohci.c periodic_poll, periodic_stop):
\* what is proved of the decoder holds of every run of the driver.
THEOREM DriverDecodes == UsbSpec => Spec
<1>1. UsbInit => Init
  BY DEF UsbInit
<1>2. UsbTypeOK /\ [UsbNext]_usbVars => [Next]_vars
  BY DriverDecodesStep
<1> QED
  BY <1>1, <1>2, UsbTypeSafe, PTL DEF UsbSpec, Spec

\* So with one keyboard port the whole driver, through every attachment, failure and removal, hands the
\* payload each key once and none that is only held (ohci.c periodic_poll, hid_keyboard_report).
THEOREM DriverTypesOnce ==
  ASSUME OneKeyboard
  PROVE  UsbSpec => KeysTypeOnce /\ HeldKeysSilent
<1>1. Spec => KeysTypeOnce
  BY KeysTypedOnce
<1>2. Spec => HeldKeysSilent
  BY HeldKeysAreSilent
<1> QED
  BY <1>1, <1>2, DriverDecodes

=============================================================================
