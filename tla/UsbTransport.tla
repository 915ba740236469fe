---------------------------- MODULE UsbTransport ----------------------------
(***************************************************************************)
(* USBTransport (src/ptp/usb_transport.cpp): finding a camera on the bus,  *)
(* opening it, claiming its PTP interface, and giving it back.  One object *)
(* holds one handle, one interface number and three endpoint addresses,    *)
(* which open_device_ assigns one after the other with a libusb call in    *)
(* between that may fail; open_first swallows the failure and goes on with *)
(* the next device.  Every libusb call is a step, because other programs   *)
(* claim interfaces and devices come and go between any two of them.       *)
(***************************************************************************)
EXTENDS Integers, Sequences, FiniteSets

CONSTANTS
    Devices,    \* what may be plugged into the bus
    Alts,       \* of each device, its alternate settings in descriptor order
    IdOf,       \* of each device, its vendor and product id
    MaxOpens    \* bound: handles ever opened

Ids == {IdOf[d] : d \in Devices}

\* The first open_* argument: open_first takes any device.
AnyDevice == "any"

Endpoints == [addr : Nat \ {0}, type : {"bulk", "interrupt"}, dir : {"in", "out"}]

ASSUME UsbAssumption ==
    /\ IsFiniteSet(Devices)
    /\ Alts \in [Devices -> Seq([ifnum : Nat, ptp : BOOLEAN, endpoints : Seq(Endpoints)])]
    /\ AnyDevice \notin Ids
    /\ MaxOpens \in Nat

-----------------------------------------------------------------------------
(***************************************************************************)
(* find_ptp_interface_: of the first setting of class 6 with a bulk        *)
(* endpoint each way, the last endpoint of each kind.                      *)
(***************************************************************************)

NoAddr == 0

AddrOf(alt, type, dir) ==
    LET hits == {k \in DOMAIN alt.endpoints :
                    alt.endpoints[k].type = type /\ alt.endpoints[k].dir = dir}
    IN IF hits = {} THEN NoAddr
       ELSE alt.endpoints[CHOOSE k \in hits : \A j \in hits : j <= k].addr

EndpointsOf(alt) ==
    [in |-> AddrOf(alt, "bulk", "in"), out |-> AddrOf(alt, "bulk", "out"),
     intr |-> AddrOf(alt, "interrupt", "in")]

Usable(alt) ==
    alt.ptp /\ EndpointsOf(alt).in # NoAddr /\ EndpointsOf(alt).out # NoAddr

UsableAlts(d) == {k \in DOMAIN Alts[d] : Usable(Alts[d][k])}

PtpAlt(d) == Alts[d][CHOOSE k \in UsableAlts(d) : \A j \in UsableAlts(d) : k <= j]

-----------------------------------------------------------------------------

VARIABLES
    plugged,    \* bus: devices present
    driver,     \* bus: <<device, interface>> a kernel driver is attached to
    taken,      \* bus: <<device, interface>> another program has claimed
    opened,     \* libusb: the device behind each handle ever opened
    live,       \* libusb: handles not closed
    claimed,    \* libusb: <<handle, interface>> this process has claimed
    dev, ifnum, eps,    \* USBTransport::dev_, ifnum_, ep_in_/ep_out_/ep_intr_
    pc,         \* where the running open_* is
    want,       \* its argument
    list, i,    \* the device list and the loop index
    outcome,    \* how the last open_* or close ended
    refused     \* history: how many claims failed

bus == <<plugged, driver, taken>>
libusb == <<opened, live, claimed>>
members == <<dev, ifnum, eps>>
loop == <<want, list, i>>
vars == <<bus, libusb, members, pc, loop, outcome, refused>>

NoHandle == 0
NoInterface == -1
NoEndpoints == [in |-> NoAddr, out |-> NoAddr, intr |-> NoAddr]

Interfaces == UNION {{Alts[d][k].ifnum : k \in DOMAIN Alts[d]} : d \in Devices}

\* Every variable has its type.
TypeOK ==
    /\ plugged \subseteq Devices
    /\ driver \subseteq Devices \X Interfaces
    /\ taken \subseteq Devices \X Interfaces
    /\ opened \in Seq(Devices)
    /\ live \subseteq 1..Len(opened)
    /\ claimed \subseteq live \X Interfaces
    /\ dev \in live \cup {NoHandle}
    /\ ifnum \in Interfaces \cup {NoInterface}
    /\ eps \in [in : Nat, out : Nat, intr : Nat]
    /\ pc \in {"idle", "find", "open", "detach", "claim"}
    /\ want \in Ids \cup {AnyDevice}
    /\ list \in Seq(Devices)
    /\ i \in Nat
    /\ pc # "idle" => i \in 1..Len(list)
    /\ outcome \in {"none", "ok", "threw"}
    /\ refused \in 0..Len(opened)

Init ==
    /\ plugged \in SUBSET Devices
    /\ driver \in SUBSET {<<d, PtpAlt(d).ifnum>> : d \in {e \in plugged : UsableAlts(e) # {}}}
    /\ taken = {}
    /\ opened = <<>> /\ live = {} /\ claimed = {}
    /\ dev = NoHandle /\ ifnum = NoInterface /\ eps = NoEndpoints
    /\ pc = "idle" /\ want = AnyDevice /\ list = <<>> /\ i = 0
    /\ outcome = "none" /\ refused = 0

-----------------------------------------------------------------------------
(***************************************************************************)
(* close(), which the open_* call first when there is a handle, and the    *)
(* destructor last.  Closing a handle ends all its claims.                 *)
(***************************************************************************)

\* Variant: close() forgets the handle without closing it.
ForgetHandle ==
    /\ dev' = NoHandle /\ ifnum' = NoInterface /\ eps' = NoEndpoints
    /\ UNCHANGED <<live, claimed>>

CloseHandle ==
    /\ live' = live \ {dev}
    /\ claimed' = {c \in claimed : c[1] # dev}
    /\ dev' = NoHandle /\ ifnum' = NoInterface /\ eps' = NoEndpoints

Close ==
    /\ pc = "idle"
    /\ dev # NoHandle
    /\ CloseHandle
    /\ outcome' = "none"
    /\ UNCHANGED <<bus, opened, pc, loop, refused>>

-----------------------------------------------------------------------------
(***************************************************************************)
(* open_first and open_vid_pid.                                            *)
(***************************************************************************)

\* Orders in which libusb may list the devices present.
Listings == {l \in [1..Cardinality(plugged) -> plugged] :
                \A a, b \in DOMAIN l : l[a] = l[b] => a = b}

\* open_* ends; its locals go.
Return(o) ==
    /\ pc' = "idle" /\ outcome' = o
    /\ want' = AnyDevice /\ list' = <<>> /\ i' = 0

\* Where in the list the devices are that a call would try.
Matches(w, l) == {k \in DOMAIN l : w = AnyDevice \/ IdOf[l[k]] = w}

FirstMatch(w, l, k) == k \in Matches(w, l) /\ \A j \in Matches(w, l) : k <= j

Open(w) ==
    /\ pc = "idle"
    /\ Len(opened) < MaxOpens
    /\ IF dev # NoHandle THEN CloseHandle ELSE UNCHANGED <<live, claimed, members>>
    /\ \/ Return("threw")                   \* get_device_list failed
       \/ \E l \in Listings : Matches(w, l) = {} /\ Return("threw")    \* not found
       \/ \E l \in Listings, k \in 1..Cardinality(plugged) :
            /\ FirstMatch(w, l, k)
            /\ want' = w /\ list' = l /\ i' = k
            /\ pc' = "find"
            /\ UNCHANGED outcome
    /\ UNCHANGED <<bus, opened, refused>>

\* Variant: the next device is tried with the interface of the last one.
FailKeepsInterface ==
    IF want = AnyDevice /\ i < Len(list)
    THEN i' = i + 1 /\ pc' = "open" /\ UNCHANGED <<want, list, outcome>>
    ELSE Return("threw")

\* open_device_ throws.  open_first tries the next device; open_vid_pid lets
\* the exception pass.
Fail ==
    IF want = AnyDevice /\ i < Len(list)
    THEN i' = i + 1 /\ pc' = "find" /\ UNCHANGED <<want, list, outcome>>
    ELSE Return("threw")

\* The descriptor of the device is read and its PTP interface looked up.
Find ==
    /\ pc = "find"
    /\ \/ /\ list[i] \in plugged /\ UsableAlts(list[i]) # {}
          /\ ifnum' = PtpAlt(list[i]).ifnum
          /\ eps' = EndpointsOf(PtpAlt(list[i]))
          /\ pc' = "open"
          /\ UNCHANGED <<loop, outcome>>
       \/ Fail /\ UNCHANGED <<ifnum, eps>>
    /\ UNCHANGED <<bus, libusb, dev, refused>>

\* libusb_open: no device any more, or no right to open it, leaves dev_ as it
\* was; success overwrites it.
OpenHandle ==
    /\ pc = "open"
    /\ \/ /\ list[i] \in plugged
          /\ Len(opened) < MaxOpens
          /\ opened' = Append(opened, list[i])
          /\ live' = live \cup {Len(opened) + 1}
          /\ dev' = Len(opened) + 1
          /\ pc' = "detach"
          /\ UNCHANGED <<loop, outcome>>
       \/ Fail /\ UNCHANGED <<opened, live, dev>>
    /\ UNCHANGED <<bus, claimed, ifnum, eps, refused>>

\* A kernel driver in the way is detached; that it may refuse is not noticed.
Detach ==
    /\ pc = "detach"
    /\ \/ driver' = driver \ {<<opened[dev], ifnum>>}
       \/ UNCHANGED driver
    /\ pc' = "claim"
    /\ UNCHANGED <<plugged, taken, libusb, members, loop, outcome, refused>>

Claimable ==
    /\ opened[dev] \in plugged
    /\ <<opened[dev], ifnum>> \notin driver \cup taken
    /\ \A c \in claimed : opened[c[1]] = opened[dev] => c[2] # ifnum

\* Variant: the result of libusb_claim_interface is not checked.
ClaimUnchecked ==
    /\ pc = "claim"
    /\ claimed' = IF Claimable THEN claimed \cup {<<dev, ifnum>>} ELSE claimed
    /\ refused' = IF Claimable THEN refused ELSE refused + 1
    /\ Return("ok")
    /\ UNCHANGED <<bus, opened, live, members>>

Claim ==
    /\ pc = "claim"
    /\ IF Claimable
       THEN /\ claimed' = claimed \cup {<<dev, ifnum>>}
            /\ Return("ok")
            /\ UNCHANGED refused
       ELSE /\ Fail
            /\ refused' = refused + 1
            /\ UNCHANGED claimed
    /\ UNCHANGED <<bus, opened, live, members>>

-----------------------------------------------------------------------------
(***************************************************************************)
(* The bus, external: devices come and go, other programs claim and        *)
(* release.                                                                *)
(***************************************************************************)

OthersCanClaim(d, n) ==
    /\ d \in plugged
    /\ <<d, n>> \notin driver
    /\ \A c \in claimed : opened[c[1]] = d => c[2] # n

Plug(d) ==
    /\ d \notin plugged
    /\ plugged' = plugged \cup {d}
    /\ UNCHANGED <<driver, taken>>

Unplug(d) ==
    /\ d \in plugged
    /\ plugged' = plugged \ {d}
    /\ driver' = {x \in driver : x[1] # d}
    /\ taken' = {x \in taken : x[1] # d}

OtherClaims(d, n) ==
    /\ OthersCanClaim(d, n)
    /\ taken' = taken \cup {<<d, n>>}
    /\ UNCHANGED <<plugged, driver>>

OtherReleases(x) ==
    /\ taken' = taken \ {x}
    /\ UNCHANGED <<plugged, driver>>

Bus ==
    /\ \/ \E d \in Devices : Plug(d) \/ Unplug(d)
       \/ \E d \in Devices, n \in Interfaces : OtherClaims(d, n)
       \/ \E x \in taken : OtherReleases(x)
    /\ UNCHANGED <<libusb, members, pc, loop, outcome, refused>>

-----------------------------------------------------------------------------

Next ==
    \/ \E w \in Ids \cup {AnyDevice} : Open(w)
    \/ Find \/ OpenHandle \/ Detach \/ Claim
    \/ Close
    \/ Bus

Spec == Init /\ [][Next]_vars

-----------------------------------------------------------------------------
(***************************************************************************)
(* Properties.                                                             *)
(***************************************************************************)

\* At most one interface is ever claimed, and it is the one the members name:
\* what close() gives back is all there is, although open_device_ overwrites
\* the interface number before it knows that the device can be opened.
ClaimsAreRecorded == claimed \subseteq {<<dev, ifnum>>}

\* The transfers of a claimed interface use its own endpoints, not those of a
\* candidate that failed before or after it.
EndpointsOfClaimed ==
    \A c \in claimed :
        /\ c[2] = PtpAlt(opened[c[1]]).ifnum
        /\ eps = EndpointsOf(PtpAlt(opened[c[1]]))

\* open_first and open_vid_pid return normally only with an interface claimed,
\* of a device the caller asked for.
OpenIsClaimed ==
    [][pc # "idle" /\ pc' = "idle" /\ outcome' = "ok" =>
         /\ <<dev', ifnum'>> \in claimed'
         /\ want \in {AnyDevice, IdOf[opened'[dev']]}]_vars

\* is_open() also holds when a claim was refused and nothing is claimed, but
\* then the last open_* threw: a caller that heeds the exception is safe.
OpenWithoutClaimThrew ==
    pc = "idle" /\ dev # NoHandle /\ claimed = {} => outcome = "threw"

\* The handles that are open, but lost or without a claim, are no more than the
\* claims that were refused: no other failure leaks a handle, and no sequence of
\* calls does.
HandlesAccounted ==
    LET bare == {h \in live : h # dev \/ <<h, ifnum>> \notin claimed}
    IN Cardinality(bare) <= refused + (IF pc \in {"detach", "claim"} THEN 1 ELSE 0)

=============================================================================
