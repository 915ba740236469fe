------------------------- MODULE UsbTransportProofs -------------------------
(***************************************************************************)
(* What USBTransport has claimed is what its members name, and what it has *)
(* opened is accounted for, for any devices with any descriptors.  The     *)
(* first invariant says two things that the properties do not: while an    *)
(* open_* runs nothing is claimed, because it closed the old handle first; *)
(* and from the lookup of a candidate on the members describe that         *)
(* candidate, whatever the candidates before it left there.  Types and the *)
(* count of the handles follow below.                                      *)
(***************************************************************************)
EXTENDS UsbTransport, FiniteSetTheorems, WellFoundedInduction, TLAPS

\* The loop of open_* stands on a device of its list that the caller asked for.
Loop ==
    /\ plugged \subseteq Devices
    /\ opened \in Seq(Devices)
    /\ dev \in 0..Len(opened)
    /\ pc \in {"idle", "find", "open", "detach", "claim"}
    /\ list \in Seq(Devices)
    /\ pc # "idle" => i \in 1..Len(list) /\ want \in {AnyDevice, IdOf[list[i]]}

\* The members describe the candidate.
Candidate ==
    /\ pc \in {"open", "detach", "claim"} =>
         /\ ifnum = PtpAlt(list[i]).ifnum
         /\ eps = EndpointsOf(PtpAlt(list[i]))
    /\ pc \in {"detach", "claim"} => dev # NoHandle /\ opened[dev] = list[i]

\* What is claimed, and when.
Claims ==
    /\ pc # "idle" => claimed = {}
    /\ claimed # {} => dev # NoHandle
    /\ ClaimsAreRecorded
    /\ EndpointsOfClaimed
    /\ OpenWithoutClaimThrew

IInv == Loop /\ Candidate /\ Claims

-----------------------------------------------------------------------------

\* A listing of the bus is a sequence of devices.
LEMMA ListingType ==
    ASSUME plugged \subseteq Devices, NEW l \in Listings
    PROVE  l \in Seq(Devices)
<1>1. Cardinality(plugged) \in Nat
  BY UsbAssumption, FS_Subset, FS_CardinalityType DEF UsbAssumption
<1>2. QED
  BY <1>1 DEF Listings

LEMMA InitIInv == Init => IInv
  BY DEF Init, IInv, Loop, Candidate, Claims, ClaimsAreRecorded, EndpointsOfClaimed,
         OpenWithoutClaimThrew, NoHandle

-----------------------------------------------------------------------------
(***************************************************************************)
(* One lemma per action.                                                   *)
(***************************************************************************)

LEMMA CloseStep ==
    ASSUME IInv, Close
    PROVE  IInv'
<1> USE DEF IInv, NoHandle
<1>1. claimed' = {}
  BY DEF Claims, Close, CloseHandle, ClaimsAreRecorded
<1>2. Loop'
  BY DEF Loop, Close, CloseHandle, bus, loop
<1>3. Candidate'
  BY DEF Candidate, Close, loop
<1>4. Claims'
  BY <1>1 DEF Claims, Close, CloseHandle, ClaimsAreRecorded, EndpointsOfClaimed,
              OpenWithoutClaimThrew
<1>5. QED
  BY <1>2, <1>3, <1>4

LEMMA OpenStep ==
    ASSUME IInv, NEW w \in Ids \cup {AnyDevice}, Open(w)
    PROVE  IInv'
<1> USE DEF IInv, NoHandle
<1>1. claimed' = {} /\ dev' = NoHandle /\ UNCHANGED <<plugged, opened>>
  BY DEF Claims, Open, CloseHandle, ClaimsAreRecorded, members, bus
<1>2. CASE Return("threw")
  <2>1. Loop'
    BY <1>1, <1>2 DEF Loop, Return
  <2>2. Candidate'
    BY <1>2 DEF Candidate, Return
  <2>3. Claims'
    BY <1>1, <1>2 DEF Claims, Return, ClaimsAreRecorded, EndpointsOfClaimed,
                      OpenWithoutClaimThrew
  <2>4. QED
    BY <2>1, <2>2, <2>3
<1>3. CASE ~Return("threw")
  <2>1. PICK l \in Listings, k \in 1..Cardinality(plugged) :
           /\ FirstMatch(w, l, k)
           /\ want' = w /\ list' = l /\ i' = k
           /\ pc' = "find"
    BY <1>3 DEF Open
  <2>2. l \in Seq(Devices)
    BY ListingType DEF Loop
  <2>3. k \in 1..Len(l) /\ w \in {AnyDevice, IdOf[l[k]]}
    BY <2>1, <2>2 DEF FirstMatch, Matches
  <2>4. Loop'
    BY <1>1, <2>1, <2>2, <2>3 DEF Loop
  <2>5. Candidate'
    BY <2>1 DEF Candidate
  <2>6. Claims'
    BY <1>1, <2>1 DEF Claims, ClaimsAreRecorded, EndpointsOfClaimed, OpenWithoutClaimThrew
  <2>7. QED
    BY <2>4, <2>5, <2>6
<1>4. QED
  BY <1>2, <1>3

\* A failure leaves the loop on a device of its list, or ends it by a throw.
LEMMA FailKeeps ==
    ASSUME Loop, pc # "idle", Fail, UNCHANGED plugged,
           opened' \in Seq(Devices), dev' \in 0..Len(opened')
    PROVE  /\ Loop'
           /\ pc' \in {"idle", "find"}
           /\ pc' = "idle" => outcome' = "threw"
<1>1. CASE want = AnyDevice /\ i < Len(list)
  <2>1. i' = i + 1 /\ pc' = "find" /\ UNCHANGED <<want, list>>
    BY <1>1 DEF Fail
  <2>2. i' \in 1..Len(list')
    BY <1>1, <2>1 DEF Loop
  <2>3. QED
    BY <1>1, <2>1, <2>2 DEF Loop
<1>2. CASE ~(want = AnyDevice /\ i < Len(list))
  <2>1. pc' = "idle" /\ outcome' = "threw" /\ list' = <<>>
    BY <1>2 DEF Fail, Return
  <2>2. QED
    BY <2>1 DEF Loop
<1>3. QED
  BY <1>1, <1>2

\* Nothing is claimed while a candidate is tried, so a failed try leaves
\* nothing to be wrong about.
LEMMA FailedTry ==
    ASSUME IInv, pc # "idle", Fail, UNCHANGED <<plugged, opened, dev, claimed>>
    PROVE  IInv'
<1> USE DEF IInv
<1>1. claimed' = {}
  BY DEF Claims
<1>2. Loop' /\ pc' \in {"idle", "find"} /\ (pc' = "idle" => outcome' = "threw")
  BY FailKeeps DEF Loop
<1>3. Candidate'
  BY <1>2 DEF Candidate
<1>4. Claims'
  BY <1>1, <1>2 DEF Claims, ClaimsAreRecorded, EndpointsOfClaimed, OpenWithoutClaimThrew
<1>5. QED
  BY <1>2, <1>3, <1>4

LEMMA FindStep ==
    ASSUME IInv, Find
    PROVE  IInv'
<1> USE DEF IInv
<1>1. pc = "find" /\ UNCHANGED <<plugged, opened, dev, claimed>>
  BY DEF Find, bus, libusb
<1>2. CASE Fail
  BY <1>1, <1>2, FailedTry
<1>3. CASE ~Fail
  <2>1. /\ ifnum' = PtpAlt(list[i]).ifnum
        /\ eps' = EndpointsOf(PtpAlt(list[i]))
        /\ pc' = "open"
        /\ UNCHANGED <<want, list, i>>
    BY <1>3 DEF Find, loop
  <2>2. Loop'
    BY <1>1, <2>1 DEF Loop
  <2>3. Candidate'
    BY <2>1 DEF Candidate
  <2>4. Claims'
    BY <1>1, <2>1 DEF Claims, ClaimsAreRecorded, EndpointsOfClaimed, OpenWithoutClaimThrew
  <2>5. QED
    BY <2>2, <2>3, <2>4
<1>4. QED
  BY <1>2, <1>3

LEMMA OpenHandleStep ==
    ASSUME IInv, OpenHandle
    PROVE  IInv'
<1> USE DEF IInv
<1>1. pc = "open" /\ UNCHANGED <<plugged, claimed, ifnum, eps>>
  BY DEF OpenHandle, bus
<1>2. CASE Fail
  <2>1. CASE UNCHANGED <<opened, dev>>
    BY <1>1, <1>2, <2>1, FailedTry
  <2>2. CASE ~UNCHANGED <<opened, dev>>
    BY <1>1, <1>2, <2>2 DEF OpenHandle, Fail, Return
  <2>3. QED
    BY <2>1, <2>2
<1>3. CASE ~Fail
  <2>1. /\ opened' = Append(opened, list[i])
        /\ dev' = Len(opened) + 1
        /\ pc' = "detach"
        /\ UNCHANGED <<want, list, i>>
    BY <1>3 DEF OpenHandle, loop
  <2>2. list[i] \in Devices
    BY <1>1 DEF Loop
  <2>3. Loop'
    BY <1>1, <2>1, <2>2 DEF Loop
  <2>4. opened'[dev'] = list[i] /\ dev' # NoHandle
    BY <2>1, <2>2 DEF Loop, NoHandle
  <2>5. Candidate'
    BY <1>1, <2>1, <2>4 DEF Candidate
  <2>6. Claims'
    BY <1>1, <2>1 DEF Claims, ClaimsAreRecorded, EndpointsOfClaimed, OpenWithoutClaimThrew
  <2>7. QED
    BY <2>3, <2>5, <2>6
<1>4. QED
  BY <1>2, <1>3

LEMMA DetachStep ==
    ASSUME IInv, Detach
    PROVE  IInv'
<1>1. /\ pc = "detach" /\ pc' = "claim"
      /\ UNCHANGED <<plugged, opened, claimed, dev, ifnum, eps, want, list, i>>
  BY DEF Detach, libusb, members, loop
<1>2. QED
  BY <1>1 DEF IInv, Loop, Candidate, Claims, ClaimsAreRecorded, EndpointsOfClaimed,
              OpenWithoutClaimThrew

LEMMA ClaimStep ==
    ASSUME IInv, Claim
    PROVE  IInv'
<1> USE DEF IInv
<1>1. pc = "claim" /\ UNCHANGED <<plugged, opened, dev, ifnum, eps>>
  BY DEF Claim, bus, members
<1>2. CASE ~Claimable
  BY <1>1, <1>2, FailedTry DEF Claim
<1>3. CASE Claimable
  <2>1. claimed' = {<<dev, ifnum>>} /\ Return("ok")
    BY <1>1, <1>3 DEF Claim, Claims
  <2>2. Loop'
    BY <1>1, <2>1 DEF Loop, Return
  <2>3. Candidate'
    BY <2>1 DEF Candidate, Return
  <2>4. /\ dev # NoHandle
        /\ ifnum = PtpAlt(opened[dev]).ifnum
        /\ eps = EndpointsOf(PtpAlt(opened[dev]))
    BY <1>1 DEF Candidate
  <2>5. UNCHANGED <<opened, dev, ifnum, eps>> /\ pc' = "idle" /\ outcome' = "ok"
    BY <1>1, <2>1 DEF Return
  <2>6. ClaimsAreRecorded' /\ claimed' # {}
    BY <2>1, <2>5 DEF ClaimsAreRecorded
  <2>7. EndpointsOfClaimed'
    BY <2>1, <2>4, <2>5 DEF EndpointsOfClaimed
  <2>8. Claims'
    BY <2>4, <2>5, <2>6, <2>7 DEF Claims, OpenWithoutClaimThrew
  <2>9. QED
    BY <2>2, <2>3, <2>8
<1>4. QED
  BY <1>2, <1>3

LEMMA BusStep ==
    ASSUME IInv, Bus
    PROVE  IInv'
<1>1. UNCHANGED <<opened, claimed, dev, ifnum, eps, pc, want, list, i, outcome>>
  BY DEF Bus, libusb, members, loop
<1>2. plugged' \subseteq Devices
  BY DEF IInv, Loop, Bus, Plug, Unplug, OtherClaims, OtherReleases
<1>3. QED
  BY <1>1, <1>2 DEF IInv, Loop, Candidate, Claims, ClaimsAreRecorded, EndpointsOfClaimed,
                    OpenWithoutClaimThrew

LEMMA NextIInv == IInv /\ [Next]_vars => IInv'
<1> SUFFICES ASSUME IInv, [Next]_vars
             PROVE  IInv'
  OBVIOUS
<1>1. ASSUME NEW w \in Ids \cup {AnyDevice}, Open(w)
      PROVE  IInv'
  BY <1>1, OpenStep
<1>2. CASE Find
  BY <1>2, FindStep
<1>3. CASE OpenHandle
  BY <1>3, OpenHandleStep
<1>4. CASE Detach
  BY <1>4, DetachStep
<1>5. CASE Claim
  BY <1>5, ClaimStep
<1>6. CASE Close
  BY <1>6, CloseStep
<1>7. CASE Bus
  BY <1>7, BusStep
<1>8. CASE UNCHANGED vars
  BY <1>8 DEF vars, bus, libusb, members, loop, IInv, Loop, Candidate, Claims,
              ClaimsAreRecorded, EndpointsOfClaimed, OpenWithoutClaimThrew
<1>9. QED
  BY <1>1, <1>2, <1>3, <1>4, <1>5, <1>6, <1>7, <1>8 DEF Next

-----------------------------------------------------------------------------

\* The invariant of USBTransport holds on any bus, whatever happens on it.
THEOREM Invariance == Spec => []IInv
<1>1. QED
  BY InitIInv, NextIInv, PTL DEF Spec

\* At most one interface is claimed, the one close() will give back.
THEOREM RecordedClaims == Spec => []ClaimsAreRecorded
<1>1. IInv => ClaimsAreRecorded
  BY DEF IInv, Claims
<1>2. QED
  BY <1>1, Invariance, PTL

\* A claimed interface is used with its own endpoints.
THEOREM OwnEndpoints == Spec => []EndpointsOfClaimed
<1>1. IInv => EndpointsOfClaimed
  BY DEF IInv, Claims
<1>2. QED
  BY <1>1, Invariance, PTL

\* A transport that is open without a claim has told its caller by a throw.
THEOREM UnclaimedThrew == Spec => []OpenWithoutClaimThrew
<1>1. IInv => OpenWithoutClaimThrew
  BY DEF IInv, Claims
<1>2. QED
  BY <1>1, Invariance, PTL

\* open_first and open_vid_pid return normally only with the claim, of a device
\* the caller asked for.
THEOREM OpensWithClaim == Spec => OpenIsClaimed
<1>1. IInv /\ [Next]_vars =>
        [pc # "idle" /\ pc' = "idle" /\ outcome' = "ok" =>
           /\ <<dev', ifnum'>> \in claimed'
           /\ want \in {AnyDevice, IdOf[opened'[dev']]}]_vars
  <2> SUFFICES ASSUME IInv, Next, pc # "idle", pc' = "idle", outcome' = "ok"
               PROVE  /\ <<dev', ifnum'>> \in claimed'
                      /\ want \in {AnyDevice, IdOf[opened'[dev']]}
    OBVIOUS
  <2>1. Claim
    BY DEF Next, Open, Find, OpenHandle, Detach, Close, Bus, Fail, Return
  <2>2. Claimable
    BY <2>1 DEF Claim, Fail, Return
  <2>3. /\ claimed' = claimed \cup {<<dev, ifnum>>}
        /\ UNCHANGED <<opened, dev, ifnum>>
    BY <2>1, <2>2 DEF Claim, members
  <2>4. want \in {AnyDevice, IdOf[opened[dev]]}
    BY <2>1 DEF IInv, Loop, Candidate, Claim
  <2>5. QED
    BY <2>3, <2>4
<1>2. QED
  BY <1>1, Invariance, PTL DEF Spec, OpenIsClaimed

-----------------------------------------------------------------------------
(***************************************************************************)
(* Types.  What has to be shown is that the descriptors have what the      *)
(* lookups choose from them, that the loop stays in its list, and that     *)
(* every refused claim was of a handle of its own.                         *)
(***************************************************************************)

\* The first setting that is usable is there if any is.
LEMMA Least ==
    ASSUME NEW S, S \subseteq Nat, S # {}
    PROVE  \E m \in S : \A k \in S : m <= k
<1> DEFINE R == {ss \in Nat \X Nat : ss[1] < ss[2]}
<1>1. IsWellFoundedOn(R, Nat)
  BY NatLessThanWellFounded, Zenon DEF OpToRel
<1>2. \A k, m \in Nat : k < m => <<k, m>> \in R
  OBVIOUS
<1> HIDE DEF R
<1>3. \E m \in S : \A k \in S : ~(<<k, m>> \in R)
  BY <1>1, WFMin, Zenon
<1>4. \E m \in S : \A k \in S : ~(k < m)
  BY <1>2, <1>3, Zenon
<1>5. QED
  BY <1>4

\* So is the last endpoint of a kind.
LEMMA Greatest ==
    ASSUME NEW S, NEW n \in Nat, S \subseteq 1..n, S # {}
    PROVE  \E m \in S : \A k \in S : k <= m
<1> DEFINE T == {n - k : k \in S}
<1>1. T \subseteq Nat /\ T # {}
  <2>1. \A k \in S : n - k \in Nat
    OBVIOUS
  <2>2. QED
    BY <2>1, Zenon
<1>2. PICK t \in T : \A u \in T : t <= u
  BY <1>1, Least
<1>3. PICK m \in S : t = n - m
  BY <1>2
<1>4. ASSUME NEW k \in S PROVE k <= m
  <2>1. n - k \in T
    OBVIOUS
  <2>2. n - m <= n - k
    BY <1>2, <1>3, <2>1
  <2>3. m \in Nat /\ k \in Nat
    OBVIOUS
  <2>4. QED
    BY <2>2, <2>3
<1>5. QED
  BY <1>3, <1>4

LEMMA PtpAltUsable ==
    ASSUME NEW d \in Devices, UsableAlts(d) # {}
    PROVE  \E k \in DOMAIN Alts[d] : PtpAlt(d) = Alts[d][k]
<1>1. Alts[d] \in Seq([ifnum : Nat, ptp : BOOLEAN, endpoints : Seq(Endpoints)])
  BY UsbAssumption DEF UsbAssumption
<1>2. UsableAlts(d) \subseteq DOMAIN Alts[d] /\ DOMAIN Alts[d] \subseteq Nat
  BY <1>1 DEF UsableAlts
<1>3. \E k \in UsableAlts(d) : \A j \in UsableAlts(d) : k <= j
  BY <1>2, Least
<1>4. (CHOOSE k \in UsableAlts(d) : \A j \in UsableAlts(d) : k <= j) \in UsableAlts(d)
  BY <1>3
<1>5. QED
  BY <1>2, <1>4 DEF PtpAlt

LEMMA AddrType ==
    ASSUME NEW alt \in [ifnum : Nat, ptp : BOOLEAN, endpoints : Seq(Endpoints)],
           NEW type, NEW dir
    PROVE  AddrOf(alt, type, dir) \in Nat
<1> DEFINE hits == {k \in DOMAIN alt.endpoints :
                       alt.endpoints[k].type = type /\ alt.endpoints[k].dir = dir}
<1>1. CASE hits = {}
  BY <1>1 DEF AddrOf, NoAddr
<1>2. CASE hits # {}
  <2>1. hits \subseteq 1..Len(alt.endpoints) /\ Len(alt.endpoints) \in Nat
    OBVIOUS
  <2>2. \E k \in hits : \A j \in hits : j <= k
    BY <1>2, <2>1, Greatest
  <2>3. (CHOOSE k \in hits : \A j \in hits : j <= k) \in hits
    BY <2>2
  <2>4. \A k \in hits : alt.endpoints[k].addr \in Nat
    <3>1. alt.endpoints \in Seq(Endpoints)
      OBVIOUS
    <3>2. \A k \in DOMAIN alt.endpoints : alt.endpoints[k] \in Endpoints
      BY <3>1
    <3>3. QED
      BY <3>2 DEF Endpoints
  <2>5. AddrOf(alt, type, dir) = alt.endpoints[CHOOSE k \in hits : \A j \in hits : j <= k].addr
    BY <1>2 DEF AddrOf
  <2>6. QED
    BY <2>3, <2>4, <2>5
<1>3. QED
  BY <1>1, <1>2

\* What a lookup that succeeds assigns.
LEMMA FoundType ==
    ASSUME NEW d \in Devices, UsableAlts(d) # {}
    PROVE  /\ PtpAlt(d).ifnum \in Interfaces
           /\ EndpointsOf(PtpAlt(d)) \in [in : Nat, out : Nat, intr : Nat]
<1>1. PICK k \in DOMAIN Alts[d] : PtpAlt(d) = Alts[d][k]
  BY PtpAltUsable
<1>2. PtpAlt(d) \in [ifnum : Nat, ptp : BOOLEAN, endpoints : Seq(Endpoints)]
  <2>1. Alts[d] \in Seq([ifnum : Nat, ptp : BOOLEAN, endpoints : Seq(Endpoints)])
    BY UsbAssumption DEF UsbAssumption
  <2>2. Alts[d][k] \in [ifnum : Nat, ptp : BOOLEAN, endpoints : Seq(Endpoints)]
    <3>1. \A T : \A s \in Seq(T) : \A j \in DOMAIN s : s[j] \in T
      OBVIOUS
    <3>2. QED
      BY <2>1, <3>1, Zenon
  <2>3. QED
    BY <1>1, <2>2
<1>3. EndpointsOf(PtpAlt(d)) \in [in : Nat, out : Nat, intr : Nat]
  BY <1>2, AddrType DEF EndpointsOf
<1>4. PtpAlt(d).ifnum \in Interfaces
  BY <1>1 DEF Interfaces
<1>5. QED
  BY <1>3, <1>4

-----------------------------------------------------------------------------

\* A candidate that is being opened has an interface; one that is being claimed
\* has a handle that is open and was not refused.
Typed ==
    /\ TypeOK
    /\ pc \in {"open", "detach", "claim"} => ifnum \in Interfaces
    /\ pc \in {"detach", "claim"} => dev \in live /\ refused < Len(opened)

LEMMA InitTyped == Init => Typed
<1> SUFFICES ASSUME Init PROVE Typed
  OBVIOUS
<1>1. \A d \in plugged : UsableAlts(d) # {} => PtpAlt(d).ifnum \in Interfaces
  BY FoundType DEF Init
<1>2. driver \subseteq Devices \X Interfaces
  BY <1>1 DEF Init
<1>3. <<>> \in Seq(Devices) /\ Len(<<>>) = 0
  OBVIOUS
<1>4. QED
  BY <1>2, <1>3 DEF Init, Typed, TypeOK, NoHandle, NoInterface, NoEndpoints, NoAddr

\* open_* ends.
LEMMA ReturnTyped ==
    ASSUME NEW o \in {"ok", "threw"}, Return(o)
    PROVE  /\ pc' = "idle" /\ outcome' \in {"ok", "threw"}
           /\ want' \in Ids \cup {AnyDevice} /\ list' \in Seq(Devices) /\ i' \in Nat
  BY DEF Return

LEMMA FailTyped ==
    ASSUME TypeOK, pc # "idle", Fail
    PROVE  /\ pc' \in {"idle", "find"} /\ outcome' \in {"none", "ok", "threw"}
           /\ want' \in Ids \cup {AnyDevice} /\ list' \in Seq(Devices) /\ i' \in Nat
           /\ pc' # "idle" => i' \in 1..Len(list')
<1>1. CASE want = AnyDevice /\ i < Len(list)
  BY <1>1 DEF Fail, TypeOK
<1>2. CASE ~(want = AnyDevice /\ i < Len(list))
  BY <1>2, ReturnTyped DEF Fail
<1>3. QED
  BY <1>1, <1>2

LEMMA CloseHandleTyped ==
    ASSUME TypeOK, CloseHandle
    PROVE  /\ live' \subseteq live /\ claimed' \subseteq live' \X Interfaces
           /\ dev' = NoHandle
           /\ ifnum' \in Interfaces \cup {NoInterface}
           /\ eps' \in [in : Nat, out : Nat, intr : Nat]
<1>1. claimed' \subseteq live' \X Interfaces
  BY DEF TypeOK, CloseHandle
<1>2. QED
  BY <1>1 DEF TypeOK, CloseHandle, NoEndpoints, NoAddr

LEMMA OpenTyped ==
    ASSUME Typed, NEW w \in Ids \cup {AnyDevice}, Open(w)
    PROVE  Typed'
<1>1. /\ live' \subseteq live /\ claimed' \subseteq live' \X Interfaces
      /\ dev' = NoHandle
      /\ ifnum' \in Interfaces \cup {NoInterface}
      /\ eps' \in [in : Nat, out : Nat, intr : Nat]
  <2>1. CASE dev # NoHandle
    BY <2>1, CloseHandleTyped DEF Typed, Open
  <2>2. CASE dev = NoHandle
    BY <2>2 DEF Typed, TypeOK, Open, members
  <2>3. QED
    BY <2>1, <2>2
<1>2. /\ pc' \in {"idle", "find"} /\ outcome' \in {"none", "ok", "threw"}
      /\ want' \in Ids \cup {AnyDevice} /\ list' \in Seq(Devices) /\ i' \in Nat
      /\ pc' # "idle" => i' \in 1..Len(list')
  <2>1. CASE Return("threw")
    BY <2>1, ReturnTyped
  <2>2. CASE ~Return("threw")
    <3>1. PICK l \in Listings, k \in 1..Cardinality(plugged) :
             /\ FirstMatch(w, l, k)
             /\ want' = w /\ list' = l /\ i' = k
             /\ pc' = "find"
             /\ UNCHANGED outcome
      BY <2>2 DEF Open
    <3>2. l \in Seq(Devices)
      BY ListingType DEF Typed, TypeOK
    <3>3. k \in DOMAIN l
      BY <3>1 DEF FirstMatch, Matches
    <3>4. k \in 1..Len(l) /\ k \in Nat
      BY <3>2, <3>3
    <3>5. outcome \in {"none", "ok", "threw"}
      BY DEF Typed, TypeOK
    <3>6. QED
      BY <3>1, <3>2, <3>4, <3>5
  <2>3. QED
    BY <2>1, <2>2
<1>3. UNCHANGED <<plugged, driver, taken, opened, refused>>
  BY DEF Open, bus
<1>4. QED
  BY <1>1, <1>2, <1>3 DEF Typed, TypeOK

LEMMA FindTyped ==
    ASSUME Typed, Find
    PROVE  Typed'
<1>1. /\ pc = "find"
      /\ UNCHANGED <<plugged, driver, taken, opened, live, claimed, dev, refused>>
  BY DEF Find, bus, libusb
<1>2. CASE Fail /\ UNCHANGED <<ifnum, eps>>
  BY <1>1, <1>2, FailTyped DEF Typed, TypeOK
<1>3. CASE ~(Fail /\ UNCHANGED <<ifnum, eps>>)
  <2>1. /\ list[i] \in plugged /\ UsableAlts(list[i]) # {}
        /\ ifnum' = PtpAlt(list[i]).ifnum
        /\ eps' = EndpointsOf(PtpAlt(list[i]))
        /\ pc' = "open"
        /\ UNCHANGED <<want, list, i, outcome>>
    BY <1>3 DEF Find, loop
  <2>2. list[i] \in Devices
    BY <2>1 DEF Typed, TypeOK
  <2>3. ifnum' \in Interfaces /\ eps' \in [in : Nat, out : Nat, intr : Nat]
    BY <2>1, <2>2, FoundType
  <2>4. QED
    BY <1>1, <2>1, <2>3 DEF Typed, TypeOK
<1>4. QED
  BY <1>2, <1>3

LEMMA OpenHandleTyped ==
    ASSUME Typed, OpenHandle
    PROVE  Typed'
<1>1. pc = "open" /\ UNCHANGED <<plugged, driver, taken, claimed, ifnum, eps, refused>>
  BY DEF OpenHandle, bus
<1>2. CASE Fail /\ UNCHANGED <<opened, live, dev>>
  BY <1>1, <1>2, FailTyped DEF Typed, TypeOK
<1>3. CASE ~(Fail /\ UNCHANGED <<opened, live, dev>>)
  <2>1. /\ opened' = Append(opened, list[i])
        /\ live' = live \cup {Len(opened) + 1}
        /\ dev' = Len(opened) + 1
        /\ pc' = "detach"
        /\ UNCHANGED <<want, list, i, outcome>>
    BY <1>3 DEF OpenHandle, loop
  <2>2. list[i] \in Devices
    BY <1>1 DEF Typed, TypeOK
  <2>3. opened' \in Seq(Devices) /\ Len(opened') = Len(opened) + 1 /\ Len(opened) \in Nat
    BY <2>1, <2>2 DEF Typed, TypeOK
  <2>4. live' \subseteq 1..Len(opened') /\ dev' \in live'
    <3>1. \A h \in live : h \in 1..Len(opened')
      BY <2>3 DEF Typed, TypeOK
    <3>2. Len(opened) + 1 \in 1..Len(opened')
      BY <2>3
    <3>3. QED
      BY <2>1, <3>1, <3>2
  <2>5. refused' \in 0..Len(opened') /\ refused' < Len(opened')
    BY <1>1, <2>3 DEF Typed, TypeOK
  <2>6. claimed' \subseteq live' \X Interfaces
    BY <1>1, <2>1 DEF Typed, TypeOK
  <2>7. QED
    BY <1>1, <2>1, <2>3, <2>4, <2>5, <2>6 DEF Typed, TypeOK
<1>4. QED
  BY <1>2, <1>3

LEMMA DetachTyped ==
    ASSUME Typed, Detach
    PROVE  Typed'
<1>1. /\ pc = "detach" /\ pc' = "claim" /\ driver' \subseteq driver
      /\ UNCHANGED <<plugged, taken, opened, live, claimed, dev, ifnum, eps, want, list,
                     i, outcome, refused>>
  BY DEF Detach, libusb, members, loop
<1>2. QED
  BY <1>1 DEF Typed, TypeOK

LEMMA ClaimTyped ==
    ASSUME Typed, Claim
    PROVE  Typed'
<1>1. /\ pc = "claim" /\ dev \in live /\ ifnum \in Interfaces
      /\ UNCHANGED <<plugged, driver, taken, opened, live, dev, ifnum, eps>>
  BY DEF Typed, Claim, bus, members
<1>2. CASE Claimable
  <2>1. claimed' = claimed \cup {<<dev, ifnum>>} /\ Return("ok") /\ refused' = refused
    BY <1>2 DEF Claim
  <2>2. QED
    BY <1>1, <2>1, ReturnTyped DEF Typed, TypeOK
<1>3. CASE ~Claimable
  <2>1. Fail /\ refused' = refused + 1 /\ claimed' = claimed
    BY <1>3 DEF Claim
  <2>2. refused' \in 0..Len(opened')
    BY <1>1, <2>1 DEF Typed, TypeOK
  <2>3. QED
    BY <1>1, <2>1, <2>2, FailTyped DEF Typed, TypeOK
<1>4. QED
  BY <1>2, <1>3

LEMMA CloseTyped ==
    ASSUME Typed, Close
    PROVE  Typed'
<1>1. /\ pc' = "idle" /\ outcome' = "none"
      /\ UNCHANGED <<plugged, driver, taken, opened, want, list, i, refused>>
  BY DEF Close, bus, loop
<1>2. /\ live' \subseteq live /\ claimed' \subseteq live' \X Interfaces
      /\ dev' = NoHandle
      /\ ifnum' \in Interfaces \cup {NoInterface}
      /\ eps' \in [in : Nat, out : Nat, intr : Nat]
  BY CloseHandleTyped DEF Typed, Close
<1>3. QED
  BY <1>1, <1>2 DEF Typed, TypeOK

LEMMA BusTyped ==
    ASSUME Typed, Bus
    PROVE  Typed'
<1>1. UNCHANGED <<opened, live, claimed, dev, ifnum, eps, pc, want, list, i, outcome, refused>>
  BY DEF Bus, libusb, members, loop
<1>2. /\ plugged' \subseteq Devices
      /\ driver' \subseteq Devices \X Interfaces
      /\ taken' \subseteq Devices \X Interfaces
  BY DEF Typed, TypeOK, Bus, Plug, Unplug, OtherClaims, OtherReleases
<1>3. QED
  BY <1>1, <1>2 DEF Typed, TypeOK

LEMMA NextTyped == Typed /\ [Next]_vars => Typed'
<1> SUFFICES ASSUME Typed, [Next]_vars
             PROVE  Typed'
  OBVIOUS
<1>1. CASE UNCHANGED vars
  BY <1>1 DEF vars, bus, libusb, members, loop, Typed, TypeOK
<1>2. QED
  BY <1>1, OpenTyped, FindTyped, OpenHandleTyped, DetachTyped, ClaimTyped, CloseTyped,
     BusTyped DEF Next

\* Every variable has its type: the lookups find what they assign, the loop of
\* open_first stays in its list, and no handle is refused twice.
THEOREM TypeCorrect == Spec => []TypeOK
<1>1. Typed => TypeOK
  BY DEF Typed
<1>2. QED
  BY <1>1, InitTyped, NextTyped, PTL DEF Spec

-----------------------------------------------------------------------------
(***************************************************************************)
(* Handles.  While an open_* runs nothing is claimed, so the handles that  *)
(* are open are all bare; the only one that may be so without a refusal is *)
(* that of the candidate.  A claim that succeeds makes it the one that is  *)
(* not bare.                                                               *)
(***************************************************************************)

\* The one handle that no refusal accounts for.
Spare == IF pc \in {"detach", "claim"} \/ claimed # {} THEN 1 ELSE 0

Counted == Cardinality(live) <= refused + Spare

LEMMA LiveIsFinite ==
    ASSUME Typed
    PROVE  IsFiniteSet(live) /\ Cardinality(live) \in Nat /\ refused \in Nat
<1>1. Len(opened) \in Nat /\ live \subseteq 1..Len(opened) /\ refused \in Nat
  BY DEF Typed, TypeOK
<1>2. IsFiniteSet(1..Len(opened))
  BY <1>1, FS_Interval
<1>3. QED
  BY <1>1, <1>2, FS_Subset, FS_CardinalityType

\* Closing the handle frees what the claim had.
LEMMA CloseHandleCounted ==
    ASSUME Typed, IInv, Counted, pc = "idle", CloseHandle
    PROVE  Cardinality(live') \in Int /\ Cardinality(live') <= refused
<1>1. live' = live \ {dev}
  BY DEF CloseHandle
<1>2. IsFiniteSet(live) /\ Cardinality(live) \in Nat /\ refused \in Nat
  BY LiveIsFinite
<1>3. Cardinality(live') = IF dev \in live THEN Cardinality(live) - 1 ELSE Cardinality(live)
  BY <1>1, <1>2, FS_RemoveElement
<1>4. claimed # {} => dev \in live
  BY DEF Typed, TypeOK, IInv, Claims, ClaimsAreRecorded
<1>5. QED
  BY <1>2, <1>3, <1>4 DEF Counted, Spare

\* Where the refusals account for every handle there is one to spare.
LEMMA RefusalsSuffice ==
    ASSUME Cardinality(live') \in Int, refused' \in Nat, Cardinality(live') <= refused'
    PROVE  Counted'
<1>1. Spare' \in {0, 1}
  BY DEF Spare
<1>2. QED
  BY <1>1 DEF Counted

LEMMA CloseCounted ==
    ASSUME Typed, IInv, Counted, Close
    PROVE  Counted'
<1>1. /\ Cardinality(live') \in Int /\ Cardinality(live') <= refused
      /\ refused' = refused /\ refused \in Nat
  BY CloseHandleCounted, LiveIsFinite DEF Close
<1>2. QED
  BY <1>1, RefusalsSuffice

\* A new open_* closes the handle that had the claim.
LEMMA OpenCounted ==
    ASSUME Typed, IInv, Counted, NEW w \in Ids \cup {AnyDevice}, Open(w)
    PROVE  Counted'
<1>1. pc = "idle" /\ refused' = refused
  BY DEF Open
<1>2. Cardinality(live) \in Nat /\ refused \in Nat
  BY LiveIsFinite
<1>3. CASE dev # NoHandle
  <2>1. Cardinality(live') \in Int /\ Cardinality(live') <= refused
    BY <1>1, <1>3, CloseHandleCounted DEF Open
  <2>2. QED
    BY <1>1, <1>2, <2>1, RefusalsSuffice
<1>4. CASE dev = NoHandle
  <2>1. claimed = {} /\ live' = live
    BY <1>4 DEF Open, IInv, Claims
  <2>2. Cardinality(live) <= refused
    BY <1>1, <1>2, <2>1 DEF Counted, Spare
  <2>3. QED
    BY <1>1, <1>2, <2>1, <2>2, RefusalsSuffice
<1>5. QED
  BY <1>3, <1>4

\* Before the handle of a candidate is open there is none to spare.
LEMMA NoneSpare ==
    ASSUME Typed, IInv, Counted, pc \in {"find", "open"}
    PROVE  Cardinality(live) <= refused
<1>1. claimed = {}
  BY DEF IInv, Claims
<1>2. QED
  BY <1>1, LiveIsFinite DEF Counted, Spare

LEMMA FindCounted ==
    ASSUME Typed, IInv, Counted, Find
    PROVE  Counted'
<1>1. pc = "find" /\ live' = live /\ refused' = refused
  BY DEF Find, libusb
<1>2. Cardinality(live) \in Nat /\ refused \in Nat
  BY LiveIsFinite
<1>3. QED
  BY <1>1, <1>2, NoneSpare, RefusalsSuffice

LEMMA OpenHandleCounted ==
    ASSUME Typed, IInv, Counted, OpenHandle
    PROVE  Counted'
<1>1. pc = "open" /\ refused' = refused
  BY DEF OpenHandle
<1>2. IsFiniteSet(live) /\ Cardinality(live) \in Nat /\ refused \in Nat
  BY LiveIsFinite
<1>3. Cardinality(live) <= refused
  BY <1>1, NoneSpare
<1>4. CASE live' = live
  BY <1>1, <1>2, <1>3, <1>4, RefusalsSuffice
<1>5. CASE live' # live
  <2>1. live' = live \cup {Len(opened) + 1} /\ pc' = "detach"
    BY <1>5 DEF OpenHandle
  <2>2. Len(opened) + 1 \notin live
    BY DEF Typed, TypeOK
  <2>3. Cardinality(live') = Cardinality(live) + 1
    BY <1>2, <2>1, <2>2, FS_AddElement
  <2>4. Spare' = 1
    BY <2>1 DEF Spare
  <2>5. QED
    BY <1>1, <1>2, <1>3, <2>3, <2>4 DEF Counted
<1>6. QED
  BY <1>4, <1>5

LEMMA DetachCounted ==
    ASSUME Typed, IInv, Counted, Detach
    PROVE  Counted'
  BY DEF Detach, libusb, Counted, Spare

\* A claim makes the spare handle the one with the claim, or one refused.
LEMMA ClaimCounted ==
    ASSUME Typed, IInv, Counted, Claim
    PROVE  Counted'
<1>1. live' = live /\ Cardinality(live) \in Nat /\ refused \in Nat
  BY LiveIsFinite DEF Claim
<1>2. Cardinality(live) <= refused + 1
  BY DEF Claim, Counted, Spare
<1>3. CASE Claimable
  <2>1. refused' = refused /\ claimed' # {}
    BY <1>3 DEF Claim
  <2>2. QED
    BY <1>1, <1>2, <2>1 DEF Counted, Spare
<1>4. CASE ~Claimable
  <2>1. refused' = refused + 1
    BY <1>4 DEF Claim
  <2>2. QED
    BY <1>1, <1>2, <2>1, RefusalsSuffice
<1>5. QED
  BY <1>3, <1>4

LEMMA NextCounted == Typed /\ IInv /\ Counted /\ [Next]_vars => Counted'
<1> SUFFICES ASSUME Typed, IInv, Counted, [Next]_vars
             PROVE  Counted'
  OBVIOUS
<1>1. CASE Bus \/ UNCHANGED vars
  BY <1>1 DEF Bus, vars, libusb, Counted, Spare
<1>2. QED
  BY <1>1, CloseCounted, OpenCounted, FindCounted, OpenHandleCounted, DetachCounted,
     ClaimCounted DEF Next

\* With a claim, the handle that has it is not bare.
LEMMA CountedSuffices == Typed /\ IInv /\ Counted => HandlesAccounted
<1> SUFFICES ASSUME Typed, IInv, Counted
             PROVE  HandlesAccounted
  OBVIOUS
<1> DEFINE bare == {h \in live : h # dev \/ <<h, ifnum>> \notin claimed}
<1>1. IsFiniteSet(live) /\ Cardinality(live) \in Nat /\ refused \in Nat
  BY LiveIsFinite
<1>2. CASE claimed = {}
  <2>1. bare = live
    BY <1>2
  <2>2. QED
    BY <1>1, <1>2, <2>1 DEF HandlesAccounted, Counted, Spare
<1>3. CASE claimed # {}
  <2>1. pc = "idle" /\ dev \in live /\ claimed = {<<dev, ifnum>>}
    BY <1>3 DEF Typed, TypeOK, IInv, Claims, ClaimsAreRecorded
  <2>2. bare = live \ {dev}
    BY <2>1
  <2>3. Cardinality(bare) = Cardinality(live) - 1
    BY <1>1, <2>1, <2>2, FS_RemoveElement
  <2>4. Cardinality(live) <= refused + 1
    BY <1>3 DEF Counted, Spare
  <2>5. QED
    BY <1>1, <2>1, <2>3, <2>4 DEF HandlesAccounted
<1>4. QED
  BY <1>2, <1>3

\* No failure but a refused claim leaks a handle, in no sequence of calls and
\* whatever other programs do in between.
THEOREM AccountedHandles == Spec => []HandlesAccounted
<1>1. Init => Counted
  BY FS_EmptySet DEF Init, Counted, Spare
<1>2. QED
  BY <1>1, InitTyped, NextTyped, InitIInv, NextIInv, NextCounted, CountedSuffices, PTL
     DEF Spec

=============================================================================
