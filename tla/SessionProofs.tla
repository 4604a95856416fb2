----------------------------- MODULE SessionProofs -----------------------------
(***************************************************************************)
(* Proofs about Session.  The types hold however often the programs are      *)
(* started.  That the two sides agree takes a host that is started once on a *)
(* fresh region (FirstHost); on a region left over from a session before, or *)
(* under a second host, the runs show that they need not.                    *)
(***************************************************************************)
EXTENDS Session, ModularArithmetic

(* Where each side is in its sequence of stores or loads.                    *)
Steps ==
  /\ hpc = "init" => hstep \in 1 .. 8
  /\ hpc = "poll" => hstep \in 1 .. 4
  /\ hpc = "video" => hstep = 1
  /\ hpc \in {"init", "video", "poll", "play"} => hcap # 0
  /\ vpc \in {"attach", "format"} => vstep \in 1 .. 4
  /\ vpc \in {"format", "stream"} => vfmt \in Formats

TypeInv == TypeOK /\ Steps

(* The sizes a ring may have, as numbers.                                    *)
LEMMA PowersAreNatural ==
  ASSUME NEW n \in Nat
  PROVE  PowersOfTwo(n) \subseteq Nat \ {0}
  BY DEF PowersOfTwo

(* Twice a power of two is one: an odd divisor of 2 * p divides p.           *)
LEMMA PowersDouble ==
  ASSUME NEW n \in Nat, NEW p \in PowersOfTwo(n), 2 * p <= n
  PROVE  2 * p \in PowersOfTwo(n)
<1>1. p \in Nat \ {0} /\ \A d \in 2 .. p : p % d = 0 => d % 2 = 0
  BY DEF PowersOfTwo
<1>2. ASSUME NEW d \in 2 .. 2 * p, (2 * p) % d = 0, d % 2 # 0
      PROVE  FALSE
  <2> DEFINE q == (2 * p) \div d
             e == d \div 2
             r == p - e * q
  <2>1. 2 * p = d * q /\ q \in Int /\ d \in Nat \ {0} /\ 2 * p \in Int
    <3> DEFINE b == 2 * p
    <3>1. b \in Int /\ d \in Nat \ {0} /\ b % d = 0
      BY <1>1, <1>2
    <3> HIDE DEF b
    <3>2. b = d * (b \div d) /\ b \div d \in Int
      BY <3>1, DivMod
    <3> QED
      BY <3>1, <3>2 DEF b
  <2>2. d = 2 * e + 1 /\ e \in Int
    BY <1>2, DivMod
  <2> HIDE DEF q, e
  <2>3. e * q \in Int /\ d * q = 2 * (e * q) + q
    BY <2>1, <2>2
  <2>4. r \in Int /\ q = 2 * r
    BY <1>1, <2>1, <2>3
  <2> HIDE DEF r
  <2>5. p = d * r
    <3>1. d * q = 2 * (d * r)
      BY <2>1, <2>4
    <3>2. d * r \in Int
      BY <2>1, <2>4
    <3> QED
      BY <1>1, <2>1, <3>1, <3>2
  <2>6. p % d = 0
    BY <2>1, <2>4, <2>5, MultipleAligned
  <2>7. d <= p
    <3> SUFFICES ASSUME p < d PROVE FALSE
      BY <1>1, <2>1
    <3>1. d * r < d /\ d * r > -d
      BY <1>1, <2>1, <2>5
    <3>2. r = 0
      BY <2>1, <2>4, <3>1, SmallMultiple
    <3> QED
      BY <1>1, <2>1, <2>5, <3>2
  <2> QED
    BY <1>1, <1>2, <2>1, <2>6, <2>7
<1> QED
  BY <1>1, <1>2 DEF PowersOfTwo

(* So the largest of them that is not above a size is more than half of it:  *)
(* prev_power_of_two has an answer for every size.                           *)
LEMMA PowersReach ==
  ASSUME NEW size \in Nat \ {0}
  PROVE  \E p \in PowersOfTwo(size) : size < 2 * p
<1> DEFINE T == {x \in Nat : \E p \in PowersOfTwo(size) : x = size - p}
<1>1. 1 \in PowersOfTwo(size)
  BY DEF PowersOfTwo
<1>2. size - 1 \in T
  BY <1>1
<1>3. PICK x \in T : \A y \in T : x <= y
  <2>1. T \in SUBSET Nat /\ T # {}
    BY <1>2
  <2> HIDE DEF T
  <2> QED
    BY <2>1, LeastNatural
<1>4. PICK p \in PowersOfTwo(size) : x = size - p
  OBVIOUS
<1>5. p \in Nat \ {0}
  BY PowersAreNatural
<1>6. ASSUME 2 * p <= size PROVE FALSE
  <2>1. 2 * p \in PowersOfTwo(size)
    BY <1>6, PowersDouble
  <2>2. size - 2 * p \in T
    BY <1>5, <1>6, <2>1
  <2>3. x <= size - 2 * p
    BY <1>3, <2>2
  <2> QED
    BY <1>4, <1>5, <2>3
<1> QED
  BY <1>4, <1>5, <1>6

(* Every host that goes on makes a ring of such a size, within the region.   *)
LEMMA RingsArePowers ==
  ASSUME total \in Nat, NEW video \in BOOLEAN, ~ TooSmall(video)
  PROVE  RingOf(video) \in PowersOfTwo(total) /\ RingOf(video) # 0
<1> DEFINE m == IF video THEN AudioBytes ELSE total
<1>1. m \in Nat \ {0} /\ m <= total
  BY SizesAreNatural DEF TooSmall
<1> HIDE DEF m
<1>2. PrevPowerOfTwo(m) \in PowersOfTwo(m)
  BY <1>1, PowersReach DEF PrevPowerOfTwo
<1>3. \A p \in PowersOfTwo(m) : p \in PowersOfTwo(total) /\ p # 0
  BY <1>1 DEF PowersOfTwo
<1> QED
  BY <1>2, <1>3 DEF RingOf, m

(* The stores and the loads, one by one.                                     *)
LEMMA StoreOfInit ==
  ASSUME HostInit, hstep \in 1 .. 8, hdr \in [Fields -> Nat]
  PROVE  \/ hstep = 1 /\ hdr' = [hdr EXCEPT !["header_size"] = HeaderSize]
         \/ hstep = 2 /\ hdr' = [hdr EXCEPT !["capacity"] = hcap]
         \/ hstep = 3 /\ hdr' = [hdr EXCEPT !["sample_rate"] = 0]
         \/ hstep = 4 /\ hdr' = [hdr EXCEPT !["channels"] = 0]
         \/ hstep = 5 /\ hdr' = [hdr EXCEPT !["format"] = 0]
         \/ hstep = 6 /\ hdr' = [hdr EXCEPT !["frame_bytes"] = 0]
         \/ hstep = 7 /\ hdr' = [hdr EXCEPT !["version"] = Version]
         \/ hstep = 8 /\ hdr' = [hdr EXCEPT !["magic"] = Magic]
<1>1. hdr' = [hdr EXCEPT ![InitStores(hcap)[hstep][1]] = InitStores(hcap)[hstep][2]]
  BY DEF HostInit, Put
<1>2. CASE hstep = 1
  BY <1>1, <1>2 DEF InitStores
<1>3. CASE hstep = 2
  BY <1>1, <1>3 DEF InitStores
<1>4. CASE hstep = 3
  BY <1>1, <1>4 DEF InitStores
<1>5. CASE hstep = 4
  BY <1>1, <1>5 DEF InitStores
<1>6. CASE hstep = 5
  BY <1>1, <1>6 DEF InitStores
<1>7. CASE hstep = 6
  BY <1>1, <1>7 DEF InitStores
<1>8. CASE hstep = 7
  BY <1>1, <1>8 DEF InitStores
<1>9. CASE hstep = 8
  BY <1>1, <1>9 DEF InitStores
<1> QED
  BY <1>2, <1>3, <1>4, <1>5, <1>6, <1>7, <1>8, <1>9

LEMMA StoreOfFormat ==
  ASSUME VmFormat, vstep \in 1 .. 4
  PROVE  \/ vstep = 1 /\ hdr' = [hdr EXCEPT !["sample_rate"] = vfmt.sample_rate]
         \/ vstep = 2 /\ hdr' = [hdr EXCEPT !["channels"] = vfmt.channels]
         \/ vstep = 3 /\ hdr' = [hdr EXCEPT !["format"] = vfmt.format]
         \/ vstep = 4 /\ hdr' = [hdr EXCEPT !["frame_bytes"] = vfmt.frame_bytes]
<1>1. hdr' = [hdr EXCEPT ![FormatStores(vfmt)[vstep][1]] = FormatStores(vfmt)[vstep][2]]
  BY DEF VmFormat, Put
<1>2. CASE vstep = 1
  BY <1>1, <1>2 DEF FormatStores
<1>3. CASE vstep = 2
  BY <1>1, <1>3 DEF FormatStores
<1>4. CASE vstep = 3
  BY <1>1, <1>4 DEF FormatStores
<1>5. CASE vstep = 4
  BY <1>1, <1>5 DEF FormatStores
<1> QED
  BY <1>2, <1>3, <1>4, <1>5

LEMMA LoadOrders ==
  /\ \A i \in 1 .. 4 : AttachLoads[i] \in Fields /\ FormatLoads[i] \in FormatFields
  /\ AttachLoads[1] = "magic" /\ AttachLoads[4] = "capacity"
  /\ \A i \in 1 .. 4 : AttachLoads[i] = "capacity" => i = 4
  /\ FormatLoads[1] = "frame_bytes" /\ FormatLoads[2] = "format"
  /\ FormatLoads[3] = "sample_rate" /\ FormatLoads[4] = "channels"
  /\ Len(AttachLoads) = 4 /\ Len(FormatLoads) = 4
  BY DEF AttachLoads, FormatLoads, Fields, FormatFields

LEMMA Lengths ==
  (\A c : Len(InitStores(c)) = 8) /\ (\A f : Len(FormatStores(f)) = 4)
  BY DEF InitStores, FormatStores

-----------------------------------------------------------------------------
(* THE TYPES                                                                 *)

LEMMA FormatsAreTyped ==
  ASSUME NEW f \in Formats
  PROVE  /\ f \in [FormatFields -> Nat]
         /\ f.sample_rate \in Nat /\ f.channels \in Nat /\ f.format \in Nat
         /\ f.frame_bytes \in Nat /\ f.frame_bytes # 0 /\ f.format \in 0 .. 2
<1>1. f \in [FormatFields -> Nat] /\ f["frame_bytes"] # 0 /\ f["format"] \in 0 .. 2
  BY FormatsArePublishable
<1> QED
  BY <1>1 DEF FormatFields

LEMMA NoFormatTyped == NoFormat \in [FormatFields -> Nat]
  BY DEF NoFormat

LEMMA InitTypes == Init => TypeInv
<1> SUFFICES ASSUME Init PROVE TypeInv
  OBVIOUS
<1>0. total \in Totals /\ total \in Nat
  BY SizesAreNatural DEF Init
<1>1. hdr \in [Fields -> Nat] /\ videoMagic \in BOOLEAN
  <2>1. CASE hdr = FreshHeader /\ videoMagic = FALSE
    BY <2>1 DEF FreshHeader
  <2>2. ASSUME NEW video \in HostVideo, NEW fmt \in Formats,
               ~ TooSmall(video),
               hdr = LeftHeader(RingOf(video), fmt), videoMagic = (video /\ RoomForVideo)
        PROVE  hdr \in [Fields -> Nat] /\ videoMagic \in BOOLEAN
    <3>1. RingOf(video) \in Nat
      <4>1. video \in BOOLEAN
        BY ChoicesAndBounds
      <4> QED
        BY <1>0, <2>2, <4>1, RingsArePowers, PowersAreNatural
    <3>2. \A f \in FormatFields : fmt[f] \in Nat
      BY FormatsAreTyped
    <3>3. \A f \in Fields : LeftHeader(RingOf(video), fmt)[f] \in Nat
      BY <3>1, <3>2 DEF LeftHeader, Fields, Magic, Version, HeaderSize
    <3>4. LeftHeader(RingOf(video), fmt) \in [Fields -> Nat]
      BY <3>3 DEF LeftHeader
    <3> QED
      BY <2>2, <3>4, ChoicesAndBounds
  <2> QED
    BY <2>1, <2>2 DEF Init
<1>2. 0 \in 0 .. MaxHostRuns /\ 0 \in 0 .. MaxVmRuns
  BY ChoicesAndBounds
<1>3. /\ hpc = "off" /\ hstep = 0 /\ hcap = 0 /\ hvideo = FALSE /\ hfmt = NoFormat /\ hruns = 0
      /\ vpc = "off" /\ vstep = 0 /\ vcap = 0 /\ vvideo = FALSE /\ vfmt = NoFormat /\ vruns = 0
  BY DEF Init
<1>4. hcap \in {0} \cup PowersOfTwo(total) /\ vcap \in {0} \cup PowersOfTwo(total)
  BY <1>3
<1>5. hstep \in 0 .. 8 /\ vstep \in 0 .. 4
  BY <1>3
<1>6. hvideo \in BOOLEAN /\ vvideo \in BOOLEAN
  BY <1>3
<1>7. hruns \in 0 .. MaxHostRuns /\ vruns \in 0 .. MaxVmRuns
  BY <1>2, <1>3
<1>8. hfmt \in [FormatFields -> Nat] /\ vfmt \in [FormatFields -> Nat]
  BY <1>3, NoFormatTyped
<1>9. TypeOK
  BY <1>0, <1>1, <1>3, <1>4, <1>5, <1>6, <1>7, <1>8 DEF TypeOK
<1> QED
  BY <1>3, <1>9 DEF TypeInv, Steps

LEMMA HostTypes ==
  ASSUME TypeInv, (\E video \in HostVideo : HostStart(video)) \/ HostStep
  PROVE  TypeInv'
<1> USE DEF TypeInv, TypeOK, Steps, vm
<1>0. total \in Nat
  BY SizesAreNatural
<1>1. ASSUME NEW video \in HostVideo, HostStart(video)
      PROVE  TypeInv'
  <2>1. video \in BOOLEAN /\ hruns' \in 0 .. MaxHostRuns
    BY <1>1, ChoicesAndBounds DEF HostStart
  <2>2. CASE TooSmall(video)
    BY <1>1, <2>1, <2>2, NoFormatTyped DEF HostStart
  <2>3. CASE ~ TooSmall(video)
    <3>1. hcap' \in PowersOfTwo(total) /\ hcap' # 0
      BY <1>0, <1>1, <2>1, <2>3, RingsArePowers DEF HostStart
    <3> QED
      BY <1>1, <2>1, <2>3, <3>1, NoFormatTyped DEF HostStart
  <2> QED
    BY <2>2, <2>3
<1>2. CASE HostInit
  <2>1. hstep \in 1 .. 8 /\ hcap \in Nat
    BY <1>0, <1>2, PowersAreNatural DEF HostInit
  <2>2. hdr' \in [Fields -> Nat]
    BY <1>2, <2>1, StoreOfInit DEF Fields, FormatFields, Magic, Version, HeaderSize
  <2>3. \/ hstep < 8 /\ hstep' = hstep + 1 /\ hpc' = "init"
        \/ hstep' = 1 /\ hpc' \in {"video", "poll"}
    BY <1>2, Lengths DEF HostInit
  <2>4. UNCHANGED <<videoMagic, hcap, hvideo, hfmt, hruns, vm, total>>
    BY <1>2 DEF HostInit
  <2>5. /\ hstep' \in 1 .. 8 /\ hpc' \in {"init", "video", "poll"}
        /\ hpc' \in {"video", "poll"} => hstep' = 1
    BY <2>1, <2>3
  <2>6. hcap # 0
    BY <1>2 DEF HostInit
  <2> QED
    BY <2>2, <2>4, <2>5, <2>6
<1>3. CASE HostVideoInit
  <2>1. CASE RoomForVideo
    BY <1>3, <2>1 DEF HostVideoInit
  <2>2. CASE ~ RoomForVideo
    BY <1>3, <2>2 DEF HostVideoInit
  <2> QED
    BY <2>1, <2>2
<1>4. CASE HostPoll
  <2> DEFINE field == FormatLoads[hstep]
             v     == hdr[field]
  <2>1. hstep \in 1 .. 4 /\ field \in FormatFields
    BY <1>4, LoadOrders DEF HostPoll
  <2>2. v \in Nat
    BY <2>1 DEF Fields
  <2>3. hfmt' = [hfmt EXCEPT ![field] = v] \/ hfmt' = NoFormat
    BY <1>4 DEF HostPoll
  <2>4. \/ hstep < 4 /\ hstep' = hstep + 1 /\ hpc' = "poll"
        \/ hstep' = 1 /\ hpc' \in {"poll", "play"}
    BY <1>4, LoadOrders DEF HostPoll
  <2> HIDE DEF field, v
  <2>5. hfmt' \in [FormatFields -> Nat]
    BY <2>1, <2>2, <2>3, NoFormatTyped
  <2>6. UNCHANGED <<hdr, videoMagic, hcap, hvideo, hruns, vm, total>>
    BY <1>4 DEF HostPoll
  <2>7. hstep' \in 1 .. 4 /\ hpc' \in {"poll", "play"}
    BY <2>1, <2>4
  <2>8. hcap # 0
    BY <1>4 DEF HostPoll
  <2> QED
    BY <2>5, <2>6, <2>7, <2>8
<1> QED
  BY <1>1, <1>2, <1>3, <1>4 DEF HostStep

LEMMA VmTypes ==
  ASSUME TypeInv, (\E video \in VmVideo : VmStart(video)) \/ VmStep \/ VmEnd
  PROVE  TypeInv'
<1> USE DEF TypeInv, TypeOK, Steps, host
<1>1. ASSUME NEW video \in VmVideo, VmStart(video)
      PROVE  TypeInv'
  <2>1. video \in BOOLEAN /\ vruns' \in 0 .. MaxVmRuns
    BY <1>1, ChoicesAndBounds DEF VmStart
  <2> QED
    BY <1>1, <2>1, NoFormatTyped DEF VmStart
<1>2. CASE VmAttach
  <2>1. vcap' \in {0} \cup PowersOfTwo(total)
    BY <1>2 DEF VmAttach, Valid
  <2>2. \/ vstep < 4 /\ vstep' = vstep + 1 /\ vpc' = "attach"
        \/ vstep' = 1 /\ vpc' \in {"attach", "video", "open"}
    BY <1>2, LoadOrders DEF VmAttach
  <2>3. UNCHANGED <<hdr, videoMagic, vvideo, vfmt, vruns, host, total>>
    BY <1>2 DEF VmAttach
  <2>4. vstep' \in 1 .. 4 /\ vpc' \in {"attach", "video", "open"}
    BY <1>2, <2>2 DEF VmAttach
  <2> QED
    BY <2>1, <2>3, <2>4
<1>3. CASE VmVideoAttach
  BY <1>3 DEF VmVideoAttach
<1>4. ASSUME NEW fmt \in Formats, VmNegotiate(fmt)
      PROVE  TypeInv'
  BY <1>4, FormatsAreTyped DEF VmNegotiate
<1>5. CASE VmFormat
  <2>1. vstep \in 1 .. 4 /\ vfmt \in Formats
    BY <1>5 DEF VmFormat
  <2>2. hdr' \in [Fields -> Nat]
    BY <1>5, <2>1, StoreOfFormat, FormatsAreTyped
  <2>3. \/ vstep < 4 /\ vstep' = vstep + 1 /\ vpc' = "format"
        \/ vstep' = 1 /\ vpc' = "stream"
    BY <1>5, Lengths DEF VmFormat
  <2> QED
    BY <1>5, <2>1, <2>2, <2>3 DEF VmFormat
<1>6. CASE VmEnd
  BY <1>6 DEF VmEnd
<1> QED
  BY <1>1, <1>2, <1>3, <1>4, <1>5, <1>6 DEF VmStep

LEMMA StepTypes == TypeInv /\ [Next]_vars => TypeInv'
<1>1. TypeInv /\ UNCHANGED vars => TypeInv'
  BY DEF TypeInv, TypeOK, Steps, vars
<1> QED
  BY <1>1, HostTypes, VmTypes DEF Next

(* The types, for every use of the two programs.                             *)
THEOREM SessionTypeCorrect == Spec => []TypeOK
<1>1. Spec => []TypeInv
  BY InitTypes, StepTypes, PTL DEF Spec
<1>2. TypeInv => TypeOK
  BY DEF TypeInv
<1> QED
  BY <1>1, <1>2, PTL

-----------------------------------------------------------------------------
(* ONE HOST ON A FRESH REGION                                                *)

FirstHost == MaxHostRuns <= 1 /\ Leftover \subseteq {FALSE}

(* The magic is the last store of init and the first load of attach, so the  *)
(* VM is at that load until the header is complete, ring and all.            *)
RingInv ==
  /\ hpc # "off" => hruns >= 1
  /\ hpc \in {"off", "init"} \/ hcap = 0 =>
       hdr["magic"] = 0 /\ vpc \in {"off", "attach"} /\ (vpc = "attach" => vstep = 1)
  /\ hpc = "init" /\ hstep > 2 => hdr["capacity"] = hcap
  /\ hpc \notin {"off", "init"} /\ hcap # 0 => hdr["capacity"] = hcap
  /\ Attached => vcap = hcap

LEMMA InitRing == FirstHost /\ Init => RingInv
<1> SUFFICES ASSUME FirstHost, Init PROVE RingInv
  OBVIOUS
<1>1. hdr = FreshHeader
  BY DEF Init, FirstHost
<1>2. hdr["magic"] = 0
  BY <1>1 DEF FreshHeader, Fields
<1> QED
  BY <1>2 DEF Init, RingInv, Attached

LEMMA StepRing ==
  ASSUME FirstHost, TypeInv, RingInv, [Next]_vars
  PROVE  RingInv'
<1> USE DEF RingInv, Attached
<1>0. hdr \in [Fields -> Nat] /\ {"magic", "capacity"} \subseteq Fields
  BY DEF TypeInv, TypeOK, Fields
<1>1. ASSUME NEW video \in HostVideo, HostStart(video)
      PROVE  RingInv'
  <2>1. hruns = 0 /\ hruns' = 1
    BY <1>1, ChoicesAndBounds DEF HostStart, FirstHost, TypeInv, TypeOK
  <2>2. hpc = "off"
    BY <2>1
  <2> QED
    BY <1>1, <2>1, <2>2 DEF HostStart, vm
<1>2. CASE HostInit
  <2>1. hstep \in 1 .. 8 /\ hcap # 0
    BY <1>2 DEF HostInit, TypeInv, Steps
  <2>2. /\ hstep # 8 => hdr'["magic"] = hdr["magic"]
        /\ hstep = 2 => hdr'["capacity"] = hcap
        /\ hstep # 2 => hdr'["capacity"] = hdr["capacity"]
    BY <1>0, <1>2, <2>1, StoreOfInit
  <2>3. \/ hstep < 8 /\ hstep' = hstep + 1 /\ hpc' = "init"
        \/ hstep = 8 /\ hpc' \in {"video", "poll"}
    <3>1. \/ hstep < 8 /\ hstep' = hstep + 1 /\ hpc' = hpc
          \/ ~ (hstep < 8) /\ hpc' \in {"video", "poll"}
      BY <1>2, Lengths DEF HostInit
    <3> QED
      BY <1>2, <2>1, <3>1 DEF HostInit
  <2> QED
    BY <1>2, <2>1, <2>2, <2>3 DEF HostInit, vm
<1>3. CASE HostVideoInit
  BY <1>3 DEF HostVideoInit, vm
<1>4. CASE HostPoll
  <2>1. hpc = "poll" /\ hpc' \in {"poll", "play"} /\ UNCHANGED <<hdr, hcap, hruns, vm>>
    BY <1>4 DEF HostPoll
  <2> QED
    BY <2>1 DEF vm
<1>5. ASSUME NEW video \in VmVideo, VmStart(video)
      PROVE  RingInv'
  BY <1>5 DEF VmStart, host
<1>6. CASE VmAttach
  <2>1. vstep \in 1 .. 4
    BY <1>6 DEF VmAttach, TypeInv, Steps
  <2>2. CASE hpc \in {"off", "init"} \/ hcap = 0
    <3>1. vstep = 1 /\ AttachLoads[vstep] = "magic" /\ hdr["magic"] # Magic
      BY <1>6, <2>2, LoadOrders DEF VmAttach, Magic
    <3>2. ~ Valid(AttachLoads[vstep], hdr[AttachLoads[vstep]])
      BY <3>1 DEF Valid
    <3>3. vstep' = 1 /\ vpc' = "attach"
      BY <1>6, <3>2 DEF VmAttach
    <3> QED
      BY <1>6, <2>2, <3>3 DEF VmAttach, host
  <2>3. CASE hpc \notin {"off", "init"} /\ hcap # 0
    <3>1. vpc' # "attach" => vcap' = hdr["capacity"] /\ vpc' \in {"video", "open"}
      BY <1>6, <2>1, LoadOrders DEF VmAttach
    <3> QED
      BY <1>6, <2>3, <3>1 DEF VmAttach, host
  <2> QED
    BY <2>2, <2>3
<1>7. CASE VmVideoAttach
  BY <1>7 DEF VmVideoAttach, host
<1>8. ASSUME NEW fmt \in Formats, VmNegotiate(fmt)
      PROVE  RingInv'
  BY <1>8 DEF VmNegotiate, host
<1>9. CASE VmFormat
  <2>1. vstep \in 1 .. 4
    BY <1>9 DEF VmFormat, TypeInv, Steps
  <2>2. hdr'["magic"] = hdr["magic"] /\ hdr'["capacity"] = hdr["capacity"]
    BY <1>0, <1>9, <2>1, StoreOfFormat
  <2>3. vpc = "format" /\ vpc' \in {"format", "stream"}
    BY <1>9 DEF VmFormat
  <2> QED
    BY <1>9, <2>2, <2>3 DEF VmFormat, host
<1>10. CASE VmEnd
  BY <1>10 DEF VmEnd, host
<1>11. CASE UNCHANGED vars
  BY <1>11 DEF vars
<1> QED
  BY <1>1, <1>2, <1>3, <1>4, <1>5, <1>6, <1>7, <1>8, <1>9, <1>10, <1>11
  DEF Next, HostStep, VmStep

LEMMA RingAlways ==
  ASSUME FirstHost
  PROVE  Spec => [](TypeInv /\ RingInv)
  BY InitTypes, StepTypes, InitRing, StepRing, PTL DEF Spec

(* init keeps its contract: nobody is attached yet.                          *)
THEOREM FirstInitAlone ==
  ASSUME FirstHost
  PROVE  Spec => []InitAlone
<1>1. TypeInv /\ RingInv => InitAlone
  BY DEF RingInv, InitAlone, Attached
<1> QED
  BY <1>1, RingAlways, PTL

(***************************************************************************)
(* The mask arithmetic is identical on both sides, for every size of the     *)
(* region, whether each side has video or not and however often the VM is    *)
(* started.                                                                  *)
(***************************************************************************)
THEOREM FirstRingsAgree ==
  ASSUME FirstHost
  PROVE  Spec => []RingsAgree
<1>1. TypeInv /\ RingInv => RingsAgree
  BY DEF RingInv, RingsAgree
<1> QED
  BY <1>1, RingAlways, PTL

-----------------------------------------------------------------------------
(* ONE FORMAT                                                                *)

(* The captures all settle on the same format.                               *)
SameFormat == \A f, g \in Formats : f = g

(* Until the host has initialized the header it holds no format.             *)
Unset == hpc \in {"off", "init"} => \A x \in FormatFields : hdr[x] = 0

(* The header's fields are unset or that format's, and all of them set once  *)
(* the gate is; publishing it again changes nothing the host could be        *)
(* reading.                                                                  *)
FormatInv ==
  \A f \in Formats :
    /\ \A x \in FormatFields : hdr[x] \in {0, f[x]}
    /\ hdr["frame_bytes"] # 0 => \A x \in FormatFields : hdr[x] = f[x]
    /\ vpc = "format" => /\ vstep > 1 => hdr["sample_rate"] = f["sample_rate"]
                         /\ vstep > 2 => hdr["channels"] = f["channels"]
                         /\ vstep > 3 => hdr["format"] = f["format"]
    /\ hpc = "poll" => /\ hstep > 1 => /\ hdr["frame_bytes"] # 0
                                       /\ hfmt["frame_bytes"] = f["frame_bytes"]
                       /\ hstep > 2 => hfmt["format"] = f["format"]
                       /\ hstep > 3 => hfmt["sample_rate"] = f["sample_rate"]
    /\ hpc = "play" => hfmt = f

LEMMA InitFormat == FirstHost /\ Init => Unset /\ FormatInv
<1> SUFFICES ASSUME FirstHost, Init PROVE Unset /\ FormatInv
  OBVIOUS
<1>1. hdr = FreshHeader
  BY DEF Init, FirstHost
<1>2. \A x \in FormatFields : hdr[x] = 0
  BY <1>1 DEF FreshHeader, Fields
<1>3. "frame_bytes" \in FormatFields /\ hpc = "off" /\ vpc = "off"
  BY DEF FormatFields, Init
<1> QED
  BY <1>2, <1>3 DEF Unset, FormatInv

(* What the format part needs of a step that stores nothing the host loads.  *)
LEMMA SameHeader ==
  ASSUME FormatInv, \A x \in FormatFields : hdr'[x] = hdr[x],
         UNCHANGED <<hstep, hfmt>>, hpc' = hpc, vpc' # "format" \/ vstep' = 1
  PROVE  FormatInv'
<1>1. {"sample_rate", "channels", "format", "frame_bytes"} = FormatFields
  BY DEF FormatFields
<1>2. 1 \in Nat /\ ~ (1 > 1) /\ ~ (1 > 2) /\ ~ (1 > 3)
  OBVIOUS
<1> QED
  BY <1>1, <1>2 DEF FormatInv

(* A store of set_format.                                                    *)
LEMMA FormatStoreKeeps ==
  ASSUME SameFormat, TypeInv, RingInv, FormatInv, VmFormat
  PROVE  FormatInv'
<1> SUFFICES ASSUME NEW f \in Formats
    PROVE  /\ \A x \in FormatFields : hdr'[x] \in {0, f[x]}
           /\ hdr'["frame_bytes"] # 0 => \A x \in FormatFields : hdr'[x] = f[x]
           /\ vpc' = "format" => /\ vstep' > 1 => hdr'["sample_rate"] = f["sample_rate"]
                                 /\ vstep' > 2 => hdr'["channels"] = f["channels"]
                                 /\ vstep' > 3 => hdr'["format"] = f["format"]
           /\ hpc' = "poll" => /\ hstep' > 1 => /\ hdr'["frame_bytes"] # 0
                                                /\ hfmt'["frame_bytes"] = f["frame_bytes"]
                               /\ hstep' > 2 => hfmt'["format"] = f["format"]
                               /\ hstep' > 3 => hfmt'["sample_rate"] = f["sample_rate"]
           /\ hpc' = "play" => hfmt' = f
  BY DEF FormatInv
<1>1. /\ vpc = "format" /\ vstep \in 1 .. 4 /\ vfmt = f /\ f \in [FormatFields -> Nat]
      /\ f["frame_bytes"] # 0 /\ hdr \in [Fields -> Nat]
      /\ UNCHANGED <<hpc, hstep, hfmt>>
  BY FormatsArePublishable DEF VmFormat, TypeInv, TypeOK, Steps, SameFormat, host
<1>2. /\ f.sample_rate = f["sample_rate"] /\ f.channels = f["channels"]
      /\ f.format = f["format"] /\ f.frame_bytes = f["frame_bytes"]
  OBVIOUS
<1>3. FormatFields = {"sample_rate", "channels", "format", "frame_bytes"} /\ FormatFields \subseteq Fields
  BY DEF FormatFields, Fields
<1>4. \/ vstep < 4 /\ vstep' = vstep + 1 /\ vpc' = "format"
      \/ vstep = 4 /\ vstep' = 1 /\ vpc' = "stream"
  <2>1. \/ vstep < 4 /\ vstep' = vstep + 1 /\ vpc' = vpc
        \/ ~ (vstep < 4) /\ vstep' = 1 /\ vpc' = "stream"
    BY Lengths DEF VmFormat
  <2> QED
    BY <1>1, <2>1
<1>5. \/ vstep = 1 /\ hdr' = [hdr EXCEPT !["sample_rate"] = f["sample_rate"]]
      \/ vstep = 2 /\ hdr' = [hdr EXCEPT !["channels"] = f["channels"]]
      \/ vstep = 3 /\ hdr' = [hdr EXCEPT !["format"] = f["format"]]
      \/ vstep = 4 /\ hdr' = [hdr EXCEPT !["frame_bytes"] = f["frame_bytes"]]
  BY <1>1, <1>2, StoreOfFormat
<1>6. /\ \A x \in FormatFields : hdr'[x] \in {hdr[x], f[x]}
      /\ vstep = 1 => hdr'["sample_rate"] = f["sample_rate"]
      /\ vstep = 2 => hdr'["channels"] = f["channels"]
      /\ vstep = 3 => hdr'["format"] = f["format"]
      /\ vstep = 4 => hdr'["frame_bytes"] = f["frame_bytes"]
      /\ vstep # 1 => hdr'["sample_rate"] = hdr["sample_rate"]
      /\ vstep # 2 => hdr'["channels"] = hdr["channels"]
      /\ vstep # 3 => hdr'["format"] = hdr["format"]
      /\ vstep # 4 => hdr'["frame_bytes"] = hdr["frame_bytes"]
  BY <1>1, <1>3, <1>5
<1>7. /\ \A x \in FormatFields : hdr[x] \in {0, f[x]}
      /\ hdr["frame_bytes"] # 0 => \A x \in FormatFields : hdr[x] = f[x]
      /\ vstep > 1 => hdr["sample_rate"] = f["sample_rate"]
      /\ vstep > 2 => hdr["channels"] = f["channels"]
      /\ vstep > 3 => hdr["format"] = f["format"]
      /\ hpc = "poll" => /\ hstep > 1 => /\ hdr["frame_bytes"] # 0
                                         /\ hfmt["frame_bytes"] = f["frame_bytes"]
                         /\ hstep > 2 => hfmt["format"] = f["format"]
                         /\ hstep > 3 => hfmt["sample_rate"] = f["sample_rate"]
      /\ hpc = "play" => hfmt = f
  BY <1>1 DEF FormatInv
<1>8. \A x \in FormatFields : hdr'[x] \in {0, f[x]}
  BY <1>6, <1>7
<1>9. hdr'["frame_bytes"] # 0 => \A x \in FormatFields : hdr'[x] = f[x]
  <2>1. CASE vstep = 4
    BY <1>3, <1>6, <1>7, <2>1
  <2>2. CASE vstep # 4
    BY <1>6, <1>7, <2>2
  <2> QED
    BY <2>1, <2>2
<1>10. hdr["frame_bytes"] # 0 => hdr'["frame_bytes"] # 0
  BY <1>1, <1>6
<1>11. vpc' = "format" => /\ vstep' > 1 => hdr'["sample_rate"] = f["sample_rate"]
                          /\ vstep' > 2 => hdr'["channels"] = f["channels"]
                          /\ vstep' > 3 => hdr'["format"] = f["format"]
  BY <1>1, <1>4, <1>6, <1>7
<1> QED
  BY <1>1, <1>7, <1>8, <1>9, <1>10, <1>11

(* A store of init unsets what is unset.                                     *)
LEMMA InitStoreKeeps ==
  ASSUME TypeInv, RingInv, Unset, FormatInv, HostInit
  PROVE  Unset' /\ FormatInv'
<1>1. hstep \in 1 .. 8 /\ hdr \in [Fields -> Nat] /\ hpc = "init" /\ vpc # "format" /\ vpc' = vpc
  BY DEF HostInit, TypeInv, TypeOK, Steps, RingInv, vm
<1>2. FormatFields = {"sample_rate", "channels", "format", "frame_bytes"} /\ FormatFields \subseteq Fields
  BY DEF FormatFields, Fields
<1>3. \A x \in FormatFields : hdr'[x] \in {0, hdr[x]}
  BY <1>1, <1>2, StoreOfInit
<1>4. \A x \in FormatFields : hdr'[x] = 0
  BY <1>1, <1>3 DEF Unset
<1>5. hpc' = "poll" => hstep' = 1
  BY <1>1 DEF HostInit
<1>6. hpc' # "play"
  BY <1>1 DEF HostInit
<1>7. hstep' = 1 => ~ (hstep' > 1) /\ ~ (hstep' > 2) /\ ~ (hstep' > 3)
  OBVIOUS
<1> QED
  BY <1>1, <1>2, <1>4, <1>5, <1>6, <1>7 DEF Unset, FormatInv

(* A load of the poll.                                                       *)
LEMMA PollKeeps ==
  ASSUME TypeInv, FormatInv, HostPoll
  PROVE  FormatInv'
<1> SUFFICES ASSUME NEW f \in Formats
    PROVE  /\ hpc' = "poll" => /\ hstep' > 1 => /\ hdr["frame_bytes"] # 0
                                                /\ hfmt'["frame_bytes"] = f["frame_bytes"]
                               /\ hstep' > 2 => hfmt'["format"] = f["format"]
                               /\ hstep' > 3 => hfmt'["sample_rate"] = f["sample_rate"]
           /\ hpc' = "play" => hfmt' = f
  BY DEF FormatInv, HostPoll, vm
<1> DEFINE field == FormatLoads[hstep]
           v     == hdr[field]
<1>1. hpc = "poll" /\ hstep \in 1 .. 4 /\ hfmt \in [FormatFields -> Nat]
  BY DEF HostPoll, TypeInv, TypeOK, Steps
<1>2. /\ hdr["frame_bytes"] # 0 => \A x \in FormatFields : hdr[x] = f[x]
      /\ hstep > 1 => hdr["frame_bytes"] # 0 /\ hfmt["frame_bytes"] = f["frame_bytes"]
      /\ hstep > 2 => hfmt["format"] = f["format"]
      /\ hstep > 3 => hfmt["sample_rate"] = f["sample_rate"]
  BY <1>1 DEF FormatInv
<1>3. FormatFields = {"sample_rate", "channels", "format", "frame_bytes"}
  BY DEF FormatFields
<1>4. CASE Usable(field, v)
  <2>1. /\ hfmt' = [hfmt EXCEPT ![field] = v]
        /\ \/ hstep < 4 /\ hstep' = hstep + 1 /\ hpc' = "poll"
           \/ ~ (hstep < 4) /\ hstep' = 1 /\ hpc' = "play"
    BY <1>1, <1>4, LoadOrders DEF HostPoll
  <2>2. hstep = 1 => field = "frame_bytes" /\ v # 0
    BY <1>4, LoadOrders DEF Usable
  <2>3. hdr["frame_bytes"] # 0
    BY <1>1, <1>2, <2>2
  <2>4. field \in FormatFields /\ v = f[field]
    BY <1>1, <1>2, <2>3, LoadOrders
  <2>5. /\ hstep = 1 => field = "frame_bytes"
        /\ hstep = 2 => field = "format"
        /\ hstep = 3 => field = "sample_rate"
        /\ hstep = 4 => field = "channels"
    BY LoadOrders
  <2> HIDE DEF field, v
  <2>6. CASE hstep = 1
    BY <1>1, <1>2, <1>3, <2>1, <2>3, <2>4, <2>5, <2>6
  <2>7. CASE hstep = 2
    BY <1>1, <1>2, <1>3, <2>1, <2>3, <2>4, <2>5, <2>7
  <2>8. CASE hstep = 3
    BY <1>1, <1>2, <1>3, <2>1, <2>3, <2>4, <2>5, <2>8
  <2>9. CASE hstep = 4
    <3>1. hpc' = "play" /\ \A x \in FormatFields : hfmt'[x] = f[x]
      BY <1>1, <1>2, <1>3, <2>1, <2>4, <2>5, <2>9
    <3>2. hfmt' = [x \in FormatFields |-> hfmt'[x]]
      BY <1>1, <2>1
    <3>3. f = [x \in FormatFields |-> f[x]]
      BY FormatsAreTyped
    <3> QED
      BY <3>1, <3>2, <3>3
  <2> QED
    BY <1>1, <2>6, <2>7, <2>8, <2>9
<1>5. CASE ~ Usable(field, v)
  <2>1. hstep' = 1 /\ hpc' = "poll"
    BY <1>1, <1>5 DEF HostPoll
  <2> QED
    BY <2>1
<1> QED
  BY <1>4, <1>5

LEMMA StepFormat ==
  ASSUME FirstHost, SameFormat, TypeInv, RingInv, Unset, FormatInv, [Next]_vars
  PROVE  Unset' /\ FormatInv'
<1>1. ASSUME NEW video \in HostVideo, HostStart(video)
      PROVE  Unset' /\ FormatInv'
  <2>1. hruns = 0
    BY <1>1, ChoicesAndBounds DEF HostStart, FirstHost, TypeInv, TypeOK
  <2>2. hpc = "off" /\ hpc' \in {"init", "ended"} /\ hdr' = hdr /\ vpc' = vpc /\ vstep' = vstep
    BY <1>1, <2>1 DEF HostStart, RingInv, vm
  <2> QED
    BY <2>2 DEF Unset, FormatInv
<1>2. CASE HostInit
  BY <1>2, InitStoreKeeps
<1>3. CASE HostVideoInit
  <2>1. hpc = "video" /\ hpc' \in {"poll", "ended"} /\ hstep' = 1 /\ hdr' = hdr /\ vpc' = vpc /\ vstep' = vstep
    BY <1>3 DEF HostVideoInit, TypeInv, Steps, vm
  <2>2. ~ (1 > 1) /\ ~ (1 > 2) /\ ~ (1 > 3)
    OBVIOUS
  <2> QED
    BY <2>1, <2>2 DEF Unset, FormatInv
<1>4. CASE HostPoll
  <2>1. Unset'
    BY <1>4 DEF HostPoll, Unset
  <2> QED
    BY <1>4, <2>1, PollKeeps
<1>5. CASE VmFormat
  <2>1. hpc' = hpc /\ hpc \notin {"off", "init"}
    BY <1>5 DEF VmFormat, RingInv, host
  <2> QED
    BY <1>5, <2>1, FormatStoreKeeps DEF Unset
<1>6. CASE \/ VmAttach \/ VmVideoAttach \/ VmEnd \/ UNCHANGED vars
           \/ \E video \in VmVideo : VmStart(video)
           \/ \E fmt \in Formats : VmNegotiate(fmt)
  <2>1. UNCHANGED <<hdr, hpc, hstep, hfmt>>
    BY <1>6 DEF VmAttach, VmVideoAttach, VmEnd, VmStart, VmNegotiate, host, vars
  <2>2. vpc' # "format" \/ vstep' = 1 \/ UNCHANGED <<vpc, vstep>>
    BY <1>6 DEF VmAttach, VmVideoAttach, VmEnd, VmStart, VmNegotiate, vars
  <2>3. Unset'
    BY <2>1 DEF Unset
  <2>4. CASE vpc' # "format" \/ vstep' = 1
    BY <2>1, <2>3, <2>4, SameHeader
  <2>5. CASE UNCHANGED <<vpc, vstep>>
    BY <2>1, <2>3, <2>5 DEF FormatInv
  <2> QED
    BY <2>2, <2>4, <2>5
<1> QED
  BY <1>1, <1>2, <1>3, <1>4, <1>5, <1>6 DEF Next, HostStep, VmStep

(***************************************************************************)
(* The host plays what the capture delivers, although it polls while the     *)
(* format is being published, and although a VM killed between two stores is *)
(* started again and publishes once more.                                    *)
(***************************************************************************)
THEOREM FirstFormatsAgree ==
  ASSUME FirstHost, SameFormat
  PROVE  Spec => []FormatsAgree
<1> DEFINE All == TypeInv /\ RingInv /\ Unset /\ FormatInv
<1>1. Init => All
  BY InitTypes, InitRing, InitFormat
<1>2. All /\ [Next]_vars => All'
  BY StepTypes, StepRing, StepFormat
<1>3. All => FormatsAgree
  BY DEF TypeInv, Steps, FormatInv, FormatsAgree
<1> QED
  BY <1>1, <1>2, <1>3, PTL DEF Spec

=============================================================================
