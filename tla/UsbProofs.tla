----------------------------- MODULE UsbProofs ------------------------------
(***************************************************************************)
(* Safety of the USB drivers: usbticker's request, usbtunnel's list, a     *)
(* bus of usblb, and a tunnel's control requests.                          *)
(***************************************************************************)
EXTENDS Usb, ListProofs, TLAPS

-----------------------------------------------------------------------------
(* usbticker.                                                              *)

\* As long as f_ticker_enable has not failed: what the function has allocated
\* follows from where the composite core is, and the timer is at rest wherever
\* the request is not there.
TkHeld ==
    /\ tkOops = "none"
    /\ tk.pc = "idle"   => (tk.config <=> tk.data) /\ (tk.data <=> tk.req = "ok")
    /\ tk.pc \in {"timer", "free"} => tk.req = "ok" /\ (tk.again <=> tk.config)
    /\ tk.pc = "enable" => tk.config
    /\ tk.pc \in {"free", "enable"} \/ tk.req = "none" => tk.timer = "off" /\ ~tk.running

TkInv == TkTypeOK /\ (tk.failed \/ TkHeld)

\* What struct f_ticker and struct usbticker can hold.
TkState == [pc : {"idle", "timer", "free", "enable"}, again : BOOLEAN, config : BOOLEAN,
            iface : BOOLEAN, configs : 0 .. MaxConfigs, data : BOOLEAN, active : BOOLEAN,
            timer : {"off", "armed"}, running : BOOLEAN, seen : BOOLEAN,
            req : {"none", "ok"}, queued : BOOLEAN, count : 0 .. MaxTicks,
            buf : 0 .. MaxTicks, failed : BOOLEAN]
TkHostState == [urb : {"none", "idle", "submitted"}, probes : 0 .. MaxConfigs,
                ticks : 0 .. MaxTicks]

\* The invariant holds when the driver is loaded.
LEMMA TkInitInv == TkInit => TkInv
  <1> SUFFICES ASSUME TkInit PROVE TkInv
    OBVIOUS
  <1>1. MaxTicks \in Nat /\ MaxConfigs \in Nat
    BY TickerAssumption
  <1>2. TkTypeOK
    BY <1>1 DEF TkInit, TkTypeOK
  <1>3. TkHeld
    BY DEF TkInit, TkHeld
  <1> QED
    BY <1>2, <1>3 DEF TkInv

\* Every step keeps the types.
LEMMA TkNextType ==
    ASSUME TkTypeOK, TkNext
    PROVE  TkTypeOK'
  <1>1. MaxTicks \in Nat /\ MaxConfigs \in Nat
    BY TickerAssumption
  <1>2. tk \in TkState /\ tkHost \in TkHostState /\ tkOops \in {"none", "req"}
    BY DEF TkTypeOK, TkState, TkHostState
  <1>3. tkOops' \in {"none", "req"}
    BY <1>2 DEF TkNext, TkCore, TkTimer, TkSetAlt, TkDisable, TkDelTimer, TkFree, TkEnable,
       TkEnableFails, TkTick, TkReadActive, TkRearm, TkProbe, TkPoll, TkUrbError, TkDisconnect
  <1>4. tk' \in TkState
    <2>1. CASE TkSetAlt
      <3>1. PICK n, pc, again, act, iface :
               /\ n = tk.configs + 1 /\ pc = IF tk.data THEN "timer" ELSE "enable"
               /\ again = tk.data /\ act = (tk.active /\ ~tk.data)
               /\ iface = tk.config
        OBVIOUS
      <3>2. tk.configs \in 0 .. MaxConfigs /\ tk.configs < MaxConfigs /\ tk.data \in BOOLEAN
            /\ tk.config \in BOOLEAN
        BY <1>2, <2>1 DEF TkSetAlt, TkState
      <3>3. /\ n \in 0 .. MaxConfigs /\ pc \in {"idle", "timer", "free", "enable"}
            /\ again \in BOOLEAN /\ act \in BOOLEAN /\ iface \in BOOLEAN
        BY <1>1, <3>1, <3>2
      <3>4. PICK mid : mid = [tk EXCEPT !.config = TRUE, !.iface = iface, !.configs = n]
        OBVIOUS
      <3>5. mid \in TkState
        BY <1>2, <3>3, <3>4 DEF TkState
      <3>6. tk' = [mid EXCEPT !.again = again, !.pc = pc, !.active = act]
        BY <1>2, <2>1, <3>1, <3>4 DEF TkSetAlt, TkState
      <3> QED
        BY <3>3, <3>5, <3>6 DEF TkState
    <2>2. CASE TkDisable
      BY <1>2, <2>2 DEF TkDisable, TkState
    <2>3. CASE TkDelTimer
      BY <1>2, <2>3 DEF TkDelTimer, TkState
    <2>4. CASE TkFree
      <3>1. CASE tk.req = "none"
        BY <1>2, <2>4, <3>1 DEF TkFree
      <3>2. CASE tk.req # "none"
        <4>1. PICK pc \in {"enable", "idle"} :
                 tk' = [tk EXCEPT !.pc = pc, !.data = FALSE, !.queued = FALSE, !.req = "none"]
          BY <2>4, <3>2 DEF TkFree
        <4> QED
          BY <1>2, <4>1 DEF TkState
      <3> QED
        BY <3>1, <3>2
    <2>5. CASE TkEnable
      BY <1>2, <2>5 DEF TkEnable, TkState
    <2>6. CASE TkEnableFails
      <3>1. tk.iface \in BOOLEAN
        BY <1>2 DEF TkState
      <3>2. PICK marked \in BOOLEAN, pc \in {"idle", "timer"}, act \in BOOLEAN :
               tk' = [tk EXCEPT !.pc = pc, !.again = FALSE, !.config = tk.iface,
                                !.data = marked, !.active = act, !.req = "none",
                                !.failed = TRUE]
        BY <2>6, <3>1 DEF TkEnableFails
      <3>3. PICK mid : mid = [tk EXCEPT !.config = tk.iface, !.data = marked, !.active = act]
        OBVIOUS
      <3>4. mid \in TkState
        BY <1>2, <3>1, <3>3 DEF TkState
      <3>5. tk' = [mid EXCEPT !.pc = pc, !.again = FALSE, !.req = "none", !.failed = TRUE]
        BY <1>2, <3>2, <3>3 DEF TkState
      <3> QED
        BY <3>4, <3>5 DEF TkState
    <2>7. CASE TkTick
      <3>1. CASE tk.req = "none"
        BY <1>2, <2>7, <3>1 DEF TkTick
      <3>2. CASE tk.req # "none"
        <4>1. PICK n : n = tk.count + 1
          OBVIOUS
        <4>2. tk.count \in 0 .. MaxTicks /\ tk.data \in BOOLEAN /\ tk.count < MaxTicks
          BY <1>2, <2>7 DEF TkTick, TkState
        <4>3. n \in 0 .. MaxTicks
          BY <1>1, <4>1, <4>2
        <4>4. tk' = [tk EXCEPT !.timer = "off", !.running = TRUE, !.count = n,
                               !.buf = tk.count, !.queued = tk.data]
          BY <2>7, <3>2, <4>1 DEF TkTick
        <4> QED
          BY <1>2, <4>2, <4>3, <4>4 DEF TkState
      <3> QED
        BY <3>1, <3>2
    <2>8. CASE TkReadActive
      BY <1>2, <2>8 DEF TkReadActive, TkState
    <2>9. CASE TkRearm
      BY <1>2, <2>9 DEF TkRearm, TkState
    <2>10. CASE TkPoll
      BY <1>2, <2>10 DEF TkPoll, TkState
    <2>11. CASE TkProbe \/ TkUrbError \/ TkDisconnect
      BY <1>2, <2>11 DEF TkProbe, TkUrbError, TkDisconnect
    <2> QED
      BY <2>1, <2>2, <2>3, <2>4, <2>5, <2>6, <2>7, <2>8, <2>9, <2>10, <2>11
      DEF TkNext, TkCore, TkTimer
  <1>5. tkHost' \in TkHostState
    <2>1. CASE TkProbe
      BY <1>1, <1>2, <2>1 DEF TkProbe, TkHostState
    <2>2. CASE TkPoll
      <3>1. tk.buf \in 0 .. MaxTicks
        BY <1>2 DEF TkState
      <3> QED
        BY <1>2, <2>2, <3>1 DEF TkPoll, TkHostState
    <2>3. CASE TkUrbError
      BY <1>2, <2>3 DEF TkUrbError, TkHostState
    <2>4. CASE TkDisconnect
      <3>1. 0 \in 0 .. MaxTicks
        BY <1>1
      <3>2. tkHost' = [tkHost EXCEPT !.urb = "none", !.ticks = 0]
        BY <2>4 DEF TkDisconnect
      <3> QED
        BY <1>2, <3>1, <3>2 DEF TkHostState
    <2>5. CASE TkSetAlt \/ TkDisable \/ TkCore \/ TkTimer
      BY <1>2, <2>5 DEF TkSetAlt, TkDisable, TkCore, TkTimer, TkDelTimer, TkFree, TkEnable,
         TkEnableFails, TkTick, TkReadActive, TkRearm
    <2> QED
      BY <2>1, <2>2, <2>3, <2>4, <2>5 DEF TkNext
  <1> QED
    BY <1>3, <1>4, <1>5 DEF TkTypeOK, TkState, TkHostState

\* Every step of the core, the timer and the host keeps the invariant.
LEMMA TkNextInv ==
    ASSUME TkInv, TkNext
    PROVE  TkInv'
  <1>1. TkTypeOK'
    BY TkNextType DEF TkInv
  <1>2. tk \in TkState
    BY DEF TkInv, TkTypeOK, TkState
  <1>3. tk.failed => tk'.failed
    <2>1. CASE TkSetAlt
      BY <1>2, <2>1 DEF TkSetAlt, TkState
    <2>2. CASE TkDisable \/ TkDelTimer
      BY <1>2, <2>2 DEF TkDisable, TkDelTimer, TkState
    <2>3. CASE TkFree
      BY <1>2, <2>3 DEF TkFree, TkState
    <2>4. CASE TkEnable \/ TkEnableFails
      BY <1>2, <2>4 DEF TkEnable, TkEnableFails, TkState
    <2>5. CASE TkTick
      BY <1>2, <2>5 DEF TkTick, TkState
    <2>6. CASE TkReadActive \/ TkRearm \/ TkPoll
      BY <1>2, <2>6 DEF TkReadActive, TkRearm, TkPoll, TkState
    <2>7. CASE TkProbe \/ TkUrbError \/ TkDisconnect
      BY <2>7 DEF TkProbe, TkUrbError, TkDisconnect
    <2> QED
      BY <2>1, <2>2, <2>3, <2>4, <2>5, <2>6, <2>7 DEF TkNext, TkCore, TkTimer
  <1>4. ASSUME ~tk.failed
        PROVE  tk'.failed \/ TkHeld'
    <2>1. TkHeld
      BY <1>4 DEF TkInv
    <2>2. CASE TkSetAlt
      BY <1>2, <2>1, <2>2 DEF TkSetAlt, TkState, TkHeld
    <2>3. CASE TkDisable
      BY <1>2, <2>1, <2>3 DEF TkDisable, TkState, TkHeld
    <2>4. CASE TkDelTimer
      BY <1>2, <2>1, <2>4 DEF TkDelTimer, TkState, TkHeld
    <2>5. CASE TkFree
      <3>1. tk.req = "ok" /\ tk.timer = "off" /\ ~tk.running /\ (tk.again <=> tk.config)
        BY <2>1, <2>5 DEF TkFree, TkHeld
      <3>2. PICK pc : /\ pc = IF tk.again THEN "enable" ELSE "idle"
                      /\ tk' = [tk EXCEPT !.pc = pc, !.data = FALSE, !.queued = FALSE,
                                          !.req = "none"]
        BY <2>5, <3>1 DEF TkFree
      <3>3. tkOops' = tkOops
        BY <2>5, <3>1 DEF TkFree
      <3>4. /\ tk'.pc = pc /\ ~tk'.data /\ tk'.req = "none" /\ tk'.timer = "off"
            /\ ~tk'.running /\ (tk'.config <=> tk.config)
        BY <1>2, <3>1, <3>2 DEF TkState
      <3> QED
        BY <2>1, <3>1, <3>2, <3>3, <3>4 DEF TkHeld
    <2>6. CASE TkEnable
      <3>1. /\ tk'.pc = "idle" /\ tk'.data /\ tk'.req = "ok" /\ (tk'.config <=> tk.config)
            /\ tkOops' = tkOops
        BY <1>2, <2>6 DEF TkEnable, TkState
      <3>2. tk.config
        BY <2>1, <2>6 DEF TkEnable, TkHeld
      <3> QED
        BY <2>1, <3>1, <3>2 DEF TkHeld
    <2>7. CASE TkEnableFails
      BY <1>2, <2>7 DEF TkEnableFails, TkState
    <2>8. CASE TkTick
      <3>1. tk.req = "ok" /\ tk.pc \notin {"free", "enable"}
        BY <1>2, <2>1, <2>8 DEF TkTick, TkState, TkHeld
      <3>2. PICK n : tk' = [tk EXCEPT !.timer = "off", !.running = TRUE, !.count = n,
                                      !.buf = tk.count, !.queued = tk.data]
        BY <2>8, <3>1 DEF TkTick
      <3>3. tkOops' = tkOops
        BY <2>8, <3>1 DEF TkTick
      <3>4. /\ tk'.pc = tk.pc /\ tk'.data = tk.data /\ tk'.req = tk.req
            /\ tk'.config = tk.config /\ tk'.again = tk.again
        BY <1>2, <3>2 DEF TkState
      <3> QED
        BY <2>1, <3>1, <3>3, <3>4 DEF TkHeld
    <2>9. CASE TkReadActive
      BY <1>2, <2>1, <2>9 DEF TkReadActive, TkState, TkHeld
    <2>10. CASE TkRearm
      BY <1>2, <2>1, <2>10 DEF TkRearm, TkState, TkHeld
    <2>11. CASE TkPoll
      BY <1>2, <2>1, <2>11 DEF TkPoll, TkState, TkHeld
    <2>12. CASE TkProbe \/ TkUrbError \/ TkDisconnect
      BY <2>1, <2>12 DEF TkProbe, TkUrbError, TkDisconnect, TkHeld
    <2> QED
      BY <2>2, <2>3, <2>4, <2>5, <2>6, <2>7, <2>8, <2>9, <2>10, <2>11, <2>12
      DEF TkNext, TkCore, TkTimer
  <1> QED
    BY <1>1, <1>3, <1>4 DEF TkInv

-----------------------------------------------------------------------------
(* usbtunnel's list.                                                       *)

\* What an actor has in hand: it came from the list, and it may have gone since.
TlInHand ==
    \A a \in TlActor : tlAt[a].pc # "idle" =>
        tlAt[a].ut \in Tunnel /\ tlMem[tlAt[a].ut] # "unused"

\* Who can be where.
TlPlaces ==
    /\ \A w \in Writer : tlAt[w].pc \in {"idle", "found", "cleanup"}
    /\ tlAt[Hub].pc \in {"idle", "probe", "gadget", "bound"}

\* Unless lookups overlapped: what an actor holds is live, and nobody else holds
\* it, but for a writer that has found the tunnel of a bound device and not looked
\* at the device yet.
TlOwned ==
    /\ tlOops = "none"
    /\ \A a \in TlActor : tlAt[a].pc # "idle" => tlMem[tlAt[a].ut] = "live"
    /\ \A a, b \in TlActor :
          a # b /\ tlAt[a].pc # "idle" /\ tlAt[b].pc # "idle" /\ tlAt[a].ut = tlAt[b].ut =>
              \/ a = Hub /\ tlAt[a].pc = "bound" /\ tlAt[b].pc = "found"
              \/ b = Hub /\ tlAt[b].pc = "bound" /\ tlAt[a].pc = "found"
    /\ tlAt[Hub].pc \in {"gadget", "bound"} => tlUdev[tlAt[Hub].ut] = "here"

TlListed == ToSet(tlList) = {t \in Tunnel : tlMem[t] = "live"} /\ IsInjective(tlList)

TlInv == TlTypeOK /\ TlInHand /\ TlPlaces /\ TlListed /\ (tlRaced \/ TlOwned)

TlPc == {"idle", "found", "cleanup", "probe", "gadget", "bound"}
TlRec == [pc : TlPc, ut : Tunnel \union {NoTunnel}]

\* An actor that goes somewhere leaves the others where they are.
LEMMA TlGotoFacts ==
    ASSUME TlTypeOK, NEW a \in TlActor, NEW pc \in TlPc, NEW t \in Tunnel \union {NoTunnel},
           TlGoto(a, pc, t)
    PROVE  /\ tlAt' \in [TlActor -> TlRec]
           /\ tlAt'[a].pc = pc /\ tlAt'[a].ut = t
           /\ \A b \in TlActor : b # a => tlAt'[b].pc = tlAt[b].pc /\ tlAt'[b].ut = tlAt[b].ut
  <1>1. tlAt \in [TlActor -> TlRec]
    BY DEF TlTypeOK, TlRec, TlPc
  <1>2. PICK r : r = [pc |-> pc, ut |-> t]
    OBVIOUS
  <1>3. r \in TlRec /\ r.pc = pc /\ r.ut = t
    BY <1>2 DEF TlRec
  <1>4. tlAt' = [tlAt EXCEPT ![a] = r]
    BY <1>2 DEF TlGoto
  <1> QED
    BY <1>1, <1>3, <1>4

\* A step that only stops at memory that was freed keeps the invariant: nobody
\* holds such memory unless lookups overlapped.
LEMMA TlOopsInv ==
    ASSUME TlInv, NEW a \in TlActor, tlAt[a].pc # "idle", tlMem[tlAt[a].ut] = "freed", TlOopsAt(a)
    PROVE  TlInv'
  <1>1. tlRaced
    BY DEF TlInv, TlOwned
  <1>2. TlTypeOK'
    BY DEF TlInv, TlTypeOK, TlOopsAt
  <1> QED
    BY <1>1, <1>2 DEF TlInv, TlOopsAt, TlInHand, TlPlaces, TlListed

\* A lookup: what it returns is live, and if another actor has it then that is the
\* hub, whose device is bound.
LEMMA TlLookupInv ==
    ASSUME TlInv, NEW a \in TlActor, NEW pc, tlAt[a].pc = "idle", TlLookup(a, pc),
           (a # Hub /\ pc = "found") \/ (a = Hub /\ pc = "probe")
    PROVE  TlInv'
  <1>1. TlTypeOK /\ pc \in TlPc /\ tlList \in Seq(Tunnel)
    BY DEF TlInv, TlTypeOK, TlPc
  <1>2. UNCHANGED <<tlList, tlMem, tlUdev, tlOops>>
    BY DEF TlLookup
  <1>3. TlListed'
    BY <1>2 DEF TlInv, TlListed
  <1>4. tlRaced' \in BOOLEAN /\ (tlRaced => tlRaced')
    BY <1>1 DEF TlLookup, TlTypeOK
  <1>5. CASE tlList = << >>
    <2>1. TlGoto(a, "idle", NoTunnel)
      BY <1>5 DEF TlLookup
    <2>2. /\ tlAt' \in [TlActor -> TlRec]
          /\ tlAt'[a].pc = "idle"
          /\ \A b \in TlActor : b # a => tlAt'[b].pc = tlAt[b].pc /\ tlAt'[b].ut = tlAt[b].ut
      BY <1>1, <2>1, TlGotoFacts DEF TlPc
    <2>3. TlTypeOK' /\ TlInHand' /\ TlPlaces'
      BY <1>1, <1>2, <1>4, <2>2 DEF TlInv, TlTypeOK, TlRec, TlPc, TlInHand, TlPlaces, TlActor
    <2>4. ASSUME ~tlRaced' PROVE TlOwned'
      BY <1>2, <1>4, <2>2, <2>4 DEF TlInv, TlOwned, TlActor
    <2> QED
      BY <1>3, <2>3, <2>4 DEF TlInv
  <1>6. CASE tlList # << >>
    <2> DEFINE h == Head(tlList)
    <2>1. h \in Tunnel /\ h \in ToSet(tlList)
      <3>1. h = tlList[1] /\ 1 \in DOMAIN tlList
        BY <1>1, <1>6
      <3> QED
        BY <1>1, <3>1, ElementOfSeq DEF ToSet
    <2>2. tlMem[h] = "live"
      BY <2>1 DEF TlInv, TlListed
    <2>3. TlGoto(a, pc, h)
      BY <1>6 DEF TlLookup
    <2>4. ~tlRaced' => \A b \in TlActor : b # a /\ tlAt[b].ut = h => tlAt[b].pc = "bound"
      BY <1>6 DEF TlLookup
    <2> HIDE DEF h
    <2>5. /\ tlAt' \in [TlActor -> TlRec]
          /\ tlAt'[a].pc = pc /\ tlAt'[a].ut = h
          /\ \A b \in TlActor : b # a => tlAt'[b].pc = tlAt[b].pc /\ tlAt'[b].ut = tlAt[b].ut
      BY <1>1, <2>1, <2>3, TlGotoFacts
    <2>6. TlTypeOK' /\ TlInHand'
      <3>1. TlTypeOK'
        BY <1>1, <1>2, <1>4, <2>5 DEF TlTypeOK, TlRec, TlPc
      <3>2. TlInHand'
        <4>1. TlInHand /\ tlMem' = tlMem /\ h \in Tunnel /\ tlMem[h] # "unused"
          BY <1>2, <2>1, <2>2 DEF TlInv
        <4> QED
          BY <2>5, <4>1 DEF TlInHand
      <3> QED
        BY <3>1, <3>2
    <2>7. TlPlaces'
      <3>1. Hub \notin Writer
        BY TunnelsAssumption DEF Hub
      <3> QED
        BY <2>5, <3>1 DEF TlInv, TlPlaces, TlActor
    <2>8. ASSUME ~tlRaced' PROVE TlOwned'
      <3>1. TlOwned /\ TlPlaces
        BY <1>4, <2>8 DEF TlInv
      <3>2. \A b \in TlActor : b # a /\ tlAt[b].ut = h => tlAt[b].pc = "bound" /\ b = Hub
        BY <2>4, <2>8, <3>1 DEF TlPlaces, TlActor
      <3>3. tlOops' = "none"
        BY <1>2, <3>1 DEF TlOwned
      <3>4. \A b \in TlActor : tlAt'[b].pc # "idle" => tlMem'[tlAt'[b].ut] = "live"
        BY <1>2, <2>2, <2>5, <3>1 DEF TlOwned
      <3>5. tlAt'[Hub].pc \in {"gadget", "bound"} => tlUdev'[tlAt'[Hub].ut] = "here"
        BY <1>2, <2>5, <3>1 DEF TlOwned, TlActor
      <3>6. ASSUME NEW b \in TlActor, NEW c \in TlActor, b # c, tlAt'[b].pc # "idle",
                   tlAt'[c].pc # "idle", tlAt'[b].ut = tlAt'[c].ut
            PROVE  \/ b = Hub /\ tlAt'[b].pc = "bound" /\ tlAt'[c].pc = "found"
                   \/ c = Hub /\ tlAt'[c].pc = "bound" /\ tlAt'[b].pc = "found"
        <4>1. CASE b = a
          BY <2>5, <3>2, <3>6, <4>1
        <4>2. CASE c = a
          BY <2>5, <3>2, <3>6, <4>2
        <4>3. CASE b # a /\ c # a
          BY <2>5, <3>1, <3>6, <4>3 DEF TlOwned
        <4> QED
          BY <4>1, <4>2, <4>3
      <3> QED
        BY <3>3, <3>4, <3>5, <3>6 DEF TlOwned
    <2> QED
      BY <1>3, <2>6, <2>7, <2>8 DEF TlInv
  <1> QED
    BY <1>5, <1>6

\* usbtunnel_add.
LEMMA TlAddInv ==
    ASSUME TlInv, NEW w \in Writer, NEW t \in Tunnel, TlAdd(w, t)
    PROVE  TlInv'
  <1>1. tlMem \in [Tunnel -> {"unused", "live", "freed"}] /\ tlList \in Seq(Tunnel)
    BY DEF TlInv, TlTypeOK
  <1>2. /\ tlMem' \in [Tunnel -> {"unused", "live", "freed"}] /\ tlMem'[t] = "live"
        /\ \A u \in Tunnel : u # t => tlMem'[u] = tlMem[u]
    BY <1>1 DEF TlAdd
  <1>3. UNCHANGED <<tlUdev, tlAt, tlRaced, tlOops>> /\ tlMem[t] = "unused"
    BY DEF TlAdd
  <1>4. tlList' \in Seq(Tunnel) /\ IsInjective(tlList') /\ ToSet(tlList') = ToSet(tlList) \union {t}
    <2>1. IsInjective(tlList) /\ t \notin ToSet(tlList)
      BY <1>3 DEF TlInv, TlListed
    <2>2. tlList' = <<t>> \o tlList
      BY DEF TlAdd
    <2> QED
      <3>1. tlList \in Seq(Tunnel) /\ IsInjective(tlList) /\ t \notin ToSet(tlList)
        BY <1>1, <2>1
      <3>2. /\ tlList' \in Seq(Tunnel) /\ IsInjective(tlList')
            /\ \A y : y \in ToSet(tlList') <=> y \in ToSet(tlList) \/ y = t
        BY <2>2, <3>1, ListAdd, Zenon
      <3> QED
        BY <3>2
  <1>5. TlListed'
    BY <1>2, <1>4 DEF TlInv, TlListed
  <1>6. TlTypeOK' /\ TlPlaces'
    BY <1>2, <1>3, <1>4 DEF TlInv, TlTypeOK, TlPlaces
  <1>7. TlInHand' /\ \A a \in TlActor : tlAt[a].pc # "idle" => tlMem'[tlAt[a].ut] = tlMem[tlAt[a].ut]
    BY <1>2, <1>3 DEF TlInv, TlInHand
  <1>8. TlOwned => TlOwned'
    BY <1>3, <1>7 DEF TlOwned
  <1> QED
    BY <1>3, <1>5, <1>6, <1>7, <1>8 DEF TlInv

\* usbtunnel_del looks at the device: a tunnel that has none is nobody else's.
LEMMA TlDelCheckInv ==
    ASSUME TlInv, NEW w \in Writer, TlDelCheck(w)
    PROVE  TlInv'
  <1> DEFINE t == tlAt[w].ut
  <1>1. w \in TlActor /\ tlAt[w].pc = "found" /\ TlTypeOK /\ w # Hub
    BY TunnelsAssumption DEF TlInv, TlDelCheck, TlActor, Hub
  <1>2. t \in Tunnel
    BY <1>1 DEF TlInv, TlInHand
  <1>3. CASE tlMem[t] = "freed"
    BY <1>1, <1>3, TlOopsInv DEF TlDelCheck
  <1>4. CASE tlMem[t] # "freed"
    <2>1. UNCHANGED <<tlList, tlMem, tlUdev, tlRaced, tlOops>>
      BY <1>4 DEF TlDelCheck
    <2>2. TlListed'
      BY <2>1 DEF TlInv, TlListed
    <2>3. PICK pc, u : /\ TlGoto(w, pc, u)
                       /\ \/ tlUdev[t] = "none" /\ pc = "cleanup" /\ u = t
                          \/ pc = "idle" /\ u = NoTunnel
      BY <1>4 DEF TlDelCheck
    <2>4. pc \in TlPc /\ u \in Tunnel \union {NoTunnel}
      BY <1>2, <2>3 DEF TlPc
    <2>5. /\ tlAt' \in [TlActor -> TlRec]
          /\ tlAt'[w].pc = pc /\ tlAt'[w].ut = u
          /\ \A b \in TlActor : b # w => tlAt'[b].pc = tlAt[b].pc /\ tlAt'[b].ut = tlAt[b].ut
      BY <1>1, <2>3, <2>4, TlGotoFacts
    <2>6. TlTypeOK'
      BY <1>1, <2>1, <2>5 DEF TlTypeOK, TlRec, TlPc
    <2>7. TlInHand' /\ TlPlaces'
      BY <1>1, <2>1, <2>3, <2>5 DEF TlInv, TlInHand, TlPlaces, TlActor
    <2>8. ASSUME ~tlRaced' PROVE TlOwned'
      <3>1. TlOwned
        BY <2>1, <2>8 DEF TlInv
      <3>2. ASSUME NEW b \in TlActor, b # w, tlAt[b].pc # "idle", tlAt[b].ut = t
            PROVE  pc = "idle"
        <4>1. b = Hub /\ tlAt[b].pc = "bound"
          BY <1>1, <3>1, <3>2 DEF TlOwned
        <4>2. tlUdev[t] = "here"
          BY <3>1, <3>2, <4>1 DEF TlOwned
        <4> QED
          BY <2>3, <4>2
      <3>3. tlOops' = "none" /\ (tlAt'[Hub].pc \in {"gadget", "bound"} => tlUdev'[tlAt'[Hub].ut] = "here")
        BY <1>1, <2>1, <2>5, <3>1 DEF TlOwned, TlActor
      <3>4. \A b \in TlActor : tlAt'[b].pc # "idle" => tlMem'[tlAt'[b].ut] = "live"
        BY <1>1, <2>1, <2>3, <2>5, <3>1 DEF TlOwned
      <3>5. ASSUME NEW b \in TlActor, NEW c \in TlActor, b # c, tlAt'[b].pc # "idle",
                   tlAt'[c].pc # "idle", tlAt'[b].ut = tlAt'[c].ut
            PROVE  \/ b = Hub /\ tlAt'[b].pc = "bound" /\ tlAt'[c].pc = "found"
                   \/ c = Hub /\ tlAt'[c].pc = "bound" /\ tlAt'[b].pc = "found"
        <4>1. CASE b = w
          BY <2>3, <2>5, <3>2, <3>5, <4>1
        <4>2. CASE c = w
          BY <2>3, <2>5, <3>2, <3>5, <4>2
        <4>3. CASE b # w /\ c # w
          BY <2>5, <3>1, <3>5, <4>3 DEF TlOwned
        <4> QED
          BY <4>1, <4>2, <4>3
      <3> QED
        BY <3>3, <3>4, <3>5 DEF TlOwned
    <2> QED
      BY <2>2, <2>6, <2>7, <2>8 DEF TlInv
  <1> QED
    BY <1>3, <1>4

\* usbtunnel_cleanup takes a tunnel off the list that nobody else has.
LEMMA TlCleanupInv ==
    ASSUME TlInv, NEW w \in Writer, TlCleanup(w)
    PROVE  TlInv'
  <1> DEFINE t == tlAt[w].ut
  <1>1. w \in TlActor /\ tlAt[w].pc = "cleanup" /\ TlTypeOK /\ w # Hub
    BY TunnelsAssumption DEF TlInv, TlCleanup, TlActor, Hub
  <1>2. t \in Tunnel /\ tlMem[t] # "unused"
    BY <1>1 DEF TlInv, TlInHand
  <1>3. CASE tlMem[t] = "freed"
    BY <1>1, <1>3, TlOopsInv DEF TlCleanup
  <1>4. CASE tlMem[t] # "freed"
    <2>1. /\ tlMem \in [Tunnel -> {"unused", "live", "freed"}] /\ tlList \in Seq(Tunnel)
          /\ IsInjective(tlList) /\ t \in ToSet(tlList)
      BY <1>2, <1>4 DEF TlInv, TlTypeOK, TlListed
    <2>2. /\ tlMem' \in [Tunnel -> {"unused", "live", "freed"}] /\ tlMem'[t] = "freed"
          /\ \A u \in Tunnel : u # t => tlMem'[u] = tlMem[u]
      BY <1>2, <1>4, <2>1 DEF TlCleanup
    <2>3. UNCHANGED <<tlUdev, tlRaced, tlOops>> /\ TlGoto(w, "idle", NoTunnel)
      BY <1>4 DEF TlCleanup
    <2>4. tlList' \in Seq(Tunnel) /\ IsInjective(tlList') /\ ToSet(tlList') = ToSet(tlList) \ {t}
      <3> DEFINE k == CHOOSE i \in DOMAIN tlList : tlList[i] = t
      <3>1. tlList' = RemoveAt(tlList, k)
        BY <1>4 DEF TlCleanup
      <3>2. k \in DOMAIN tlList /\ tlList[k] = t
        BY <2>1, ListFind
      <3> HIDE DEF k, t
      <3> QED
        BY <2>1, <3>1, <3>2, ListDel
    <2>5. TlListed'
      BY <2>2, <2>4 DEF TlInv, TlListed
    <2>6. /\ tlAt' \in [TlActor -> TlRec]
          /\ tlAt'[w].pc = "idle"
          /\ \A b \in TlActor : b # w => tlAt'[b].pc = tlAt[b].pc /\ tlAt'[b].ut = tlAt[b].ut
      BY <1>1, <2>3, TlGotoFacts DEF TlPc
    <2>7. TlTypeOK'
      BY <1>1, <2>2, <2>3, <2>4, <2>6 DEF TlTypeOK, TlRec, TlPc
    <2>8. TlInHand' /\ TlPlaces'
      <3>1. \A u \in Tunnel : tlMem[u] # "unused" => tlMem'[u] # "unused"
        BY <2>2
      <3> QED
        BY <1>1, <2>6, <3>1 DEF TlInv, TlInHand, TlPlaces, TlActor
    <2>9. ASSUME ~tlRaced' PROVE TlOwned'
      <3>1. TlOwned
        BY <2>3, <2>9 DEF TlInv
      <3>2. \A b \in TlActor : b # w /\ tlAt[b].pc # "idle" => tlAt[b].ut # t
        BY <1>1, <3>1 DEF TlOwned
      <3>3. \A b \in TlActor : tlAt'[b].pc # "idle" =>
                b # w /\ tlAt'[b].pc = tlAt[b].pc /\ tlAt'[b].ut = tlAt[b].ut
                /\ tlMem'[tlAt[b].ut] = tlMem[tlAt[b].ut]
        BY <2>2, <2>6, <3>2 DEF TlInv, TlInHand
      <3> QED
        BY <1>1, <2>3, <2>6, <3>1, <3>3 DEF TlOwned, TlActor
    <2> QED
      BY <2>5, <2>7, <2>8, <2>9 DEF TlInv
  <1> QED
    BY <1>3, <1>4

\* The hub's thread with the tunnel in hand: nobody else has it before its device
\* is bound.
LEMMA TlHubInv ==
    ASSUME TlInv, TlProbeUdev \/ TlProbeGadget \/ TlDisconnect
    PROVE  TlInv'
  <1> DEFINE t == tlAt[Hub].ut
  <1>1. Hub \in TlActor /\ tlAt[Hub].pc # "idle" /\ TlTypeOK /\ Hub \notin Writer
    BY TunnelsAssumption DEF TlInv, TlProbeUdev, TlProbeGadget, TlDisconnect, TlActor, Hub
  <1>2. t \in Tunnel
    BY <1>1 DEF TlInv, TlInHand
  <1>3. CASE tlMem[t] = "freed"
    <2>1. TlOopsAt(Hub)
      BY <1>3 DEF TlProbeUdev, TlProbeGadget, TlDisconnect
    <2> QED
      BY <1>1, <1>3, <2>1, TlOopsInv
  <1>4. CASE tlMem[t] # "freed"
    <2>1. UNCHANGED <<tlList, tlMem, tlRaced, tlOops>>
      BY <1>4 DEF TlProbeUdev, TlProbeGadget, TlDisconnect
    <2>2. TlListed'
      BY <2>1 DEF TlInv, TlListed
    <2>3. tlUdev \in [Tunnel -> {"none", "here", "stale"}]
      BY <1>1 DEF TlTypeOK
    <2>4. PICK pc, u : /\ TlGoto(Hub, pc, u)
                       /\ \/ tlAt[Hub].pc = "probe" /\ pc = "gadget" /\ u = t
                          \/ tlAt[Hub].pc = "gadget" /\ pc = "bound" /\ u = t
                          \/ pc = "idle" /\ u = NoTunnel
      BY <1>4 DEF TlProbeUdev, TlProbeGadget, TlDisconnect
    <2>5. pc \in TlPc /\ u \in Tunnel \union {NoTunnel}
      BY <1>2, <2>4 DEF TlPc
    <2>6. /\ tlAt' \in [TlActor -> TlRec]
          /\ tlAt'[Hub].pc = pc /\ tlAt'[Hub].ut = u
          /\ \A b \in TlActor : b # Hub => tlAt'[b].pc = tlAt[b].pc /\ tlAt'[b].ut = tlAt[b].ut
      BY <1>1, <2>4, <2>5, TlGotoFacts
    <2>7. tlUdev' \in [Tunnel -> {"none", "here", "stale"}]
      BY <1>2, <1>4, <2>3 DEF TlProbeUdev, TlProbeGadget, TlDisconnect
    <2>8. TlTypeOK'
      BY <1>1, <2>1, <2>6, <2>7 DEF TlTypeOK, TlRec, TlPc
    <2>9. TlInHand' /\ TlPlaces'
      BY <1>1, <2>1, <2>4, <2>6 DEF TlInv, TlInHand, TlPlaces, TlActor
    <2>10. ASSUME ~tlRaced' PROVE TlOwned'
      <3>1. TlOwned
        BY <2>1, <2>10 DEF TlInv
      <3>2. pc \in {"gadget", "bound"} => u = t /\ tlUdev'[t] = "here"
        <4>1. CASE TlProbeUdev
          BY <1>2, <1>4, <2>3, <2>4, <4>1 DEF TlProbeUdev
        <4>2. CASE TlProbeGadget /\ UNCHANGED tlUdev
          BY <2>4, <3>1, <4>2 DEF TlProbeGadget, TlOwned
        <4>3. CASE TlProbeGadget /\ tlUdev' # tlUdev
          <5>1. TlGoto(Hub, "idle", NoTunnel)
            BY <1>4, <4>3 DEF TlProbeGadget
          <5>2. tlAt'[Hub].pc = "idle"
            BY <1>1, <5>1, TlGotoFacts DEF TlPc
          <5> QED
            BY <2>6, <5>2
        <4>4. CASE TlDisconnect
          BY <2>4, <4>4 DEF TlDisconnect
        <4> QED
          BY <4>1, <4>2, <4>3, <4>4
      <3>3. tlOops' = "none"
        BY <2>1, <3>1 DEF TlOwned
      <3>4. \A b \in TlActor : tlAt'[b].pc # "idle" => tlMem'[tlAt'[b].ut] = "live"
        BY <1>1, <2>1, <2>4, <2>6, <3>1 DEF TlOwned
      <3>5. ASSUME NEW b \in TlActor, b # Hub, tlAt[b].pc # "idle", tlAt[b].ut = t
            PROVE  pc = "idle"
        <4>1. tlAt[Hub].pc = "bound"
          BY <1>1, <3>1, <3>5 DEF TlOwned
        <4> QED
          BY <2>4, <4>1
      <3>6. ASSUME NEW b \in TlActor, NEW c \in TlActor, b # c, tlAt'[b].pc # "idle",
                   tlAt'[c].pc # "idle", tlAt'[b].ut = tlAt'[c].ut
            PROVE  \/ b = Hub /\ tlAt'[b].pc = "bound" /\ tlAt'[c].pc = "found"
                   \/ c = Hub /\ tlAt'[c].pc = "bound" /\ tlAt'[b].pc = "found"
        <4>1. CASE b = Hub
          BY <2>4, <2>6, <3>5, <3>6, <4>1
        <4>2. CASE c = Hub
          BY <2>4, <2>6, <3>5, <3>6, <4>2
        <4>3. CASE b # Hub /\ c # Hub
          BY <2>6, <3>1, <3>6, <4>3 DEF TlOwned
        <4> QED
          BY <4>1, <4>2, <4>3
      <3>7. tlAt'[Hub].pc \in {"gadget", "bound"} => tlUdev'[tlAt'[Hub].ut] = "here"
        BY <2>6, <3>2
      <3> QED
        BY <3>3, <3>4, <3>6, <3>7 DEF TlOwned
    <2> QED
      BY <2>2, <2>8, <2>9, <2>10 DEF TlInv
  <1> QED
    BY <1>3, <1>4

\* usbtunnel_exit.
LEMMA TlExitInv ==
    ASSUME TlInv, TlExit
    PROVE  TlInv'
  <1>1. /\ tlMem \in [Tunnel -> {"unused", "live", "freed"}] /\ tlList \in Seq(Tunnel)
        /\ \A a \in TlActor : tlAt[a].pc = "idle"
    BY DEF TlInv, TlTypeOK, TlExit
  <1>2. tlList' = << >> /\ UNCHANGED <<tlUdev, tlAt, tlRaced, tlOops>>
    BY DEF TlExit
  <1>3. /\ tlMem' \in [Tunnel -> {"unused", "live", "freed"}]
        /\ \A t \in Tunnel : tlMem'[t] # "live"
    <2>1. \A t \in Tunnel : Contains(tlList, t) <=> tlMem[t] = "live"
      BY <1>1, ListContains DEF TlInv, TlListed
    <2>2. tlMem' = [t \in Tunnel |-> IF Contains(tlList, t) THEN "freed" ELSE tlMem[t]]
      BY DEF TlExit
    <2> QED
      BY <1>1, <2>1, <2>2
  <1>4. TlListed'
    BY <1>2, <1>3 DEF TlListed, ToSet, IsInjective
  <1>5. TlTypeOK' /\ TlPlaces' /\ TlInHand'
    BY <1>1, <1>2, <1>3 DEF TlInv, TlTypeOK, TlPlaces, TlInHand
  <1>6. TlOwned => TlOwned'
    BY <1>1, <1>2 DEF TlOwned, TlActor
  <1> QED
    BY <1>2, <1>4, <1>5, <1>6 DEF TlInv

\* The invariant of the list holds at first, and every step keeps it.
LEMMA TlInitInv == TlInit => TlInv
  <1> SUFFICES ASSUME TlInit PROVE TlInv
    OBVIOUS
  <1>1. TlTypeOK
    <2>1. PICK r : r = TlIdle
      OBVIOUS
    <2>2. r \in TlRec
      BY <2>1 DEF TlIdle, TlRec, TlPc
    <2>3. tlAt \in [TlActor -> TlRec]
      BY <2>1, <2>2 DEF TlInit
    <2>4. tlList \in Seq(Tunnel)
      BY DEF TlInit
    <2>5. /\ tlMem \in [Tunnel -> {"unused", "live", "freed"}]
          /\ tlUdev \in [Tunnel -> {"none", "here", "stale"}]
          /\ tlRaced \in BOOLEAN /\ tlOops \in TlActor \union {"none"}
      BY DEF TlInit
    <2> QED
      BY <2>3, <2>4, <2>5 DEF TlTypeOK, TlRec, TlPc
  <1>2. \A a \in TlActor : tlAt[a].pc = "idle"
    BY DEF TlInit, TlIdle
  <1>3. TlInHand /\ TlPlaces
    BY <1>2 DEF TlInHand, TlPlaces, TlActor
  <1>4. TlListed
    BY DEF TlInit, TlListed, ToSet, IsInjective
  <1>5. TlOwned
    BY <1>2 DEF TlInit, TlOwned, TlActor
  <1> QED
    BY <1>1, <1>3, <1>4, <1>5 DEF TlInv

LEMMA TlNextInv ==
    ASSUME TlInv, TlNext
    PROVE  TlInv'
  <1>1. ASSUME NEW w \in Writer, NEW t \in Tunnel, TlAdd(w, t) PROVE TlInv'
    BY <1>1, TlAddInv
  <1>2. ASSUME NEW w \in Writer, TlDel(w) PROVE TlInv'
    <2>1. w \in TlActor /\ w # Hub
      BY TunnelsAssumption DEF TlActor, Hub
    <2> QED
      BY <1>2, <2>1, TlLookupInv, Zenon DEF TlDel
  <1>3. ASSUME NEW w \in Writer, TlDelCheck(w) PROVE TlInv'
    BY <1>3, TlDelCheckInv
  <1>4. ASSUME NEW w \in Writer, TlCleanup(w) PROVE TlInv'
    BY <1>4, TlCleanupInv
  <1>5. ASSUME TlProbe PROVE TlInv'
    BY <1>5, TlLookupInv DEF TlProbe, TlActor
  <1>6. ASSUME TlProbeUdev \/ TlProbeGadget \/ TlDisconnect PROVE TlInv'
    BY <1>6, TlHubInv
  <1> QED
    BY <1>1, <1>2, <1>3, <1>4, <1>5, <1>6, TlExitInv DEF TlNext

\* The invariant says what the property says.
LEMMA TlInvSound == TlInv => TunnelsSound
  BY DEF TlInv, TlListed, TlOwned, TunnelsSound, TlActor

-----------------------------------------------------------------------------
(* A bus of usblb.                                                         *)

\* The queue of URBs, what is owed, and the node that the transfer timer is at.
BusQueue ==
    /\ queue \in Seq(Urb) /\ owed \in [Urb -> {0, 1}]
    /\ IsInjective(queue)
    /\ \A u \in Urb : owed[u] = IF u \in ToSet(queue) THEN 1 ELSE 0
    /\ pos \in PassEnd .. Len(queue) /\ passed \subseteq Urb

\* The port.  connected_ends counts the reports, modulo 256, and each report is an event:
\* before there were 254 of them connected_ends is 2 on the way up or down exactly when
\* the excess of the reports is, which makes it the test that the code takes it for.
BusPort ==
    /\ status \subseteq {"power", "connection", "enable", "reset"}
    /\ change \subseteq {"connection", "enable", "reset"}
    /\ reports \in [host : Int, gadget : Int] /\ ends = Excess % 256
    /\ events \in Nat /\ -events <= Excess /\ Excess <= events
    /\ hub \in {"idle", "look"} /\ seen \in BOOLEAN /\ pulled \in BOOLEAN
    /\ teardown # "gone" =>
         /\ events < 254 => ("connection" \in status <=> Excess >= 2)
         /\ hub = "idle" /\ seen # ("connection" \in status) => "connection" \in change

\* The timer does not run any more once del_timer_sync was called for it.
BusQuiet ==
    /\ timer \in BOOLEAN
    /\ teardown \in {"no", "inactive", "stopped", "drained", "gone"}
    /\ teardown \in {"stopped", "drained", "gone"} => ~timer /\ pos = 0
    /\ teardown \in {"drained", "gone"} => queue = << >>

\* The gadget's endpoints and the rest.
BusGadget ==
    /\ requests \in [Ep -> 0 .. MaxQueued]
    /\ driver \in {"none", "bound", "stale"}
    /\ resetting \in BOOLEAN
    /\ events \in 0 .. MaxEvents
    /\ busOops \in {"none", "bus", "driver", "hcd", "node"}

BusInv == BusQueue /\ BusPort /\ BusQuiet /\ BusGadget

LEMMA BusInitInv == BusInit => BusInv
  <1> SUFFICES ASSUME BusInit PROVE BusInv
    OBVIOUS
  <1>1. MaxQueued \in Nat /\ MaxEvents \in Nat
    BY UsblbAssumption
  <1>2. BusQueue
    <2>1. queue = << >> /\ owed = [u \in Urb |-> 0] /\ pos = 0 /\ passed = {}
      BY DEF BusInit
    <2>2. queue \in Seq(Urb) /\ IsInjective(queue) /\ ToSet(queue) = {} /\ Len(queue) = 0
      BY <2>1 DEF IsInjective, ToSet
    <2> QED
      BY <2>1, <2>2 DEF BusQueue, PassEnd
  <1>3. BusPort
    <2>1. /\ status = {} /\ change = {} /\ ends = 0 /\ hub = "idle" /\ seen = FALSE
          /\ pulled = FALSE /\ events = 0 /\ reports = [host |-> 0, gadget |-> 0]
      BY DEF BusInit
    <2>2. Excess = 0 /\ reports \in [host : Int, gadget : Int]
      BY <2>1 DEF Excess
    <2>6. /\ pulled \in BOOLEAN /\ seen \in BOOLEAN /\ ~seen /\ "connection" \notin status
      BY <2>1
    <2>3. /\ pulled \in BOOLEAN /\ seen \in BOOLEAN /\ "connection" \notin status
          /\ seen = ("connection" \in status)
      BY <2>6
    <2>4. /\ ends = Excess % 256 /\ events \in Nat /\ -events <= Excess /\ Excess <= events
          /\ ~(Excess >= 2)
      BY <2>1, <2>2
    <2>5. /\ status \subseteq {"power", "connection", "enable", "reset"}
          /\ change \subseteq {"connection", "enable", "reset"} /\ hub \in {"idle", "look"}
      BY <2>1
    <2> QED
      BY <2>2, <2>3, <2>4, <2>5, Zenon DEF BusPort
  <1>4. BusQuiet
    BY DEF BusInit, BusQuiet
  <1>5. BusGadget
    <2>1. 0 \in 0 .. MaxQueued /\ 0 \in 0 .. MaxEvents
      BY <1>1
    <2> QED
      BY <2>1 DEF BusInit, BusGadget
  <1> QED
    BY <1>2, <1>3, <1>4, <1>5 DEF BusInv

\* What a visit of the transfer timer does to the queue: the URB goes back to its
\* driver, stays where it is, or the kernel stops.
LEMMA VisitMoves ==
    ASSUME Visit
    PROVE  GiveBack(queue[pos]) \/ Skip \/ UNCHANGED <<queue, owed, walk>>
  <1>1. CASE queue[pos] \in Control
    BY <1>1 DEF Visit, Setup, Transfer
  <1>2. CASE queue[pos] \notin Control
    BY <1>2 DEF Visit, Transfer
  <1> QED
    BY <1>1, <1>2

\* An URB that is given back leaves the queue, or goes to its end again.
LEMMA SubmitsFacts ==
    ASSUME BusQueue, pos > 0, HandlerSubmits(queue[pos])
    PROVE  BusQueue'
  <1> DEFINE u == queue[pos]
             rest == RemoveAt(queue, pos)
  <1>1. /\ queue \in Seq(Urb) /\ owed \in [Urb -> {0, 1}] /\ IsInjective(queue)
        /\ \A v \in Urb : owed[v] = IF v \in ToSet(queue) THEN 1 ELSE 0
        /\ passed \subseteq Urb
        /\ Len(queue) \in Nat /\ pos \in 1 .. Len(queue) /\ pos \in DOMAIN queue
    BY DEF BusQueue, PassEnd
  <1>2. u \in Urb /\ u \in ToSet(queue)
    BY <1>1, ElementOfSeq DEF ToSet
  <1>3. /\ rest \in Seq(Urb) /\ Len(rest) = Len(queue) - 1 /\ IsInjective(rest)
        /\ ToSet(rest) = ToSet(queue) \ {u}
    BY <1>1, ListDel
  <1>4. owed[u] = 1
    BY <1>1, <1>2
  <1>5. PICK again \in BOOLEAN :
           /\ queue' = IF again THEN Append(rest, u) ELSE rest
           /\ owed' = [owed EXCEPT ![u] = IF again THEN @ ELSE @ - 1]
           /\ Onward(TRUE) /\ passed' = passed \union {u}
    BY DEF HandlerSubmits
  <1> HIDE DEF u, rest
  <1>6. Len(rest) <= Len(queue') /\ Len(queue') \in Nat
    BY <1>1, <1>2, <1>3, <1>5, ListAdd
  <1>7. pos' \in PassEnd .. Len(queue')
    <2>1. pos' = PassEnd \/ (pos # Len(queue) /\ pos' = pos)
      BY <1>5 DEF Onward
    <2> QED
      BY <1>1, <1>3, <1>6, <2>1 DEF PassEnd
  <1>10. passed' \subseteq Urb
    BY <1>1, <1>2, <1>5
  <1>8. CASE again
    <2>1. queue' = Append(rest, u) /\ owed' = owed
      BY <1>1, <1>5, <1>8
    <2>2. queue' \in Seq(Urb) /\ IsInjective(queue') /\ ToSet(queue') = ToSet(queue)
      <3>1. /\ queue' \in Seq(Urb) /\ IsInjective(queue')
            /\ \A y : y \in ToSet(queue') <=> y \in ToSet(rest) \/ y = u
        <4>1. rest \in Seq(Urb) /\ IsInjective(rest) /\ u \in Urb /\ u \notin ToSet(rest)
          BY <1>2, <1>3
        <4>2. queue' = Append(rest, u)
          BY <2>1
        <4> QED
          BY <4>1, <4>2, ListAddTail, Zenon
      <3> QED
        BY <1>2, <1>3, <3>1
    <2> QED
      BY <1>1, <1>7, <1>10, <2>1, <2>2 DEF BusQueue
  <1>9. CASE ~again
    <2>1. queue' = rest
      BY <1>5, <1>9
    <2>2. owed' \in [Urb -> {0, 1}] /\ owed'[u] = 0 /\ \A v \in Urb : v # u => owed'[v] = owed[v]
      BY <1>1, <1>2, <1>4, <1>5, <1>9
    <2>3. \A v \in Urb : owed'[v] = IF v \in ToSet(queue') THEN 1 ELSE 0
      BY <1>1, <1>3, <2>1, <2>2
    <2> QED
      BY <1>3, <1>7, <1>10, <2>1, <2>2, <2>3 DEF BusQueue
  <1> QED
    BY <1>8, <1>9

\* What is submitted again while another URB is unlinked.
LEMMA SubmissionsFacts ==
    ASSUME NEW u \in Urb, NEW v \in Urb, u # v, NEW again \in Submissions(u, v)
    PROVE  /\ again \in Seq(Urb) /\ Len(again) \in Nat /\ IsInjective(again)
           /\ ToSet(again) \subseteq {u, v}
  <1>1. again \in {<< >>, <<u>>, <<v>>, <<u, v>>, <<v, u>>}
    BY DEF Submissions
  <1>2. CASE again = << >>
    BY <1>2 DEF IsInjective, ToSet
  <1>3. ASSUME NEW x \in {u, v}, again = <<x>>
        PROVE  /\ again \in Seq(Urb) /\ Len(again) = 1 /\ IsInjective(again)
               /\ ToSet(again) \subseteq {u, v}
    BY <1>3 DEF IsInjective, ToSet
  <1>4. ASSUME NEW x \in {u, v}, NEW y \in {u, v}, x # y, again = <<x, y>>
        PROVE  /\ again \in Seq(Urb) /\ Len(again) = 2 /\ IsInjective(again)
               /\ ToSet(again) \subseteq {u, v}
    BY <1>4 DEF IsInjective, ToSet
  <1> QED
    BY <1>1, <1>2, <1>3, <1>4

\* A list with others of its kind at its end.
LEMMA ListConcat ==
    ASSUME NEW S, NEW s \in Seq(S), NEW t \in Seq(S), IsInjective(s), IsInjective(t),
           \A x \in ToSet(t) : x \notin ToSet(s)
    PROVE  /\ s \o t \in Seq(S) /\ Len(s \o t) = Len(s) + Len(t) /\ IsInjective(s \o t)
           /\ \A y : y \in ToSet(s \o t) <=> y \in ToSet(s) \/ y \in ToSet(t)
  <1> DEFINE r == s \o t
  <1>1. /\ r \in Seq(S) /\ Len(r) = Len(s) + Len(t) /\ DOMAIN r = 1 .. Len(r)
        /\ Len(s) \in Nat /\ Len(t) \in Nat
        /\ DOMAIN s = 1 .. Len(s) /\ DOMAIN t = 1 .. Len(t)
    OBVIOUS
  <1>2. /\ \A i \in DOMAIN s : i \in DOMAIN r /\ r[i] = s[i]
        /\ \A i \in DOMAIN t : i + Len(s) \in DOMAIN r /\ r[i + Len(s)] = t[i]
    BY <1>1
  <1>3. \A i \in DOMAIN r : \/ i \in DOMAIN s /\ r[i] = s[i]
                            \/ i - Len(s) \in DOMAIN t /\ r[i] = t[i - Len(s)] /\ i > Len(s)
    BY <1>1
  <1> HIDE DEF r
  <1>4. \A y : y \in ToSet(r) <=> y \in ToSet(s) \/ y \in ToSet(t)
    BY <1>2, <1>3 DEF ToSet
  <1>5. ASSUME NEW i \in DOMAIN r, NEW j \in DOMAIN r, r[i] = r[j] PROVE i = j
    <2>1. CASE i \in DOMAIN s /\ j \in DOMAIN s
      BY <1>2, <1>5, <2>1 DEF IsInjective
    <2>2. CASE i \notin DOMAIN s /\ j \notin DOMAIN s
      <3>1. /\ i - Len(s) \in DOMAIN t /\ r[i] = t[i - Len(s)]
            /\ j - Len(s) \in DOMAIN t /\ r[j] = t[j - Len(s)]
        BY <1>3, <2>2
      <3>2. i - Len(s) = j - Len(s)
        BY <1>5, <3>1 DEF IsInjective
      <3> QED
        BY <1>1, <3>2
    <2>3. ASSUME NEW m \in DOMAIN r
          PROVE  IF m \in DOMAIN s THEN r[m] \in ToSet(s) ELSE r[m] \in ToSet(t)
      <3>1. CASE m \in DOMAIN s
        BY <1>2, <3>1 DEF ToSet
      <3>2. CASE m \notin DOMAIN s
        BY <1>3, <3>2 DEF ToSet
      <3> QED
        BY <3>1, <3>2
    <2>4. CASE i \in DOMAIN s /\ j \notin DOMAIN s
      <3>1. r[i] \in ToSet(s) /\ r[j] \in ToSet(t)
        BY <2>3, <2>4
      <3> QED
        BY <1>5, <3>1
    <2>5. CASE i \notin DOMAIN s /\ j \in DOMAIN s
      <3>1. r[i] \in ToSet(t) /\ r[j] \in ToSet(s)
        BY <2>3, <2>5
      <3> QED
        BY <1>5, <3>1
    <2> QED
      BY <2>1, <2>2, <2>4, <2>5
  <1>6. IsInjective(r)
    BY <1>5 DEF IsInjective
  <1> QED
    BY <1>1, <1>4, <1>6 DEF r

\* A completion handler that unlinks another URB: both leave the queue, or go to its end.
LEMMA UnlinksFacts ==
    ASSUME BusQueue, pos > 0, HandlerUnlinks(queue[pos])
    PROVE  BusQueue'
  <1> DEFINE u == queue[pos]
             rest == RemoveAt(queue, pos)
  <1>1. /\ queue \in Seq(Urb) /\ owed \in [Urb -> {0, 1}] /\ IsInjective(queue)
        /\ \A v \in Urb : owed[v] = IF v \in ToSet(queue) THEN 1 ELSE 0
        /\ passed \subseteq Urb
        /\ Len(queue) \in Nat /\ pos \in 1 .. Len(queue) /\ pos \in DOMAIN queue
    BY DEF BusQueue, PassEnd
  <1>2. u \in Urb /\ u \in ToSet(queue)
    BY <1>1, ElementOfSeq DEF ToSet
  <1>3. /\ rest \in Seq(Urb) /\ Len(rest) = Len(queue) - 1 /\ IsInjective(rest)
        /\ ToSet(rest) = ToSet(queue) \ {u}
    BY <1>1, ListDel
  <1>4. PICK k \in DOMAIN rest :
          IF k = pos
          THEN UNCHANGED <<queue, owed, walk>>
          ELSE \E again \in Submissions(u, rest[k]) :
                 /\ queue' = RemoveAt(rest, k) \o again
                 /\ passed' = passed \union {u, rest[k]}
                 /\ owed' = [w \in Urb |-> IF w \in {u, rest[k]} /\ w \notin ToSet(again)
                                          THEN owed[w] - 1 ELSE owed[w]]
                 /\ pos' = IF pos = Len(queue) THEN PassEnd ELSE IF k < pos THEN pos - 1 ELSE pos
    BY DEF HandlerUnlinks
  <1>5. CASE k = pos
    <2>1. UNCHANGED <<queue, owed, pos, passed>>
      BY <1>4, <1>5 DEF walk
    <2> QED
      BY <2>1 DEF BusQueue
  <1>6. CASE k # pos
    <2> DEFINE v == rest[k]
               left == RemoveAt(rest, k)
    <2>1. PICK again \in Submissions(u, v) :
                 /\ queue' = left \o again
                 /\ passed' = passed \union {u, v}
                 /\ owed' = [w \in Urb |-> IF w \in {u, v} /\ w \notin ToSet(again)
                                          THEN owed[w] - 1 ELSE owed[w]]
                 /\ pos' = IF pos = Len(queue) THEN PassEnd ELSE IF k < pos THEN pos - 1 ELSE pos
      BY <1>4, <1>6
    <2> HIDE DEF u, rest
    <2>2. k \in 1 .. Len(queue) - 1 /\ v \in Urb /\ v \in ToSet(rest)
      BY <1>3, ElementOfSeq DEF ToSet
    <2>3. /\ left \in Seq(Urb) /\ Len(left) = Len(rest) - 1 /\ IsInjective(left)
          /\ ToSet(left) = ToSet(rest) \ {v}
      BY <1>3, ListDel
    <2> HIDE DEF v, left
    <2>4. u # v
      BY <1>3, <2>2
    <2>5. /\ again \in Seq(Urb) /\ Len(again) \in Nat /\ IsInjective(again)
          /\ ToSet(again) \subseteq {u, v}
      BY <1>2, <2>2, <2>4, SubmissionsFacts
    <2>6. \A x \in ToSet(again) : x \notin ToSet(left)
      BY <1>3, <2>3, <2>5
    <2>7. /\ queue' \in Seq(Urb) /\ Len(queue') = Len(left) + Len(again) /\ IsInjective(queue')
          /\ \A y : y \in ToSet(queue') <=> y \in ToSet(left) \/ y \in ToSet(again)
      <3>1. left \in Seq(Urb) /\ again \in Seq(Urb) /\ IsInjective(left) /\ IsInjective(again)
        BY <2>3, <2>5
      <3>2. queue' = left \o again
        BY <2>1
      <3> QED
        BY <2>6, <3>1, <3>2, ListConcat, Zenon
    <2>8. pos' \in PassEnd .. Len(queue')
      BY <1>1, <1>3, <1>6, <2>1, <2>2, <2>3, <2>5, <2>7, SMTT(30) DEF PassEnd
    <2>9. passed' \subseteq Urb
      BY <1>1, <1>2, <2>1, <2>2
    <2>10. ASSUME NEW w \in Urb
           PROVE  /\ owed'[w] = IF w \in ToSet(queue') THEN 1 ELSE 0
                  /\ owed'[w] \in {0, 1}
      <3>1. owed'[w] = IF w \in {u, v} /\ w \notin ToSet(again) THEN owed[w] - 1 ELSE owed[w]
        BY <2>1
      <3>2. CASE w \in {u, v}
        <4>1. owed[w] = 1 /\ w \notin ToSet(left)
          BY <1>1, <1>2, <1>3, <2>2, <2>3, <3>2
        <4> QED
          BY <2>7, <3>1, <3>2, <4>1
      <3>3. CASE w \notin {u, v}
        <4>1. w \in ToSet(queue') <=> w \in ToSet(queue)
          BY <1>3, <2>3, <2>5, <2>7, <3>3
        <4> QED
          BY <1>1, <3>1, <3>3, <4>1
      <3> QED
        BY <3>2, <3>3
    <2>11. owed' \in [Urb -> {0, 1}]
      <3>1. owed' = [w \in Urb |-> owed'[w]]
        BY <2>1
      <3> QED
        BY <2>10, <3>1
    <2> QED
      BY <2>7, <2>8, <2>9, <2>10, <2>11 DEF BusQueue
  <1> QED
    BY <1>5, <1>6

LEMMA GiveBackFacts ==
    ASSUME BusQueue, pos > 0, GiveBack(queue[pos])
    PROVE  BusQueue'
  BY SubmitsFacts, UnlinksFacts DEF GiveBack

\* Every step of the bus keeps the queue.
LEMMA BusQueueInv ==
    ASSUME BusInv, BusNext
    PROVE  BusQueue'
  <1>1. /\ BusQueue
        /\ queue \in Seq(Urb) /\ owed \in [Urb -> {0, 1}] /\ IsInjective(queue)
        /\ \A v \in Urb : owed[v] = IF v \in ToSet(queue) THEN 1 ELSE 0
        /\ Len(queue) \in Nat /\ pos \in PassEnd .. Len(queue) /\ passed \subseteq Urb
    BY DEF BusInv, BusQueue
  <1>2. ASSUME UNCHANGED <<queue, owed, walk>> PROVE BusQueue'
    BY <1>1, <1>2 DEF BusQueue, walk
  <1>3. ASSUME UNCHANGED <<queue, owed>>, pos' \in PassEnd .. Len(queue), passed' \subseteq Urb
        PROVE  BusQueue'
    BY <1>1, <1>3 DEF BusQueue
  <1>4. ASSUME HubDriver \/ PowerOn \/ PowerOff \/ PortReset \/ FinishReset PROVE BusQueue'
    BY <1>2, <1>4 DEF HubDriver, ClearChange, GetPortStatus, PowerOn, PowerOff, PortReset, FinishReset
  <1>5. ASSUME Start \/ Stop \/ PullUp \/ PullDown \/ \E e \in Ep : GadgetQueue(e) \/ Dequeue(e)
        PROVE  BusQueue'
    BY <1>2, <1>5 DEF Start, Stop, PullUp, PullDown, GadgetQueue, Dequeue
  <1>6. ASSUME NEW u \in Urb, UrbEnqueue(u) PROVE BusQueue'
    <2>1. /\ owed[u] = 0 /\ queue' = Append(queue, u) /\ owed' = [owed EXCEPT ![u] = @ + 1]
          /\ pos' = pos /\ passed' = passed
      BY <1>6 DEF UrbEnqueue, walk
    <2>2. u \notin ToSet(queue)
      BY <1>1, <2>1
    <2>3. /\ queue' \in Seq(Urb) /\ IsInjective(queue') /\ Len(queue') = Len(queue) + 1
          /\ \A y : y \in ToSet(queue') <=> y \in ToSet(queue) \/ y = u
      <3>1. queue \in Seq(Urb) /\ IsInjective(queue) /\ queue' = Append(queue, u)
        BY <1>1, <2>1
      <3>2. /\ queue' \in Seq(Urb) /\ IsInjective(queue')
            /\ \A y : y \in ToSet(queue') <=> y \in ToSet(queue) \/ y = u
        BY <2>2, <3>1, ListAddTail, Zenon
      <3>3. Len(queue') = Len(queue) + 1
        BY <3>1
      <3> QED
        BY <3>2, <3>3
    <2>4. owed' \in [Urb -> {0, 1}] /\ owed'[u] = 1 /\ \A v \in Urb : v # u => owed'[v] = owed[v]
      BY <1>1, <2>1
    <2>5. \A v \in Urb : owed'[v] = IF v \in ToSet(queue') THEN 1 ELSE 0
      BY <1>1, <2>3, <2>4
    <2>6. pos' \in PassEnd .. Len(queue')
      BY <1>1, <2>1, <2>3 DEF PassEnd
    <2> QED
      BY <1>1, <2>1, <2>3, <2>4, <2>5, <2>6 DEF BusQueue
  <1>7. ASSUME NEW u \in Urb, UrbDequeue(u) PROVE BusQueue'
    <2> DEFINE k == CHOOSE i \in DOMAIN queue : queue[i] = u
    <2>1. /\ owed[u] > 0 /\ queue' = RemoveAt(queue, k) /\ owed' = [owed EXCEPT ![u] = @ - 1]
          /\ pos' = 0 /\ passed' = passed
      BY <1>7 DEF UrbDequeue, Free, walk
    <2>2. u \in ToSet(queue) /\ owed[u] = 1
      BY <1>1, <2>1
    <2>3. k \in DOMAIN queue /\ queue[k] = u
      BY <1>1, <2>2, ListFind
    <2> HIDE DEF k
    <2>4. queue' \in Seq(Urb) /\ IsInjective(queue') /\ ToSet(queue') = ToSet(queue) \ {u}
      BY <1>1, <2>1, <2>3, ListDel
    <2>5. owed' \in [Urb -> {0, 1}] /\ owed'[u] = 0 /\ \A v \in Urb : v # u => owed'[v] = owed[v]
      BY <1>1, <2>1, <2>2
    <2>6. \A v \in Urb : owed'[v] = IF v \in ToSet(queue') THEN 1 ELSE 0
      BY <1>1, <2>4, <2>5
    <2>7. pos' \in PassEnd .. Len(queue')
      BY <2>1, <2>4, LenProperties DEF PassEnd
    <2> QED
      BY <1>1, <2>1, <2>4, <2>5, <2>6, <2>7 DEF BusQueue
  <1>8. ASSUME TransferBegin PROVE BusQueue'
    <2>1. pos' = IF queue = << >> THEN PassEnd ELSE 1
      BY <1>8 DEF TransferBegin
    <2>2. queue # << >> => Len(queue) > 0
      BY <1>1, EmptySeq
    <2>3. pos' \in PassEnd .. Len(queue)
      BY <1>1, <2>1, <2>2 DEF PassEnd
    <2> QED
      BY <1>1, <1>3, <1>8, <2>3 DEF TransferBegin
  <1>9. ASSUME TransferEnd PROVE BusQueue'
    <2>1. pos' \in PassEnd .. Len(queue)
      BY <1>1, <1>9 DEF TransferEnd, PassEnd
    <2> QED
      BY <1>1, <1>3, <1>9, <2>1 DEF TransferEnd
  <1>10. ASSUME Visit PROVE BusQueue'
    <2>1. pos > 0
      BY <1>10 DEF Visit
    <2>2. CASE Skip
      <3>1. pos' = PassEnd \/ (pos # Len(queue) /\ pos' = pos + 1)
        BY <2>2 DEF Skip, Onward
      <3>2. pos' \in PassEnd .. Len(queue)
        BY <1>1, <2>1, <3>1 DEF PassEnd
      <3>3. passed' \subseteq Urb
        <4>1. pos \in DOMAIN queue
          BY <1>1, <2>1 DEF PassEnd
        <4>2. queue[pos] \in Urb
          BY <1>1, <4>1, ElementOfSeq
        <4> QED
          BY <1>1, <2>2, <4>2 DEF Skip
      <3> QED
        BY <1>3, <2>2, <3>2, <3>3 DEF Skip
    <2> QED
      BY <1>1, <1>2, <1>10, <2>1, <2>2, VisitMoves, GiveBackFacts
  <1>11. ASSUME Deactivate \/ DelTimer \/ DeviceCleanup PROVE BusQueue'
    BY <1>2, <1>11 DEF Deactivate, DelTimer, DeviceCleanup
  <1>13. ASSUME CleanupQueues, UNCHANGED <<queue, owed>> PROVE BusQueue'
    BY <1>2, <1>13 DEF CleanupQueues
  <1>12. ASSUME CleanupQueues, ~UNCHANGED <<queue, owed>> PROVE BusQueue'
    <2>1. /\ queue' = << >> /\ pos' = 0 /\ passed' = passed
          /\ owed' = [u \in Urb |-> IF Contains(queue, u) THEN owed[u] - 1 ELSE owed[u]]
      BY <1>12 DEF CleanupQueues, Free, walk
    <2>2. \A u \in Urb : Contains(queue, u) <=> u \in ToSet(queue)
      BY <1>1, ListContains
    <2>3. owed' \in [Urb -> {0, 1}] /\ \A u \in Urb : owed'[u] = 0
      BY <1>1, <2>1, <2>2
    <2>4. queue' \in Seq(Urb) /\ IsInjective(queue') /\ ToSet(queue') = {} /\ Len(queue') = 0
      BY <2>1 DEF IsInjective, ToSet
    <2> QED
      BY <1>1, <2>1, <2>3, <2>4 DEF BusQueue, PassEnd
  <1> QED
    BY <1>4, <1>5, <1>6, <1>7, <1>8, <1>9, <1>10, <1>11, <1>12, <1>13
    DEF BusNext, Timers, Cleanup

\* A report moves connected_ends and the excess of the reports together.
LEMMA ReportFacts ==
    ASSUME BusPort, teardown # "gone", Event,
           NEW flags, flags \subseteq {"power", "connection", "enable", "reset"},
           "connection" \in flags <=> "connection" \in status,
           NEW end \in {"host", "gadget"},
           Connect(flags, end) \/ Disconnect(flags, end),
           UNCHANGED <<hub, seen, teardown>>, pulled' \in BOOLEAN
    PROVE  BusPort'
  <1>1. /\ reports.host \in Int /\ reports.gadget \in Int /\ Excess \in Int
        /\ reports \in [host : Int, gadget : Int]
        /\ events \in Nat /\ events' = events + 1
        /\ ends = Excess % 256 /\ -events <= Excess /\ Excess <= events
        /\ events < 254 => ("connection" \in status <=> Excess >= 2)
    BY DEF BusPort, Excess, Event
  <1>2. CASE Connect(flags, end)
    <2>1. /\ reports' \in [host : Int, gadget : Int] /\ Excess' = Excess + 1
          /\ ends' = (ends + 1) % 256
      BY <1>1, <1>2 DEF Connect, Excess
    <2>2. ends' = Excess' % 256 /\ -events' <= Excess' /\ Excess' <= events' /\ events' \in Nat
      BY <1>1, <2>1
    <2>3. CASE ends' = 2
      <3>1. /\ status' = flags \union {"connection"} /\ change' = change \union {"connection"}
        BY <1>2, <2>3 DEF Connect
      <3>2. events' < 254 => Excess' >= 2
        BY <1>1, <2>1, <2>2, <2>3
      <3> QED
        BY <2>1, <2>2, <3>1, <3>2 DEF BusPort
    <2>4. CASE ends' # 2
      <3>1. status' = flags /\ change' = change
        BY <1>2, <2>4 DEF Connect
      <3>2. events' < 254 => (Excess' >= 2 <=> Excess >= 2)
        BY <1>1, <2>1, <2>2, <2>4
      <3>3. events' < 254 => ("connection" \in status' <=> Excess' >= 2)
        BY <1>1, <3>1, <3>2
      <3> QED
        BY <2>1, <2>2, <3>1, <3>3 DEF BusPort
    <2> QED
      BY <2>3, <2>4
  <1>3. CASE Disconnect(flags, end)
    <2>1. /\ reports' \in [host : Int, gadget : Int] /\ Excess' = Excess - 1
          /\ ends' = (ends - 1) % 256
      BY <1>1, <1>3 DEF Disconnect, Excess
    <2>2. ends' = Excess' % 256 /\ -events' <= Excess' /\ Excess' <= events' /\ events' \in Nat
      BY <1>1, <2>1
    <2>3. CASE ends = 2
      <3>1. /\ status' = flags \ {"connection", "enable"} /\ change' = change \union {"connection"}
        BY <1>3, <2>3 DEF Disconnect
      <3>2. events' < 254 => ~(Excess' >= 2)
        BY <1>1, <2>1, <2>2, <2>3
      <3> QED
        BY <2>1, <2>2, <3>1, <3>2 DEF BusPort
    <2>4. CASE ends # 2
      <3>1. status' = flags /\ change' = change
        BY <1>3, <2>4 DEF Disconnect
      <3>2. events' < 254 => (Excess' >= 2 <=> Excess >= 2)
        BY <1>1, <2>1, <2>2, <2>4
      <3>3. events' < 254 => ("connection" \in status' <=> Excess' >= 2)
        BY <1>1, <3>1, <3>2
      <3> QED
        BY <2>1, <2>2, <3>1, <3>3 DEF BusPort
    <2> QED
      BY <2>3, <2>4
  <1> QED
    BY <1>2, <1>3

\* Every step keeps the port.
LEMMA BusPortInv ==
    ASSUME BusInv, BusNext
    PROVE  BusPort'
  <1>1. BusPort
    BY DEF BusInv
  <1>2. ASSUME UNCHANGED <<port, events, hub, seen, pulled>>,
               teardown' # "gone" => teardown # "gone"
        PROVE  BusPort'
    BY <1>1, <1>2 DEF BusPort, port, Excess
  <1>3. CASE PowerOn
    <2>1. /\ teardown # "gone" /\ Event /\ Connect(status \union {"power"}, "host")
          /\ UNCHANGED <<hub, seen, pulled, teardown>>
      BY <1>3 DEF PowerOn
    <2>2. status \union {"power"} \subseteq {"power", "connection", "enable", "reset"}
          /\ pulled' \in BOOLEAN
      BY <1>1, <2>1 DEF BusPort
    <2> QED
      BY <1>1, <2>1, <2>2, ReportFacts
  <1>4. CASE PowerOff
    <2>1. /\ teardown # "gone" /\ Event /\ Disconnect(status \ {"power"}, "host")
          /\ UNCHANGED <<hub, seen, pulled, teardown>>
      BY <1>4 DEF PowerOff
    <2>2. status \ {"power"} \subseteq {"power", "connection", "enable", "reset"}
          /\ pulled' \in BOOLEAN
      BY <1>1, <2>1 DEF BusPort
    <2> QED
      BY <1>1, <2>1, <2>2, ReportFacts
  <1>5. ASSUME NEW f \in {"connection", "enable", "reset"}, ClearChange(f) PROVE BusPort'
    BY <1>1, <1>5 DEF BusPort, ClearChange, Excess
  <1>6. CASE GetPortStatus
    BY <1>1, <1>6 DEF BusPort, GetPortStatus, port, Excess
  <1>7. CASE PortReset
    <2>1. events \in Nat /\ events' = events + 1
      BY <1>1, <1>7 DEF BusPort, PortReset, Event
    <2>2. /\ UNCHANGED <<change, ends, reports, hub, seen, pulled, teardown>>
          /\ status' = (status \union {"reset"}) \ {"enable"}
      BY <1>7 DEF PortReset
    <2>3. Excess' = Excess /\ Excess \in Int
      BY <1>1, <2>2 DEF BusPort, Excess
    <2>4. -events' <= Excess' /\ Excess' <= events' /\ events' \in Nat
      BY <1>1, <2>1, <2>3 DEF BusPort
    <2>5. events' < 254 => events < 254
      BY <2>1
    <2>6. status \subseteq {"power", "connection", "enable", "reset"}
      BY <1>1 DEF BusPort
    <2>7. /\ "connection" \in status' <=> "connection" \in status
          /\ status' \subseteq {"power", "connection", "enable", "reset"}
      BY <2>2, <2>6
    <2>8. ends' = Excess' % 256
      BY <1>1, <2>2, <2>3 DEF BusPort
    <2>9. /\ change' \subseteq {"connection", "enable", "reset"}
          /\ reports' \in [host : Int, gadget : Int]
          /\ hub' \in {"idle", "look"} /\ seen' \in BOOLEAN /\ pulled' \in BOOLEAN
      BY <1>1, <2>2 DEF BusPort
    <2>10. ASSUME teardown' # "gone"
           PROVE  /\ events' < 254 => ("connection" \in status' <=> Excess' >= 2)
                  /\ hub' = "idle" /\ seen' # ("connection" \in status') =>
                         "connection" \in change'
      <3>1. /\ teardown # "gone" /\ change' = change /\ hub' = hub /\ seen' = seen
            /\ Excess' = Excess
        BY <2>2, <2>3, <2>10
      <3>2. /\ events < 254 => ("connection" \in status <=> Excess >= 2)
            /\ hub = "idle" /\ seen # ("connection" \in status) => "connection" \in change
        BY <1>1, <3>1, Zenon DEF BusPort
      <3>3. ("connection" \in status') = ("connection" \in status)
        BY <2>7
      <3> QED
        BY <2>5, <2>7, <3>1, <3>2, <3>3, Zenon
    <2> QED
      BY <2>4, <2>7, <2>8, <2>9, <2>10, Zenon DEF BusPort
  <1>8. CASE FinishReset
    <2>1. UNCHANGED <<ends, reports, hub, seen, pulled, teardown, events>> /\ Excess' = Excess
      BY <1>8 DEF FinishReset, Excess
    <2>2. CASE teardown = "gone"
      BY <1>1, <1>8, <2>1, <2>2 DEF BusPort, FinishReset
    <2>3. CASE teardown # "gone"
      <3>1. /\ change' = change \union {"enable", "reset"}
            /\ status' = (status \union {"enable"}) \ {"reset"}
        BY <1>8, <2>3 DEF FinishReset
      <3> QED
        BY <1>1, <2>1, <2>3, <3>1 DEF BusPort
    <2> QED
      BY <2>2, <2>3
  <1>9. CASE PullUp \/ PullDown
    <2>1. /\ teardown # "gone" /\ Event /\ pulled' \in BOOLEAN
          /\ Connect(status, "gadget") \/ Disconnect(status, "gadget")
          /\ UNCHANGED <<hub, seen, teardown>>
      BY <1>9 DEF PullUp, PullDown
    <2>2. status \subseteq {"power", "connection", "enable", "reset"}
      BY <1>1 DEF BusPort
    <2> QED
      BY <1>1, <2>1, <2>2, ReportFacts
  <1>11. CASE DeviceCleanup
    <2>1. /\ UNCHANGED <<status, change, ends, reports, events>> /\ teardown' = "gone"
          /\ Excess' = Excess
      BY <1>11 DEF DeviceCleanup, port, Excess
    <2>2. hub' \in {"idle", "look"} /\ seen' \in BOOLEAN /\ pulled' \in BOOLEAN
      BY <1>11 DEF DeviceCleanup
    <2> QED
      BY <1>1, <2>1, <2>2 DEF BusPort
  <1>12. ASSUME Start \/ Stop \/ \E e \in Ep : GadgetQueue(e) \/ Dequeue(e) PROVE BusPort'
    BY <1>2, <1>12 DEF Start, Stop, GadgetQueue, Dequeue
  <1>13. ASSUME NEW u \in Urb, UrbEnqueue(u) \/ UrbDequeue(u) PROVE BusPort'
    BY <1>2, <1>13 DEF UrbEnqueue, UrbDequeue
  <1>14. CASE Timers
    BY <1>2, <1>14 DEF Timers, TransferBegin, Visit, TransferEnd
  <1>15. CASE Deactivate \/ DelTimer \/ CleanupQueues
    BY <1>2, <1>15 DEF Deactivate, DelTimer, CleanupQueues
  <1> QED
    BY <1>3, <1>4, <1>5, <1>6, <1>7, <1>8, <1>9, <1>11, <1>12, <1>13, <1>14, <1>15
    DEF BusNext, HubDriver, Cleanup

\* Every step keeps the transfer timer where the teardown left it.
LEMMA BusQuietInv ==
    ASSUME BusInv, BusNext
    PROVE  BusQuiet'
  <1>1. BusQuiet
    BY DEF BusInv
  <1>2. ASSUME UNCHANGED <<queue, timer, pos, teardown>> PROVE BusQuiet'
    BY <1>1, <1>2 DEF BusQuiet
  <1>3. ASSUME HubDriver \/ PowerOn \/ PowerOff \/ PortReset \/ FinishReset PROVE BusQuiet'
    BY <1>2, <1>3 DEF HubDriver, ClearChange, GetPortStatus, PowerOn, PowerOff, PortReset, FinishReset, walk
  <1>4. ASSUME Start \/ Stop \/ PullUp \/ PullDown \/ \E e \in Ep : GadgetQueue(e) \/ Dequeue(e)
        PROVE  BusQuiet'
    BY <1>2, <1>4 DEF Start, Stop, PullUp, PullDown, GadgetQueue, Dequeue, walk
  <1>5. ASSUME NEW u \in Urb, UrbEnqueue(u) PROVE BusQuiet'
    BY <1>1, <1>5 DEF BusQuiet, UrbEnqueue, active, walk
  <1>6. ASSUME NEW u \in Urb, UrbDequeue(u) PROVE BusQuiet'
    <2>1. queue # << >>
      <3>1. owed[u] > 0
        BY <1>6 DEF UrbDequeue
      <3>2. u \in ToSet(queue)
        BY <3>1 DEF BusInv, BusQueue
      <3> QED
        BY <3>2 DEF ToSet
    <2>2. UNCHANGED <<timer, pos, teardown>>
      BY <1>6 DEF UrbDequeue, walk
    <2> QED
      BY <1>1, <2>1, <2>2 DEF BusQuiet
  <1>7. CASE TransferBegin
    BY <1>1, <1>7 DEF BusQuiet, TransferBegin
  <1>8. CASE Visit
    <2>1. pos > 0 /\ UNCHANGED <<timer, teardown>>
      BY <1>8 DEF Visit
    <2>2. pos # 0 /\ teardown \notin {"stopped", "drained", "gone"}
      BY <1>1, <2>1 DEF BusQuiet
    <2> QED
      BY <1>1, <2>1, <2>2 DEF BusQuiet
  <1>9. CASE TransferEnd
    BY <1>1, <1>9 DEF BusQuiet, TransferEnd, active, PassEnd
  <1>10. CASE Deactivate \/ DelTimer
    BY <1>1, <1>10 DEF BusQuiet, Deactivate, DelTimer, Free, walk
  <1>11. CASE CleanupQueues \/ DeviceCleanup
    BY <1>1, <1>11 DEF BusQuiet, CleanupQueues, DeviceCleanup, Free, walk
  <1> QED
    BY <1>3, <1>4, <1>5, <1>6, <1>7, <1>8, <1>9, <1>10, <1>11 DEF BusNext, Timers, Cleanup

\* A visit takes requests off an endpoint's list, and its driver may put them back.
LEMMA VisitRequests ==
    ASSUME BusGadget, Visit
    PROVE  requests' \in [Ep -> 0 .. MaxQueued] /\ busOops' \in {busOops, "driver", "node"}
  <1> DEFINE u == queue[pos]
  <1>1. MaxQueued \in Nat /\ requests \in [Ep -> 0 .. MaxQueued] /\ EpOf(u) \in Ep
    BY UsblbAssumption DEF BusGadget, EpOf, Ep
  <1>2. ASSUME NEW n \in 0 .. MaxQueued, Transfer(u, n)
        PROVE  requests' \in [Ep -> 0 .. MaxQueued]
    <2>1. CASE n = 0
      <3>1. requests' = [requests EXCEPT ![EpOf(u)] = 0]
        BY <1>2, <2>1 DEF Transfer
      <3>2. 0 \in 0 .. MaxQueued
        BY <1>1
      <3> HIDE DEF u
      <3> QED
        BY <1>1, <3>1, <3>2
    <2>2. CASE n # 0
      <3>1. PICK again \in BOOLEAN :
               requests' = [requests EXCEPT ![EpOf(u)] = IF again THEN n ELSE n - 1]
        BY <1>2, <2>2 DEF Transfer
      <3>2. PICK m : m = IF again THEN n ELSE n - 1
        OBVIOUS
      <3>3. m \in 0 .. MaxQueued
        BY <1>1, <1>2, <2>2, <3>2
      <3>4. requests' = [requests EXCEPT ![EpOf(u)] = m]
        BY <3>1, <3>2
      <3> HIDE DEF u
      <3> QED
        BY <1>1, <3>3, <3>4
    <2> QED
      BY <2>1, <2>2
  <1>5. ASSUME GiveBack(u) \/ Skip PROVE busOops' \in {busOops, "driver", "node"}
    BY <1>5 DEF GiveBack, HandlerSubmits, HandlerUnlinks, Skip
  <1>6. busOops' \in {busOops, "driver", "node"}
    BY <1>5 DEF Visit, Setup, Transfer
  <1>3. CASE u \in Control
    <2>1. Setup(u)
      BY <1>3 DEF Visit
    <2>2. CASE UNCHANGED requests
      BY <1>1, <1>6, <2>1, <2>2 DEF Setup
    <2>3. CASE \E answers \in {0, 1} :
                  /\ answers = 1 => active /\ requests[0] < MaxQueued
                  /\ Transfer(u, requests[0] + answers)
      <3>1. PICK answers \in {0, 1} :
               /\ answers = 1 => requests[0] < MaxQueued
               /\ Transfer(u, requests[0] + answers)
        BY <2>3
      <3>2. requests[0] + answers \in 0 .. MaxQueued
        BY <1>1, <3>1 DEF Ep
      <3>3. requests' \in [Ep -> 0 .. MaxQueued]
        BY <1>2, <3>1, <3>2
      <3> QED
        BY <1>6, <3>3
    <2>4. \/ UNCHANGED requests
          \/ \E answers \in {0, 1} :
                  /\ answers = 1 => active /\ requests[0] < MaxQueued
                  /\ Transfer(u, requests[0] + answers)
      BY <2>1, Zenon DEF Setup
    <2> QED
      BY <2>2, <2>3, <2>4, Zenon
  <1>4. CASE u \notin Control
    <2>1. Transfer(u, requests[1])
      BY <1>4 DEF Visit
    <2>2. requests[1] \in 0 .. MaxQueued
      BY <1>1 DEF Ep
    <2> QED
      BY <1>2, <1>6, <2>1, <2>2
  <1> QED
    BY <1>3, <1>4

\* Every step keeps the gadget's endpoints, and the counters in their bounds.
LEMMA BusGadgetInv ==
    ASSUME BusInv, BusNext
    PROVE  BusGadget'
  <1>1. BusGadget /\ busOops = "none"
    BY DEF BusInv, BusNext
  <1>2. MaxQueued \in Nat /\ MaxEvents \in Nat
    BY UsblbAssumption
  <1>3. ASSUME UNCHANGED <<requests, driver, resetting, events>>,
               busOops' \in {"none", "bus", "driver", "hcd", "node"}
        PROVE  BusGadget'
    BY <1>1, <1>3 DEF BusGadget
  <1>4. Event => events' \in 0 .. MaxEvents
    BY <1>1, <1>2 DEF Event, BusGadget
  <1>5. ASSUME HubDriver PROVE BusGadget'
    BY <1>1, <1>3, <1>5 DEF HubDriver, ClearChange, GetPortStatus
  <1>6. ASSUME PowerOn \/ PowerOff \/ PullUp \/ PullDown PROVE BusGadget'
    <2>1. events' \in 0 .. MaxEvents
      BY <1>4, <1>6 DEF PowerOn, PowerOff, PullUp, PullDown
    <2> QED
      BY <1>1, <1>6, <2>1 DEF BusGadget, PowerOn, PowerOff, PullUp, PullDown
  <1>7. CASE PortReset
    <2>1. events' \in 0 .. MaxEvents
      BY <1>4, <1>7 DEF PortReset
    <2> QED
      BY <1>1, <1>7, <2>1 DEF BusGadget, PortReset
  <1>8. CASE FinishReset
    BY <1>1, <1>8 DEF BusGadget, FinishReset
  <1>9. CASE Start \/ Stop
    BY <1>1, <1>9 DEF BusGadget, Start, Stop
  <1>10. ASSUME NEW e \in Ep, GadgetQueue(e) PROVE BusGadget'
    <2>1. requests[e] \in 0 .. MaxQueued /\ requests[e] < MaxQueued
      BY <1>1, <1>10 DEF BusGadget, GadgetQueue
    <2>2. requests[e] + 1 \in 0 .. MaxQueued
      BY <1>2, <2>1
    <2>3. requests' \in [Ep -> 0 .. MaxQueued]
      BY <1>1, <1>10, <2>2 DEF BusGadget, GadgetQueue
    <2> QED
      BY <1>1, <1>10, <2>3 DEF BusGadget, GadgetQueue
  <1>11. ASSUME NEW e \in Ep, Dequeue(e) PROVE BusGadget'
    <2>1. requests[e] \in 0 .. MaxQueued /\ requests[e] > 0
      BY <1>1, <1>11 DEF BusGadget, Dequeue
    <2>2. requests[e] - 1 \in 0 .. MaxQueued
      BY <1>2, <2>1
    <2>3. requests' \in [Ep -> 0 .. MaxQueued]
      BY <1>1, <1>11, <2>2 DEF BusGadget, Dequeue
    <2> QED
      BY <1>1, <1>11, <2>3 DEF BusGadget, Dequeue
  <1>12. ASSUME NEW u \in Urb, UrbEnqueue(u) \/ UrbDequeue(u) PROVE BusGadget'
    BY <1>1, <1>3, <1>12 DEF UrbEnqueue, UrbDequeue
  <1>13. CASE TransferBegin \/ TransferEnd
    BY <1>1, <1>3, <1>13 DEF TransferBegin, TransferEnd
  <1>14. CASE Visit
    <2>1. requests' \in [Ep -> 0 .. MaxQueued] /\ busOops' \in {busOops, "driver", "node"}
      BY <1>1, <1>14, VisitRequests
    <2>2. UNCHANGED <<driver, resetting, events>>
      BY <1>14 DEF Visit
    <2> QED
      BY <1>1, <2>1, <2>2 DEF BusGadget
  <1>15. CASE Deactivate \/ DelTimer \/ CleanupQueues
    BY <1>1, <1>3, <1>15 DEF Deactivate, DelTimer, CleanupQueues
  <1>16. CASE DeviceCleanup
    BY <1>1, <1>16 DEF BusGadget, DeviceCleanup
  <1> QED
    BY <1>5, <1>6, <1>7, <1>8, <1>9, <1>10, <1>11, <1>12, <1>13, <1>14, <1>15, <1>16
    DEF BusNext, Timers, Cleanup

LEMMA BusNextInv ==
    ASSUME BusInv, BusNext
    PROVE  BusInv'
  BY BusQueueInv, BusPortInv, BusQuietInv, BusGadgetInv DEF BusInv

\* The invariant says what the properties say.
LEMMA BusInvSound == BusInv => BusTypeOK /\ UrbsOnce /\ PortHonest
  <1> SUFFICES ASSUME BusInv PROVE BusTypeOK /\ UrbsOnce /\ PortHonest
    OBVIOUS
  <1>1. BusTypeOK
    <2>1. Excess \in Int /\ ends = Excess % 256
      BY DEF BusInv, BusPort, Excess
    <2>2. ends \in 0 .. 255
      BY <2>1
    <2> QED
      BY <2>2 DEF BusInv, BusQueue, BusPort, BusQuiet, BusGadget, BusTypeOK
  <1>2. UrbsOnce
    <2>1. queue \in Seq(Urb) /\ IsInjective(queue)
      BY DEF BusInv, BusQueue
    <2>2. \A u \in Urb : Contains(queue, u) <=> u \in ToSet(queue)
      BY <2>1, ListContains
    <2>3. \A u \in Urb : owed[u] = IF Contains(queue, u) THEN 1 ELSE 0
      BY <2>2 DEF BusInv, BusQueue
    <2>4. teardown \in {"drained", "gone"} => queue = << >> /\ ~timer /\ pos = 0
      BY DEF BusInv, BusQuiet
    <2> QED
      BY <2>1, <2>3, <2>4 DEF UrbsOnce
  <1>3. PortHonest
    <2> SUFFICES ASSUME teardown # "gone" PROVE PortHonest
      BY DEF PortHonest
    <2>1. ASSUME events < 254
          PROVE  /\ "connection" \in status <=> Excess >= 2
                 /\ InTurn => ("connection" \in status <=> "power" \in status /\ pulled)
      <3>1. "connection" \in status <=> Excess >= 2
        BY <2>1 DEF BusInv, BusPort
      <3>2. InTurn => (Excess >= 2 <=> "power" \in status /\ pulled)
        BY DEF InTurn, Excess
      <3> QED
        BY <3>1, <3>2
    <2> QED
      BY <2>1 DEF BusInv, BusPort, PortHonest
  <1> QED
    BY <1>1, <1>2, <1>3

-----------------------------------------------------------------------------
(* A tunnel's control requests.                                            *)

CtlRec == [setup : Request \union {0}, in : BOOLEAN, status : BOOLEAN, busy : BOOLEAN,
           pending : Seq(Request), work : BOOLEAN, req : {"free", "idle", "data", "zero"},
           twice : BOOLEAN]

\* What do_setup makes of ctrl for request k, but for the list of pending requests.
Started(r, c, k, kd) ==
    /\ r \in CtlRec /\ r.setup = k /\ r.busy /\ r.twice = c.twice
    /\ r.in <=> kd \in {"address", "in"}
    /\ r.status <=> kd \in {"address", "simple"}
    /\ r.work <=> c.work \/ kd \in {"in", "simple"}
    /\ r.req = IF c.req = "idle" /\ kd \in {"address", "out"}
               THEN (IF kd = "address" THEN "zero" ELSE "data")
               ELSE c.req

\* usb_ep_queue of a request that is not queued.
LEMMA EpQueueFacts ==
    ASSUME NEW c \in CtlRec, NEW l \in {"data", "zero"}, c.req \in {"free", "idle"},
           NEW r, r = EpQueue(c, l)
    PROVE  /\ r \in CtlRec
           /\ r.req = IF c.req = "idle" THEN l ELSE c.req
           /\ r.setup = c.setup /\ r.in = c.in /\ r.status = c.status /\ r.busy = c.busy
           /\ r.pending = c.pending /\ r.work = c.work /\ r.twice = c.twice
  <1>1. CASE c.req = "free"
    BY <1>1 DEF EpQueue
  <1>2. CASE c.req = "idle"
    <2>1. r = [c EXCEPT !.req = l]
      BY <1>2 DEF EpQueue
    <2> QED
      BY <1>2, <2>1 DEF CtlRec
  <1> QED
    BY <1>1, <1>2

\* Of any request: it is queued afterwards, unless there is none.
LEMMA EpQueueWeak ==
    ASSUME NEW c \in CtlRec, NEW l \in {"data", "zero"}, NEW r, r = EpQueue(c, l)
    PROVE  /\ r \in CtlRec
           /\ r.req = "free" <=> c.req = "free"
           /\ r.setup = c.setup /\ r.busy = c.busy /\ r.pending = c.pending /\ r.work = c.work
  <1>1. CASE c.req \in {"free", "idle"}
    BY <1>1, EpQueueFacts
  <1>2. CASE c.req \notin {"free", "idle"}
    <2>1. r = [c EXCEPT !.twice = TRUE]
      BY <1>2 DEF EpQueue
    <2>2. /\ r \in CtlRec /\ r.req = c.req /\ r.setup = c.setup /\ r.busy = c.busy
          /\ r.pending = c.pending /\ r.work = c.work
      BY <2>1 DEF CtlRec
    <2> QED
      BY <2>2
  <1> QED
    BY <1>1, <1>2

LEMMA DoSetupFacts ==
    ASSUME NEW c \in CtlRec, NEW k \in Request, NEW kd \in Kinds, NEW r, r = DoSetup(c, k, kd)
    PROVE  /\ r \in CtlRec /\ r.setup = k /\ r.busy /\ r.pending = c.pending
           /\ r.req = "free" <=> c.req = "free"
           /\ c.req \in {"free", "idle"} => Started(r, c, k, kd)
  <1>1. PICK s : s = [c EXCEPT !.busy = TRUE, !.setup = k, !.in = kd \in {"address", "in"},
                              !.status = kd \in {"address", "simple"}]
    OBVIOUS
  <1>2. r = CASE kd = "address" -> EpQueue(s, "zero")
              [] kd = "out"     -> EpQueue(s, "data")
              [] OTHER          -> [s EXCEPT !.work = TRUE]
    BY <1>1 DEF DoSetup
  <1>3. /\ s \in CtlRec /\ s.setup = k /\ s.busy
        /\ s.pending = c.pending /\ s.work = c.work /\ s.req = c.req /\ s.twice = c.twice
        /\ s.in <=> kd \in {"address", "in"}
        /\ s.status <=> kd \in {"address", "simple"}
    <2>1. PICK i, t : /\ i = (kd \in {"address", "in"})
                   /\ t = (kd \in {"address", "simple"})
      OBVIOUS
    <2>2. i \in BOOLEAN /\ t \in BOOLEAN
      BY <2>1
    <2>3. s = [c EXCEPT !.busy = TRUE, !.setup = k, !.in = i, !.status = t]
      BY <1>1, <2>1
    <2>4. /\ s \in CtlRec /\ s.setup = k /\ s.busy /\ s.in = i /\ s.status = t
          /\ s.pending = c.pending /\ s.work = c.work /\ s.req = c.req /\ s.twice = c.twice
      BY <2>2, <2>3 DEF CtlRec
    <2> QED
      BY <2>1, <2>4
  <1>4. CASE kd = "address"
    <2>1. r = EpQueue(s, "zero")
      BY <1>2, <1>4
    <2>2. c.req \in {"free", "idle"} => Started(r, c, k, kd)
      BY <1>3, <1>4, <2>1, EpQueueFacts DEF Started
    <2> QED
      BY <1>3, <2>1, <2>2, EpQueueWeak
  <1>5. CASE kd = "out"
    <2>1. r = EpQueue(s, "data")
      BY <1>2, <1>5
    <2>2. c.req \in {"free", "idle"} => Started(r, c, k, kd)
      BY <1>3, <1>5, <2>1, EpQueueFacts DEF Started
    <2> QED
      BY <1>3, <2>1, <2>2, EpQueueWeak
  <1>6. CASE kd \in {"in", "simple"}
    <2>1. r = [s EXCEPT !.work = TRUE]
      BY <1>2, <1>6
    <2>2. /\ r \in CtlRec /\ r.setup = k /\ r.busy /\ r.work /\ r.pending = s.pending
          /\ r.req = s.req /\ r.twice = s.twice /\ r.in = s.in /\ r.status = s.status
      BY <1>3, <2>1 DEF CtlRec
    <2> QED
      BY <1>3, <1>6, <2>2 DEF Started
  <1> QED
    BY <1>4, <1>5, <1>6 DEF Kinds

\* What process_pending_ctrl makes of ctrl: it is free, or at the next request.
Processed(r, c) ==
    \/ /\ c.pending = << >>
       /\ r \in CtlRec /\ ~r.busy
       /\ r.setup = c.setup /\ r.in = c.in /\ r.status = c.status
       /\ r.pending = c.pending /\ r.work = c.work /\ r.req = c.req /\ r.twice = c.twice
    \/ /\ c.pending # << >>
       /\ Started(r, c, Head(c.pending), kind[Head(c.pending)])
       /\ r.pending = Tail(c.pending)

\* The pending requests are among those that were sent, in order.
PendingOK(c) ==
    /\ \A i \in DOMAIN c.pending : c.pending[i] \in c.setup + 1 .. Len(kind)
    /\ \A i, j \in DOMAIN c.pending : i < j => c.pending[i] < c.pending[j]

\* What ctrl is in any case, ...
CtlBase(c) ==
    /\ c \in CtlRec /\ c.setup \in 0 .. Len(kind)
    /\ PendingOK(c)
    /\ ~c.busy => c.pending = << >>
    /\ Queued(c) \/ c.work => c.setup # 0

\* ... and what it is not set back to.
Forwards(r, c) ==
    /\ CtlBase(r)
    /\ r.setup \in c.setup .. Len(kind)
    /\ r.req = "free" <=> c.req = "free"

\* The first of them, and what is behind it.
LEMMA PendingFacts ==
    ASSUME NEW c \in CtlRec, c.setup \in Nat, PendingOK(c), kind \in Seq(Kinds),
           Len(kind) \in 0 .. MaxRequests, c.pending # << >>
    PROVE  LET k == Head(c.pending) p == Tail(c.pending) IN
           /\ k \in c.setup + 1 .. Len(kind) /\ k \in Request /\ kind[k] \in Kinds
           /\ p \in Seq(Request)
           /\ \A i \in DOMAIN p : p[i] \in k + 1 .. Len(kind)
           /\ \A i, j \in DOMAIN p : i < j => p[i] < p[j]
  <1>1. MaxRequests \in Nat /\ c.pending \in Seq(Request)
    BY UsbtunnelAssumption DEF CtlRec
  <1>2. PICK q, S, n : q = c.pending /\ S = Request /\ n = c.setup /\ q \in Seq(Request)
    BY <1>1
  <1>3. /\ q # << >> /\ n \in Nat /\ \A i \in DOMAIN q : q[i] \in n + 1 .. Len(kind)
        /\ \A i, j \in DOMAIN q : i < j => q[i] < q[j]
    BY <1>2 DEF PendingOK
  <1>4. /\ Tail(q) \in Seq(S) /\ Len(Tail(q)) = Len(q) - 1 /\ Head(q) = q[1]
        /\ \A i \in 1 .. Len(q) - 1 : Tail(q)[i] = q[i + 1]
    BY <1>2, <1>3, HeadTailProperties
  <1>5. Len(q) \in Nat /\ Len(q) # 0 /\ DOMAIN q = 1 .. Len(q) /\ DOMAIN Tail(q) = 1 .. Len(q) - 1
    BY <1>2, <1>3, <1>4, EmptySeq, LenProperties
  <1>6. Head(q) \in n + 1 .. Len(kind) /\ Head(q) \in Request
    <2>1. 1 \in DOMAIN q
      BY <1>5
    <2>2. Head(q) \in n + 1 .. Len(kind)
      BY <1>3, <1>4, <2>1
    <2> QED
      BY <1>1, <1>3, <2>2 DEF Request
  <1>7. kind[Head(q)] \in Kinds
    BY <1>1, <1>3, <1>6, ElementOfSeq
  <1>8. ASSUME NEW i \in DOMAIN Tail(q) PROVE Tail(q)[i] \in Head(q) + 1 .. Len(kind)
    <2>1. i + 1 \in DOMAIN q /\ 1 \in DOMAIN q /\ 1 < i + 1 /\ Tail(q)[i] = q[i + 1]
      BY <1>4, <1>5
    <2>2. q[1] < q[i + 1] /\ q[1] \in n + 1 .. Len(kind) /\ q[i + 1] \in n + 1 .. Len(kind)
      BY <1>3, <2>1
    <2> QED
      BY <1>1, <1>3, <1>4, <2>1, <2>2
  <1>9. ASSUME NEW i \in DOMAIN Tail(q), NEW j \in DOMAIN Tail(q), i < j
        PROVE  Tail(q)[i] < Tail(q)[j]
    <2>1. /\ i + 1 \in DOMAIN q /\ j + 1 \in DOMAIN q /\ i + 1 < j + 1
          /\ Tail(q)[i] = q[i + 1] /\ Tail(q)[j] = q[j + 1]
      BY <1>4, <1>5, <1>9
    <2> QED
      BY <1>3, <2>1
  <1> QED
    BY <1>2, <1>4, <1>6, <1>7, <1>8, <1>9

LEMMA ProcessPendingFacts ==
    ASSUME NEW c, CtlBase(c), kind \in Seq(Kinds), Len(kind) \in 0 .. MaxRequests,
           NEW r, r = ProcessPending(c)
    PROVE  /\ Forwards(r, c)
           /\ c.pending = << >> \/ c.req \in {"free", "idle"} => Processed(r, c)
  <1>1. /\ c \in CtlRec /\ c.setup \in Nat /\ c.setup \in 0 .. Len(kind) /\ PendingOK(c)
        /\ Len(kind) \in Nat
    BY UsbtunnelAssumption DEF CtlBase
  <1>2. CASE c.pending = << >>
    <2>1. r = [c EXCEPT !.busy = FALSE]
      BY <1>2 DEF ProcessPending
    <2>2. /\ r \in CtlRec /\ ~r.busy
          /\ r.setup = c.setup /\ r.in = c.in /\ r.status = c.status
          /\ r.pending = c.pending /\ r.work = c.work /\ r.req = c.req /\ r.twice = c.twice
      BY <1>1, <2>1 DEF CtlRec
    <2>3. CtlBase(r)
      BY <1>1, <1>2, <2>2 DEF CtlBase, PendingOK, Queued
    <2> QED
      BY <1>1, <1>2, <2>2, <2>3 DEF Processed, Forwards
  <1>3. CASE c.pending # << >>
    <2>1. PICK k, kd, p : k = Head(c.pending) /\ kd = kind[k] /\ p = Tail(c.pending)
      OBVIOUS
    <2>2. /\ k \in c.setup + 1 .. Len(kind) /\ k \in Request /\ kd \in Kinds
          /\ p \in Seq(Request)
          /\ \A i \in DOMAIN p : p[i] \in k + 1 .. Len(kind)
          /\ \A i, j \in DOMAIN p : i < j => p[i] < p[j]
      BY <1>1, <1>3, <2>1, PendingFacts
    <2>3. PICK s : s = DoSetup(c, k, kd)
      OBVIOUS
    <2>4. /\ s \in CtlRec /\ s.setup = k /\ s.busy /\ s.pending = c.pending
          /\ s.req = "free" <=> c.req = "free"
          /\ c.req \in {"free", "idle"} => Started(s, c, k, kd)
      BY <1>1, <2>2, <2>3, DoSetupFacts, SMTT(30)
    <2>5. r = [s EXCEPT !.pending = p]
      BY <1>3, <2>1, <2>3, <2>4 DEF ProcessPending
    <2>6. /\ r \in CtlRec /\ r.pending = p /\ r.setup = s.setup /\ r.busy = s.busy
          /\ r.twice = s.twice /\ r.in = s.in /\ r.status = s.status /\ r.work = s.work
          /\ r.req = s.req
      BY <2>2, <2>4, <2>5 DEF CtlRec
    <2>7. c.req \in {"free", "idle"} => Started(r, c, k, kd)
      BY <2>4, <2>6 DEF Started
    <2>8. k \in c.setup .. Len(kind) /\ k \in 0 .. Len(kind) /\ k # 0
      BY <1>1, <2>2
    <2>9. PendingOK(r)
      BY <2>2, <2>4, <2>6 DEF PendingOK
    <2>10. CtlBase(r)
      BY <2>4, <2>6, <2>8, <2>9 DEF CtlBase
    <2>11. Forwards(r, c)
      BY <2>4, <2>6, <2>8, <2>10 DEF Forwards
    <2> QED
      BY <1>3, <2>1, <2>6, <2>7, <2>11 DEF Processed
  <1> QED
    BY <1>2, <1>3

\* What the completion callback makes of ctrl: after a status stage the next request
\* is processed, after the data of an answer the status is asked for, and data that
\* has come goes to the worker.
LEMMA EpCompleteFacts ==
    ASSUME NEW c, CtlBase(c), c.setup # 0, kind \in Seq(Kinds), Len(kind) \in 0 .. MaxRequests,
           c.req \in {"free", "idle"}, NEW r, r = EpComplete(c)
    PROVE  /\ Forwards(r, c)
           /\ c.status => Processed(r, c)
           /\ ~c.status =>
                /\ r \in CtlRec /\ r.setup = c.setup /\ r.pending = c.pending
                /\ r.busy <=> c.busy
                /\ r.twice <=> c.twice
                /\ r.status /\ ~r.in
                /\ c.in  => (r.work <=> c.work) /\ r.req = IF c.req = "idle" THEN "zero" ELSE c.req
                /\ ~c.in => r.work /\ r.req = c.req
  <1>1. c \in CtlRec /\ c.setup \in 0 .. Len(kind) /\ Len(kind) \in Nat
    BY UsbtunnelAssumption DEF CtlBase
  <1>2. CASE c.status
    <2>1. r = ProcessPending(c)
      BY <1>2 DEF EpComplete
    <2> QED
      BY <1>2, <2>1, ProcessPendingFacts
  <1>3. ASSUME r \in CtlRec, r.setup = c.setup, r.pending = c.pending, (r.busy <=> c.busy),
               (r.req = "free" <=> c.req = "free")
        PROVE  Forwards(r, c)
    <2>1. CtlBase(r)
      BY <1>1, <1>3 DEF CtlBase, PendingOK
    <2> QED
      BY <1>1, <1>3, <2>1 DEF Forwards
  <1>4. CASE ~c.status /\ c.in
    <2>1. PICK s : s = [c EXCEPT !.in = FALSE, !.status = TRUE]
      OBVIOUS
    <2>2. /\ s \in CtlRec /\ ~s.in /\ s.status /\ s.setup = c.setup /\ s.pending = c.pending
          /\ s.busy = c.busy /\ s.twice = c.twice /\ s.work = c.work /\ s.req = c.req
      BY <1>1, <2>1 DEF CtlRec
    <2>3. r = EpQueue(s, "zero")
      BY <1>4, <2>1 DEF EpComplete
    <2>4. /\ r \in CtlRec /\ r.req = IF c.req = "idle" THEN "zero" ELSE c.req
          /\ r.setup = c.setup /\ ~r.in /\ r.status /\ r.busy = c.busy
          /\ r.pending = c.pending /\ r.work = c.work /\ r.twice = c.twice
      BY <2>2, <2>3, EpQueueFacts
    <2> QED
      BY <1>3, <1>4, <2>4
  <1>5. CASE ~c.status /\ ~c.in
    <2>1. r = [c EXCEPT !.status = TRUE, !.work = TRUE]
      BY <1>5 DEF EpComplete
    <2>2. /\ r \in CtlRec /\ r.in = c.in /\ r.status /\ r.setup = c.setup /\ r.pending = c.pending
          /\ r.busy = c.busy /\ r.twice = c.twice /\ r.work /\ r.req = c.req
      BY <1>1, <2>1 DEF CtlRec
    <2> QED
      BY <1>3, <1>5, <2>2
  <1> QED
    BY <1>2, <1>4, <1>5

TunTypes ==
    /\ kind \in Seq(Kinds) /\ Len(kind) \in 0 .. MaxRequests
    /\ worker \in {"idle", "wait", "late", "react", "pend"}
    /\ plug \in {"out", "in", "unbound"} /\ plugs \in 0 .. MaxPlugs
    /\ stage \in {"data", "status"}
    /\ answer \in Seq(Request \union {0}) /\ sent \in Seq(Request \X (Request \union {0}))
    /\ broken \in BOOLEAN /\ overrun \in BOOLEAN
    /\ tunOops \in {"none", "udev", "req"}

\* The numbers: the worker is not ahead of ctrl.setup, which is not ahead of the host.
TunNumbers ==
    /\ Len(answer) = Len(kind)
    /\ host \in {0, Len(kind)}
    /\ asked \in 0 .. ctl.setup
    /\ buf \in 0 .. Len(kind)

\* Whatever fails and whatever the worker overruns.
TunBase ==
    /\ TunTypes /\ TunNumbers /\ CtlBase(ctl)
    /\ worker # "idle" => asked # 0
    /\ plug = "in" <=> ctl.req # "free"

SentBelow(n) == \A i \in DOMAIN sent : sent[i][1] \in 1 .. n - 1

\* Until the worker overruns another request: what was sent to the device.
SentInOrder == \A i, j \in DOMAIN sent : i < j => sent[i][1] < sent[j][1]

OrderOf(c) ==
    /\ SentBelow(c.setup + 1)
    /\ c.work \/ (~c.status /\ ~c.in) => SentBelow(c.setup)

TunOrder == SentInOrder /\ OrderOf(ctl)

\* The worker does nothing, or has only process_pending_ctrl to call, for a request
\* whose completion has called it already.
Resting == worker = "idle" \/ (worker = "pend" /\ (ctl.setup # asked \/ ~ctl.busy))

\* The status stage of a request without data is queued: the worker may be about to
\* free the tunnel, or have done so.
StatusOf(c) == c.req = "zero" /\ c.status /\ ~c.in /\ kind[c.setup] = "simple"

\* Until the worker overruns another request: one of ctrl.req, the work and the
\* worker at most is under way, and only while in_progress is set, but for the status
\* stage of a request without data.
TunToken ==
    /\ ~ctl.twice
    /\ ctl.work => (ctl.status \/ ctl.in) /\ ctl.busy /\ ~Queued(ctl) /\ Resting
    /\ ~Resting => ctl.busy /\ asked = ctl.setup
    /\ ctl.status /\ ctl.in => ~ctl.work /\ Resting
    /\ Queued(ctl) => \/ ctl.busy /\ Resting
                      \/ StatusOf(ctl) /\ ctl.busy /\ worker = "pend"
                      \/ StatusOf(ctl) /\ ~ctl.busy /\ worker = "idle"

\* How far request k, which is in ctrl.setup, can be.
TunStage(k) ==
    \/ /\ kind[k] = "address" /\ ctl.req = "zero" /\ ctl.status /\ ctl.in
       /\ host = k /\ stage = "status"
    \/ /\ kind[k] = "in" /\ host = k /\ stage = "data" /\ ~ctl.status /\ ctl.in
       /\ \/ ctl.req = "idle" /\ ctl.work
          \/ ctl.req = "idle" /\ worker = "wait" /\ asked = k
          \/ ctl.req = "idle" /\ worker = "react" /\ asked = k /\ buf = k
          \/ ctl.req = "data" /\ buf = k
    \/ /\ kind[k] = "in" /\ host = k /\ stage = "status" /\ ctl.status /\ ~ctl.in
       /\ ctl.req = "zero"
    \/ /\ kind[k] = "out" /\ host = k /\ stage = "data" /\ ~ctl.status /\ ~ctl.in
       /\ ctl.req = "data"
    \/ /\ kind[k] = "out" /\ host # k /\ ctl.status /\ ~ctl.in /\ ctl.req = "idle" /\ buf = k
       /\ ctl.work \/ (worker \in {"wait", "react", "pend"} /\ asked = k)
    \/ /\ kind[k] = "simple" /\ host = k /\ stage = "status" /\ ctl.status /\ ~ctl.in
       /\ \/ ctl.req = "idle" /\ (ctl.work \/ (worker \in {"wait", "react"} /\ asked = k))
          \/ ctl.req = "zero" /\ worker = "pend" /\ asked = k

\* As long as nothing was cut short either: the request in ctrl.setup is at one of
\* its stages, and the host waits for it or for the one behind it.
TunSmooth ==
    /\ plug # "in" => ~ctl.busy
    /\ ~ctl.busy => host = IF Queued(ctl) THEN ctl.setup ELSE 0
    /\ ctl.busy => TunStage(ctl.setup)
    /\ ctl.pending = IF host \in {0, ctl.setup} THEN << >> ELSE <<host>>
    /\ host # 0 /\ host # ctl.setup =>
          stage = IF kind[host] \in {"in", "out"} THEN "data" ELSE "status"
    /\ worker # "late"

\* And the data is where it belongs.
TunData ==
    /\ \A i \in DOMAIN sent : kind[sent[i][1]] = "out" => sent[i][2] = sent[i][1]
    /\ \A k \in DOMAIN answer : answer[k] \in {0, k}

TunInv ==
    /\ TunBase
    /\ overrun \/ (TunOrder /\ TunToken)
    /\ overrun \/ broken \/ (TunSmooth /\ TunData)

LEMMA TunInitInv == TunInit => TunInv
  <1> SUFFICES ASSUME TunInit PROVE TunInv
    OBVIOUS
  <1>1. MaxRequests \in Nat /\ MaxPlugs \in Nat
    BY UsbtunnelAssumption
  <1>2. /\ kind = << >> /\ answer = << >> /\ sent = << >> /\ ctl = Fresh /\ worker = "idle"
        /\ asked = 0 /\ buf = 0 /\ plug = "out" /\ plugs = 0 /\ host = 0 /\ stage = "data"
        /\ broken = FALSE /\ overrun = FALSE /\ tunOops = "none"
    BY DEF TunInit
  <1>3. /\ ctl \in CtlRec /\ ctl.setup = 0 /\ ~ctl.in /\ ~ctl.status /\ ~ctl.busy
        /\ ctl.pending = << >> /\ ~ctl.work /\ ctl.req = "free" /\ ~ctl.twice
    BY <1>2 DEF Fresh, CtlRec
  <1>4. /\ kind \in Seq(Kinds) /\ Len(kind) = 0 /\ answer \in Seq(Request \union {0})
        /\ Len(answer) = 0 /\ sent \in Seq(Request \X (Request \union {0}))
        /\ DOMAIN sent = {} /\ DOMAIN answer = {}
    BY <1>2
  <1>5. TunTypes
    <2>1. Len(kind) \in 0 .. MaxRequests /\ plugs \in 0 .. MaxPlugs
      BY <1>1, <1>2, <1>4
    <2>2. broken \in BOOLEAN /\ overrun \in BOOLEAN
      BY <1>2
    <2> QED
      BY <1>2, <1>4, <2>1, <2>2 DEF TunTypes
  <1>6. TunNumbers
    BY <1>2, <1>3, <1>4 DEF TunNumbers
  <1>7. CtlBase(ctl)
    BY <1>3, <1>4 DEF CtlBase, PendingOK, Queued
  <1>8. TunOrder
    BY <1>3, <1>4 DEF TunOrder, OrderOf, SentInOrder, SentBelow
  <1>9. TunToken
    BY <1>2, <1>3 DEF TunToken, Resting, Queued
  <1>10. TunSmooth
    BY <1>2, <1>3 DEF TunSmooth, Queued
  <1>11. TunData
    BY <1>4 DEF TunData
  <1>12. TunBase
    BY <1>2, <1>3, <1>5, <1>6, <1>7 DEF TunBase
  <1> QED
    BY <1>8, <1>9, <1>10, <1>11, <1>12 DEF TunInv

\* What is left of the worker does not go on with a request that is started, ...
LEMMA StartedToken ==
    ASSUME NEW c \in CtlRec, NEW k \in Request, NEW kd \in Kinds, Started(ctl', c, k, kd),
           ~c.work, ~c.twice, c.req \in {"free", "idle"},
           worker' \in {"idle", "pend"}, asked' # k
    PROVE  TunToken'
  <1>1. /\ ctl'.setup = k /\ ctl'.busy /\ ~ctl'.twice
        /\ ctl'.in <=> kd \in {"address", "in"}
        /\ ctl'.status <=> kd \in {"address", "simple"}
        /\ ctl'.work <=> kd \in {"in", "simple"}
        /\ Queued(ctl') => kd \in {"address", "out"}
    BY DEF Started, Queued
  <1>2. Resting'
    BY <1>1 DEF Resting
  <1>3. ctl'.work => ctl'.status \/ ctl'.in
    BY <1>1
  <1>4. ctl'.work => ~Queued(ctl')
    BY <1>1
  <1>5. ctl'.status /\ ctl'.in => ~ctl'.work
    BY <1>1
  <1> QED
    BY <1>1, <1>2, <1>3, <1>4, <1>5 DEF TunToken, Queued

\* ... which is ahead of all that were sent, ...
LEMMA StartedOrder ==
    ASSUME NEW c \in CtlRec, NEW k \in Request, NEW kd, Started(ctl', c, k, kd),
           c.setup \in Nat, c.setup < k, SentBelow(c.setup + 1), SentInOrder, sent' = sent
    PROVE  TunOrder'
  <1>1. k \in Nat /\ ctl'.setup = k /\ ctl'.busy
    BY DEF Request, Started
  <1>2. SentBelow(k)' /\ SentBelow(k + 1)'
    <2>1. \A i \in DOMAIN sent : sent[i][1] \in 1 .. c.setup
      BY DEF SentBelow
    <2>2. \A n \in 1 .. c.setup : n \in 1 .. k - 1 /\ n \in 1 .. (k + 1) - 1
      BY <1>1
    <2> QED
      BY <2>1, <2>2 DEF SentBelow
  <1>3. OrderOf(ctl)'
    BY <1>1, <1>2 DEF OrderOf
  <1> QED
    BY <1>3 DEF TunOrder, SentInOrder

\* ... and is at its first stage.
LEMMA StartedStage ==
    ASSUME NEW c \in CtlRec, NEW k \in Request, NEW kd \in Kinds, Started(ctl', c, k, kd),
           c.req = "idle", kind'[k] = kd, host' = k,
           stage' = IF kd \in {"in", "out"} THEN "data" ELSE "status"
    PROVE  TunStage(k)'
  <1>1. /\ ctl'.in <=> kd \in {"address", "in"}
        /\ ctl'.status <=> kd \in {"address", "simple"}
        /\ kd \in {"in", "simple"} => ctl'.work
        /\ ctl'.req = IF kd \in {"address", "out"}
                      THEN (IF kd = "address" THEN "zero" ELSE "data") ELSE "idle"
    BY DEF Started
  <1>2. CASE kd = "address"
    BY <1>1, <1>2 DEF TunStage
  <1>3. CASE kd = "in"
    BY <1>1, <1>3 DEF TunStage
  <1>4. CASE kd = "out"
    BY <1>1, <1>4 DEF TunStage
  <1>5. CASE kd = "simple"
    BY <1>1, <1>5 DEF TunStage
  <1> QED
    BY <1>2, <1>3, <1>4, <1>5 DEF Kinds

\* When nothing is under way any more, ctrl is free or at the next request.
LEMMA ProcessedKeeps ==
    ASSUME TunTypes, NEW c, CtlBase(c), OrderOf(c), SentInOrder,
           Processed(ctl', c), UNCHANGED <<kind, sent>>,
           ~c.work, ~c.twice, c.req \in {"free", "idle"},
           worker' \in {"idle", "pend"}, asked' \in 0 .. c.setup
    PROVE  TunOrder' /\ TunToken'
  <1>1. /\ c \in CtlRec /\ c.setup \in Nat /\ Len(kind) \in 0 .. MaxRequests
        /\ kind \in Seq(Kinds) /\ Len(kind) \in Nat /\ PendingOK(c)
    BY UsbtunnelAssumption DEF TunTypes, CtlBase
  <1>2. CASE c.pending = << >>
    <2>1. /\ ctl' \in CtlRec /\ ~ctl'.busy
          /\ ctl'.setup = c.setup /\ ctl'.in = c.in /\ ctl'.status = c.status
          /\ ctl'.pending = c.pending /\ ctl'.work = c.work /\ ctl'.req = c.req
          /\ ctl'.twice = c.twice
      BY <1>2 DEF Processed
    <2>2. OrderOf(ctl)'
      BY <1>2, <2>1 DEF OrderOf, SentBelow
    <2>3. TunToken'
      BY <2>1 DEF TunToken, Resting, Queued
    <2> QED
      BY <1>1, <2>1, <2>2, <2>3 DEF TunOrder, SentInOrder
  <1>3. CASE c.pending # << >>
    <2>1. PICK k, kd : k = Head(c.pending) /\ kd = kind[k]
      OBVIOUS
    <2>2. SentBelow(c.setup + 1)
      BY DEF OrderOf
    <2>3. k \in c.setup + 1 .. Len(kind) /\ k \in Request /\ kd \in Kinds
      BY <1>1, <1>3, <2>1, PendingFacts
    <2>4. Started(ctl', c, k, kd)
      BY <1>3, <2>1 DEF Processed
    <2>5. c.setup < k /\ asked' # k
      BY <1>1, <2>3
    <2>6. TunOrder'
      BY <1>1, <2>2, <2>3, <2>4, <2>5, StartedOrder
    <2>7. TunToken'
      BY <1>1, <2>3, <2>4, <2>5, StartedToken
    <2> QED
      BY <2>6, <2>7
  <1> QED
    BY <1>2, <1>3

\* So after the completion callback, in whose place the worker does nothing.
LEMMA CompleteKeeps ==
    ASSUME TunBase, TunOrder, TunToken, Queued(ctl),
           NEW c, CtlBase(c), c.req \in {"free", "idle"},
           c.setup = ctl.setup, c.in = ctl.in, c.status = ctl.status, c.busy = ctl.busy,
           c.pending = ctl.pending, c.work = ctl.work, c.twice = ctl.twice,
           ctl' = EpComplete(c),
           UNCHANGED <<kind, sent, worker, asked>>
    PROVE  TunOrder' /\ TunToken'
  <1>1. /\ TunTypes /\ kind \in Seq(Kinds) /\ Len(kind) \in 0 .. MaxRequests /\ c.setup # 0
        /\ asked \in 0 .. c.setup /\ SentInOrder
    BY DEF TunBase, TunTypes, TunNumbers, CtlBase, TunOrder
  <1>2. ~c.work /\ ~c.twice /\ worker \in {"idle", "pend"}
    BY DEF TunToken, Resting
  <1>3. OrderOf(c)
    BY DEF TunOrder, OrderOf, SentBelow
  <1>4. /\ c.status => Processed(ctl', c)
        /\ ~c.status =>
             /\ ctl' \in CtlRec /\ ctl'.setup = c.setup /\ ctl'.pending = c.pending
             /\ ctl'.busy <=> c.busy
             /\ ctl'.twice <=> c.twice
             /\ ctl'.status /\ ~ctl'.in
             /\ c.in  => (ctl'.work <=> c.work)
             /\ ~c.in => ctl'.work /\ ctl'.req = c.req
    BY <1>1, EpCompleteFacts
  <1>5. CASE c.status
    BY <1>1, <1>2, <1>3, <1>4, <1>5, ProcessedKeeps
  <1>6. CASE ~c.status
    <2>1. ctl.busy /\ Resting
      BY <1>6 DEF TunToken, StatusOf
    <2>2. /\ ctl'.setup = ctl.setup /\ ctl'.busy /\ ctl'.status /\ ~ctl'.in /\ ~ctl'.twice
          /\ ctl'.work => ~c.in /\ ~Queued(ctl')
      BY <1>2, <1>4, <1>6, <2>1 DEF Queued
    <2>3. Resting'
      BY <2>1, <2>2 DEF Resting
    <2>4. TunToken'
      BY <2>2, <2>3 DEF TunToken, Queued
    <2>5. ctl'.work => SentBelow(c.setup)
      BY <1>3, <1>6, <2>2 DEF OrderOf
    <2>6. OrderOf(ctl)'
      BY <1>3, <2>2, <2>5 DEF OrderOf, SentBelow
    <2> QED
      BY <1>1, <2>4, <2>6 DEF TunOrder, SentInOrder
  <1> QED
    BY <1>5, <1>6

\* A step after which ctrl is no further back, and the rest is in its range.
LEMMA BaseKept ==
    ASSUME TunBase, UNCHANGED <<kind, sent, plugs, asked>>, CtlBase(ctl'),
           ctl'.setup \in ctl.setup .. Len(kind),
           worker' \in {"idle", "wait", "late", "react", "pend"},
           worker' # "idle" => worker # "idle",
           plug' \in {"out", "in", "unbound"}, plug' = "in" <=> ctl'.req # "free",
           host' \in {0, host}, stage' \in {"data", "status"}, buf' \in 0 .. Len(kind),
           answer' \in Seq(Request \union {0}), Len(answer') = Len(answer),
           broken' \in BOOLEAN, overrun' \in BOOLEAN, tunOops' \in {"none", "udev", "req"}
    PROVE  TunBase'
  <1>1. TunTypes /\ TunNumbers /\ CtlBase(ctl)
    BY DEF TunBase
  <1>2. TunTypes'
    BY <1>1 DEF TunTypes
  <1>3. asked \in 0 .. ctl'.setup
    <2>1. Len(kind) \in Nat /\ asked \in 0 .. ctl.setup /\ ctl.setup \in 0 .. Len(kind)
      BY <1>1, UsbtunnelAssumption DEF TunTypes, TunNumbers, CtlBase
    <2> QED
      BY <2>1
  <1>4. TunNumbers'
    BY <1>1, <1>3 DEF TunNumbers
  <1>5. CtlBase(ctl)'
    BY DEF CtlBase, PendingOK
  <1>6. worker' # "idle" => asked' # 0
    BY DEF TunBase
  <1> QED
    BY <1>2, <1>4, <1>5, <1>6 DEF TunBase

\* A step after which ctrl is where it was keeps what does not depend on the rest.
LEMMA TunFrame ==
    ASSUME UNCHANGED <<kind, answer, sent>>,
           ctl'.setup = ctl.setup, (ctl'.status <=> ctl.status), (ctl'.in <=> ctl.in),
           ctl'.work => ctl.work
    PROVE  (TunOrder => TunOrder') /\ (TunData => TunData')
  <1>1. TunOrder => OrderOf(ctl)'
    BY DEF TunOrder, OrderOf, SentBelow
  <1> QED
    BY <1>1 DEF TunOrder, SentInOrder, TunData

\* The host sends a request: it is started at once if ctrl is free, and pending
\* otherwise; then what is in ctrl.setup is an OUT request that is over for the host.
\* Or there is no memory for one that would have to wait.
LEMMA HostSendsInv ==
    ASSUME TunInv, NEW kd \in Kinds, HostSends(kd)
    PROVE  TunInv'
  <1>1. PICK k : k = Len(kind) + 1
    OBVIOUS
  <1>2. /\ plug = "in" /\ host = 0 /\ Len(kind) < MaxRequests /\ ~Queued(ctl)
        /\ kind' = Append(kind, kd) /\ answer' = Append(answer, 0)
        /\ UNCHANGED <<worker, asked, buf, plug, plugs, sent, broken, overrun, tunOops>>
    BY <1>1 DEF HostSends
  <1>3. TunBase /\ TunTypes /\ TunNumbers /\ CtlBase(ctl)
    BY DEF TunInv, TunBase
  <1>4. /\ MaxRequests \in Nat /\ Len(kind) \in Nat /\ kind \in Seq(Kinds) /\ k \in Request
        /\ k \in Nat /\ k # 0
    BY <1>1, <1>2, <1>3, UsbtunnelAssumption DEF TunTypes, Request
  <1>5. /\ kind' \in Seq(Kinds) /\ Len(kind') = k /\ kind'[k] = kd
        /\ \A i \in 1 .. Len(kind) : kind'[i] = kind[i]
    BY <1>1, <1>2, <1>4, AppendProperties
  <1>6. /\ answer' \in Seq(Request \union {0}) /\ Len(answer') = k
        /\ \A i \in DOMAIN answer' : answer'[i] = 0 \/ (i \in DOMAIN answer /\ answer'[i] = answer[i])
    <2>1. PICK S : S = Request \union {0}
      OBVIOUS
    <2>2. answer \in Seq(S) /\ 0 \in S /\ Len(answer) = Len(kind)
      BY <1>3, <2>1 DEF TunTypes, TunNumbers
    <2>3. /\ answer' \in Seq(S) /\ Len(answer') = Len(answer) + 1
          /\ \A i \in 1 .. Len(answer) + 1 : answer'[i] = IF i <= Len(answer) THEN answer[i] ELSE 0
      BY <1>2, <2>2, AppendProperties
    <2>4. DOMAIN answer' = 1 .. Len(answer) + 1 /\ DOMAIN answer = 1 .. Len(answer)
      BY <2>2, <2>3, LenProperties
    <2>5. \A i \in 1 .. Len(answer) + 1 : i <= Len(answer) => i \in 1 .. Len(answer)
      BY <1>4, <2>2
    <2> QED
      BY <1>1, <2>1, <2>2, <2>3, <2>4, <2>5
  <1>7. /\ ctl \in CtlRec /\ ctl.setup \in 0 .. Len(kind) /\ ctl.setup \in Nat /\ PendingOK(ctl)
        /\ asked \in 0 .. ctl.setup /\ asked \in Nat /\ ctl.req = "idle"
    BY <1>2, <1>3, <1>4 DEF TunNumbers, TunBase, CtlBase, CtlRec, Queued
  <1>8. ASSUME CtlBase(ctl)', ctl'.setup \in ctl.setup .. k, ctl'.req # "free",
               host' \in {0, k}, stage' \in {"data", "status"}
        PROVE  TunBase'
    <2>1. TunTypes'
      BY <1>2, <1>3, <1>4, <1>5, <1>6, <1>8 DEF TunTypes
    <2>2. asked \in 0 .. ctl'.setup /\ buf \in 0 .. k
      BY <1>1, <1>3, <1>4, <1>7, <1>8 DEF TunNumbers
    <2>3. TunNumbers'
      BY <1>2, <1>5, <1>6, <1>8, <2>1, <2>2 DEF TunNumbers
    <2> QED
      BY <1>2, <1>3, <1>8, <2>1, <2>3 DEF TunBase
  <1>9. TunOrder /\ TunData => TunData'
    <2> SUFFICES ASSUME TunOrder, TunData PROVE TunData'
      OBVIOUS
    <2>1. \A i \in DOMAIN sent : sent[i][1] \in 1 .. ctl.setup
      BY <1>7 DEF TunOrder, OrderOf, SentBelow
    <2>2. \A n \in 1 .. ctl.setup : n \in 1 .. Len(kind)
      BY <1>4, <1>7
    <2>3. \A i \in DOMAIN sent : kind'[sent[i][1]] = kind[sent[i][1]]
      BY <1>5, <2>1, <2>2
    <2> QED
      BY <1>2, <1>6, <2>3 DEF TunData
  <1>10. CASE ctl.busy /\ UNCHANGED <<ctl, host, stage>>
    <2>1. CtlBase(ctl)'
      <3>1. ctl'.setup \in 0 .. Len(kind')
        BY <1>1, <1>4, <1>5, <1>7, <1>10
      <3>2. PendingOK(ctl)'
        <4>1. \A n \in ctl.setup + 1 .. Len(kind) : n \in ctl.setup + 1 .. Len(kind')
          BY <1>1, <1>4, <1>5, <1>7
        <4> QED
          BY <1>7, <1>10, <4>1 DEF PendingOK
      <3> QED
        BY <1>3, <1>10, <3>1, <3>2 DEF CtlBase, Queued
    <2>2. TunBase'
      <3>1. ctl'.setup \in ctl.setup .. k
        BY <1>1, <1>4, <1>7, <1>10
      <3>2. stage' \in {"data", "status"}
        BY <1>3, <1>10 DEF TunTypes
      <3> QED
        BY <1>2, <1>7, <1>8, <1>10, <2>1, <3>1, <3>2
    <2>3. TunOrder => TunOrder'
      BY <1>2, <1>10 DEF TunOrder, SentInOrder, OrderOf, SentBelow
    <2>4. TunToken => TunToken'
      BY <1>2, <1>10 DEF TunToken, Resting, Queued
    <2>5. TunSmooth /\ TunToken => TunSmooth'
      <3> SUFFICES ASSUME TunSmooth, TunToken PROVE TunSmooth'
        OBVIOUS
      <3>1. PICK j : j = ctl.setup
        OBVIOUS
      <3>2. TunStage(j)
        BY <1>10, <3>1 DEF TunSmooth
      <3>3. j # 0
        BY <1>2, <1>3, <3>1, <3>2 DEF TunStage, CtlBase, TunBase, Queued
      <3>4. kind'[j] = kind[j]
        BY <1>4, <1>5, <1>7, <3>1, <3>3
      <3>5. TunStage(j)'
        BY <1>2, <1>10, <3>2, <3>4 DEF TunStage
      <3> QED
        BY <1>2, <1>10, <3>1, <3>5 DEF TunSmooth
    <2> QED
      BY <1>2, <1>9, <2>2, <2>3, <2>4, <2>5 DEF TunInv
  <1>11. CASE /\ ctl.busy /\ ctl' = [ctl EXCEPT !.pending = Append(@, k)] /\ host' = k
              /\ stage' = IF kd \in {"in", "out"} THEN "data" ELSE "status"
    <2>1. PICK p : p = Append(ctl.pending, k)
      OBVIOUS
    <2>2. ctl.pending \in Seq(Request)
      BY <1>7 DEF CtlRec
    <2>3. /\ p \in Seq(Request) /\ Len(p) = Len(ctl.pending) + 1
          /\ \A i \in 1 .. Len(ctl.pending) + 1 : p[i] = IF i <= Len(ctl.pending) THEN ctl.pending[i] ELSE k
          /\ Len(ctl.pending) \in Nat /\ DOMAIN p = 1 .. Len(ctl.pending) + 1
          /\ DOMAIN ctl.pending = 1 .. Len(ctl.pending)
      <3>1. PICK q : q = ctl.pending
        OBVIOUS
      <3>2. q \in Seq(Request) /\ p = Append(q, k)
        BY <2>1, <2>2, <3>1
      <3>3. /\ p \in Seq(Request) /\ Len(p) = Len(q) + 1 /\ Len(q) \in Nat
            /\ \A i \in 1 .. Len(q) + 1 : p[i] = IF i <= Len(q) THEN q[i] ELSE k
        BY <1>4, <3>2, AppendProperties, LenProperties
      <3>4. DOMAIN q = 1 .. Len(q) /\ DOMAIN p = 1 .. Len(q) + 1
        BY <3>2, <3>3, LenProperties
      <3> QED
        BY <3>1, <3>3, <3>4
    <2>4. ctl' = [ctl EXCEPT !.pending = p]
      BY <1>11, <2>1
    <2>5. /\ ctl' \in CtlRec /\ ctl'.pending = p /\ ctl'.setup = ctl.setup /\ ctl'.in = ctl.in
          /\ ctl'.status = ctl.status /\ ctl'.busy = ctl.busy /\ ctl'.work = ctl.work
          /\ ctl'.req = ctl.req /\ ctl'.twice = ctl.twice
      BY <1>7, <2>3, <2>4 DEF CtlRec
    <2>6. ctl'.setup \in ctl.setup .. k /\ ctl'.setup \in 0 .. k
      BY <1>1, <1>4, <1>7, <2>5
    <2>7. PendingOK(ctl)'
      <3>1. /\ \A i \in 1 .. Len(ctl.pending) : ctl.pending[i] \in ctl.setup + 1 .. Len(kind)
            /\ \A i, j \in 1 .. Len(ctl.pending) : i < j => ctl.pending[i] < ctl.pending[j]
        BY <1>7, <2>3 DEF PendingOK
      <3>2. \A i \in DOMAIN p : p[i] \in ctl.setup + 1 .. k
        BY <1>1, <1>4, <1>7, <2>3, <3>1
      <3>3. \A i, j \in DOMAIN p : i < j => p[i] < p[j]
        BY <1>1, <1>4, <1>7, <2>3, <3>1, SMTT(30)
      <3> QED
        BY <1>5, <2>5, <3>2, <3>3 DEF PendingOK
    <2>8. TunBase'
      <3>1. CtlBase(ctl)'
        BY <1>3, <1>5, <1>11, <2>5, <2>6, <2>7 DEF CtlBase, Queued
      <3> QED
        BY <1>7, <1>8, <1>11, <2>5, <2>6, <3>1
    <2>9. TunOrder => TunOrder'
      BY <1>2, <2>5 DEF TunOrder, SentInOrder, OrderOf, SentBelow
    <2>10. TunToken => TunToken'
      BY <1>2, <2>5 DEF TunToken, Resting, Queued
    <2>11. TunSmooth => TunSmooth'
      <3> SUFFICES ASSUME TunSmooth PROVE TunSmooth'
        OBVIOUS
      <3>1. PICK j : j = ctl.setup
        OBVIOUS
      <3>2. TunStage(j) /\ ctl.pending = << >> /\ worker # "late"
        BY <1>2, <1>11, <3>1 DEF TunSmooth
      <3>3. j # 0
        BY <1>2, <1>3, <3>1, <3>2 DEF TunStage, CtlBase, TunBase, Queued
      <3>4. /\ kind[j] = "out" /\ ctl.status /\ ~ctl.in /\ ctl.req = "idle" /\ buf = j
            /\ ctl.work \/ (worker \in {"wait", "react", "pend"} /\ asked = j)
        BY <1>2, <3>2, <3>3 DEF TunStage
      <3>5. j \in 1 .. Len(kind) /\ j # k
        BY <1>1, <1>4, <1>7, <3>1, <3>3
      <3>6. TunStage(j)'
        BY <1>2, <1>5, <1>11, <2>5, <3>4, <3>5 DEF TunStage
      <3>7. ctl'.pending = <<k>>
        BY <2>1, <2>5, <3>2
      <3> QED
        BY <1>2, <1>4, <1>5, <1>11, <2>5, <3>1, <3>2, <3>5, <3>6, <3>7 DEF TunSmooth
    <2> QED
      BY <1>2, <1>9, <2>8, <2>9, <2>10, <2>11 DEF TunInv
  <1>12. CASE /\ ~ctl.busy /\ ctl' = DoSetup(ctl, k, kd) /\ host' = k
              /\ stage' = IF kd \in {"in", "out"} THEN "data" ELSE "status"
    <2>1. Started(ctl', ctl, k, kd) /\ ctl'.pending = << >>
      BY <1>3, <1>4, <1>7, <1>12, DoSetupFacts DEF CtlBase
    <2>2. ctl' \in CtlRec /\ ctl'.setup = k /\ ctl'.busy /\ ctl'.req # "free"
      BY <1>7, <2>1 DEF Started
    <2>3. ctl.setup < k /\ ctl'.setup \in ctl.setup .. k /\ ctl'.setup \in 0 .. k /\ asked # k
      BY <1>1, <1>4, <1>7, <2>2
    <2>4. TunBase'
      <3>1. CtlBase(ctl)'
        BY <1>4, <1>5, <2>1, <2>2, <2>3 DEF CtlBase, PendingOK
      <3> QED
        BY <1>8, <1>12, <2>2, <2>3, <3>1
    <2>5. ASSUME TunOrder, TunToken PROVE TunOrder' /\ TunToken'
      <3>1. ~ctl.work /\ ~ctl.twice /\ worker \in {"idle", "pend"}
        BY <1>12, <2>5 DEF TunToken, Resting
      <3>2. TunOrder'
        BY <1>2, <1>4, <1>7, <2>1, <2>3, <2>5, StartedOrder DEF TunOrder, OrderOf
      <3>3. TunToken'
        BY <1>2, <1>4, <1>7, <2>1, <2>3, <3>1, StartedToken
      <3> QED
        BY <3>2, <3>3
    <2>6. TunStage(k)'
      BY <1>4, <1>5, <1>7, <1>12, <2>1, StartedStage
    <2>7. TunSmooth => TunSmooth'
      BY <1>2, <1>12, <2>1, <2>2, <2>6 DEF TunSmooth
    <2> QED
      BY <1>2, <1>9, <2>4, <2>5, <2>7 DEF TunInv
  <1> QED
    BY <1>1, <1>10, <1>11, <1>12 DEF HostSends

\* The host gives a request up: what was under way is cut short.
LEMMA HostAbandonsInv ==
    ASSUME TunInv, HostAbandons
    PROVE  TunInv'
  <1>1. /\ host' = 0 /\ broken'
        /\ UNCHANGED <<kind, ctl, worker, asked, buf, plug, plugs, stage, answer, sent, overrun,
                       tunOops>>
    BY DEF HostAbandons
  <1>2. TunBase'
    BY <1>1 DEF TunInv, TunBase, TunTypes, TunNumbers, CtlBase, PendingOK, HostAbandons
  <1>3. (TunOrder => TunOrder') /\ (TunToken => TunToken')
    BY <1>1 DEF TunOrder, SentInOrder, OrderOf, SentBelow, TunToken, Resting, StatusOf
  <1> QED
    BY <1>1, <1>2, <1>3 DEF TunInv

\* A stage of endpoint 0 is over: the completion callback runs.
LEMMA UdcCompletesInv ==
    ASSUME TunInv, UdcCompletes
    PROVE  TunInv'
  <1>1. /\ Queued(ctl) /\ host # 0
        /\ ctl' = EpComplete([ctl EXCEPT !.req = "idle"])
        /\ IF kind[host] = "in" /\ stage = "data"
           THEN /\ stage' = "status"
                /\ answer' = [answer EXCEPT ![host] = IF ctl.req = "data" THEN buf ELSE 0]
                /\ UNCHANGED <<host, buf>>
           ELSE /\ host' = 0
                /\ buf' = IF kind[host] = "out" THEN host ELSE buf
                /\ UNCHANGED <<stage, answer>>
        /\ UNCHANGED <<kind, worker, asked, plug, plugs, sent, broken, overrun, tunOops>>
    BY DEF UdcCompletes
  <1>2. TunBase /\ TunTypes /\ TunNumbers /\ CtlBase(ctl)
    BY DEF TunInv, TunBase
  <1>3. /\ Len(kind) \in 0 .. MaxRequests /\ Len(kind) \in Nat /\ kind \in Seq(Kinds)
        /\ host \in 1 .. Len(kind) /\ host \in Request /\ Len(answer) = Len(kind)
        /\ buf \in 0 .. Len(kind) /\ buf \in Request \union {0}
    BY <1>1, <1>2, UsbtunnelAssumption DEF TunTypes, TunNumbers, Request
  <1>4. PICK c : c = [ctl EXCEPT !.req = "idle"]
    OBVIOUS
  <1>5. /\ c \in CtlRec /\ c.req = "idle" /\ c.req \in {"free", "idle"}
        /\ c.setup = ctl.setup /\ c.in = ctl.in /\ c.status = ctl.status /\ c.busy = ctl.busy
        /\ c.pending = ctl.pending /\ c.work = ctl.work /\ c.twice = ctl.twice
    BY <1>2, <1>4 DEF CtlBase, CtlRec
  <1>6. CtlBase(c) /\ c.setup # 0
    BY <1>1, <1>2, <1>5 DEF CtlBase, PendingOK, Queued
  <1>7. ctl' = EpComplete(c)
    BY <1>1, <1>4
  <1>8. /\ Forwards(ctl', c)
        /\ c.status => Processed(ctl', c)
        /\ ~c.status =>
             /\ ctl' \in CtlRec /\ ctl'.setup = c.setup /\ ctl'.pending = c.pending
             /\ ctl'.busy <=> c.busy
             /\ ctl'.status /\ ~ctl'.in
             /\ c.in  => (ctl'.work <=> c.work) /\ ctl'.req = "zero"
             /\ ~c.in => ctl'.work /\ ctl'.req = "idle"
    BY <1>3, <1>5, <1>6, <1>7, EpCompleteFacts
  <1>9. /\ host' \in {0, host} /\ buf' \in 0 .. Len(kind) /\ stage' \in {"data", "status"}
        /\ answer' \in Seq(Request \union {0}) /\ Len(answer') = Len(answer)
    <2>1. CASE kind[host] = "in" /\ stage = "data"
      <3>1. PICK v : v = IF ctl.req = "data" THEN buf ELSE 0
        OBVIOUS
      <3>2. v \in Request \union {0}
        BY <1>3, <3>1
      <3>3. answer \in Seq(Request \union {0}) /\ answer' = [answer EXCEPT ![host] = v]
        BY <1>1, <1>2, <2>1, <3>1 DEF TunTypes
      <3>4. answer' \in Seq(Request \union {0}) /\ Len(answer') = Len(answer)
        <4>1. PICK S : S = Request \union {0}
          OBVIOUS
        <4>2. PICK a, h : a = answer /\ h = host
          OBVIOUS
        <4>3. a \in Seq(S) /\ v \in S /\ h \in 1 .. Len(a)
          BY <1>3, <3>2, <3>3, <4>1, <4>2
        <4>4. [a EXCEPT ![h] = v] \in Seq(S) /\ Len([a EXCEPT ![h] = v]) = Len(a)
          BY <4>3, ExceptSeq
        <4>5. answer' \in Seq(S) /\ Len(answer') = Len(answer)
          BY <3>3, <4>2, <4>4
        <4> QED
          BY <4>1, <4>5
      <3> QED
        BY <1>1, <1>3, <2>1, <3>4
    <2>2. CASE ~(kind[host] = "in" /\ stage = "data")
      BY <1>1, <1>2, <1>3, <2>2 DEF TunTypes
    <2> QED
      BY <2>1, <2>2
  <1>10. TunBase'
    <2>1. ctl.req # "free" /\ CtlBase(ctl') /\ ctl'.setup \in ctl.setup .. Len(kind)
      BY <1>1, <1>5, <1>8 DEF Queued, Forwards
    <2>2. plug' = "in" <=> ctl'.req # "free"
      BY <1>1, <1>2, <1>5, <1>8, <2>1 DEF TunBase, Forwards
    <2> QED
      BY <1>1, <1>2, <1>9, <2>1, <2>2, BaseKept DEF TunTypes
  <1>11. TunOrder /\ TunToken => TunOrder' /\ TunToken'
    BY <1>1, <1>2, <1>5, <1>6, <1>7, CompleteKeeps
  <1>12. ASSUME TunSmooth, TunData, TunToken PROVE TunSmooth' /\ TunData'
    <2>1. PICK k : k = ctl.setup
      OBVIOUS
    <2>2. host = k /\ ctl.pending = << >> /\ plug = "in"
      BY <1>1, <1>2, <1>6, <1>5, <1>12, <2>1 DEF TunSmooth, TunStage, Queued, TunBase
    <2>3. ctl.busy => TunStage(k)
      BY <1>12, <2>1 DEF TunSmooth
    <2>4. ~ctl.busy => ctl.status /\ kind[k] = "simple"
      BY <1>1, <1>12, <2>1 DEF TunToken, StatusOf
    <2>5. ASSUME ctl.status, host' = 0, UNCHANGED <<stage, answer>>
          PROVE  TunSmooth' /\ TunData'
      <3>1. ~ctl'.busy /\ ctl'.pending = << >> /\ ctl'.req = "idle"
        BY <1>5, <1>8, <2>2, <2>5 DEF Processed
      <3> QED
        BY <1>1, <1>12, <2>2, <2>5, <3>1 DEF TunSmooth, TunData, Queued
    <2>6. CASE kind[k] \in {"address", "simple"} \/ (kind[k] = "in" /\ stage # "data")
      <3>1. ctl.status
        BY <2>3, <2>4, <2>6 DEF TunStage
      <3>2. host' = 0 /\ UNCHANGED <<stage, answer>>
        BY <1>1, <2>2, <2>6
      <3> QED
        BY <2>5, <3>1, <3>2
    <2>7. CASE kind[k] = "in" /\ stage = "data"
      <3>1. ctl.busy /\ ~ctl.status /\ ctl.in /\ ctl.req = "data" /\ buf = k
        BY <1>1, <2>2, <2>3, <2>4, <2>7 DEF TunStage, Queued
      <3>2. ctl'.req = "zero" /\ ctl'.status /\ ~ctl'.in /\ ctl'.setup = k /\ ctl'.pending = << >>
            /\ ctl'.busy
        BY <1>5, <1>8, <2>1, <2>2, <3>1
      <3>3. stage' = "status" /\ host' = k /\ answer' = [answer EXCEPT ![k] = k]
        BY <1>1, <2>2, <2>7, <3>1
      <3>4. TunStage(k)'
        BY <1>1, <2>7, <3>2, <3>3 DEF TunStage
      <3>5. TunSmooth'
        BY <1>1, <1>12, <2>2, <3>2, <3>3, <3>4 DEF TunSmooth
      <3>6. \A j \in DOMAIN answer' : answer'[j] \in {0, j}
        BY <1>12, <3>3 DEF TunData
      <3> QED
        BY <1>1, <1>12, <3>5, <3>6 DEF TunData
    <2>8. CASE kind[k] = "out"
      <3>1. ctl.busy /\ ~ctl.status /\ ~ctl.in /\ host' = 0 /\ buf' = k /\ UNCHANGED <<stage, answer>>
        BY <1>1, <2>2, <2>3, <2>4, <2>8 DEF TunStage
      <3>2. /\ ctl'.work /\ ctl'.status /\ ~ctl'.in /\ ctl'.req = "idle" /\ ctl'.setup = k
            /\ ctl'.pending = << >> /\ ctl'.busy
        BY <1>5, <1>8, <2>1, <2>2, <3>1
      <3>3. host' # k
        BY <1>6, <1>5, <2>1, <3>1
      <3>4. TunStage(k)'
        BY <1>1, <2>8, <3>1, <3>2, <3>3 DEF TunStage
      <3> QED
        BY <1>1, <1>12, <2>2, <3>1, <3>2, <3>4 DEF TunSmooth, TunData
    <2>9. kind[k] \in Kinds
      <3>1. k \in 1 .. Len(kind)
        BY <1>3, <2>2
      <3> QED
        BY <1>3, <3>1, ElementOfSeq
    <2> QED
      BY <2>6, <2>7, <2>8, <2>9 DEF Kinds
  <1> QED
    BY <1>1, <1>10, <1>11, <1>12 DEF TunInv

\* What the host has given up is given back.
LEMMA UdcGivesBackInv ==
    ASSUME TunInv, UdcGivesBack
    PROVE  TunInv'
  <1>1. /\ Queued(ctl) /\ host = 0
        /\ ctl' = EpComplete([ctl EXCEPT !.req = "idle"])
        /\ UNCHANGED <<kind, worker, asked, buf, plug, plugs, host, stage, answer, sent, broken,
                       overrun, tunOops>>
    BY DEF UdcGivesBack
  <1>2. TunBase /\ TunTypes /\ TunNumbers /\ CtlBase(ctl)
    BY DEF TunInv, TunBase
  <1>3. Len(kind) \in 0 .. MaxRequests /\ kind \in Seq(Kinds)
    BY <1>2 DEF TunTypes
  <1>4. PICK c : c = [ctl EXCEPT !.req = "idle"]
    OBVIOUS
  <1>5. /\ c \in CtlRec /\ c.req = "idle" /\ c.req \in {"free", "idle"}
        /\ c.setup = ctl.setup /\ c.in = ctl.in /\ c.status = ctl.status /\ c.busy = ctl.busy
        /\ c.pending = ctl.pending /\ c.work = ctl.work /\ c.twice = ctl.twice
    BY <1>2, <1>4 DEF CtlBase, CtlRec
  <1>6. CtlBase(c) /\ c.setup # 0
    BY <1>1, <1>2, <1>5 DEF CtlBase, PendingOK, Queued
  <1>7. ctl' = EpComplete(c)
    BY <1>1, <1>4
  <1>8. Forwards(ctl', c)
    BY <1>3, <1>5, <1>6, <1>7, EpCompleteFacts
  <1>9. TunBase'
    <2>1. ctl.req # "free" /\ CtlBase(ctl') /\ ctl'.setup \in ctl.setup .. Len(kind)
      BY <1>1, <1>5, <1>8 DEF Queued, Forwards
    <2>2. plug' = "in" <=> ctl'.req # "free"
      BY <1>1, <1>2, <1>5, <1>8, <2>1 DEF TunBase, Forwards
    <2>3. host' \in {0, host} /\ buf' \in 0 .. Len(kind)
      BY <1>1, <1>2 DEF TunNumbers
    <2> QED
      BY <1>1, <1>2, <2>1, <2>2, <2>3, BaseKept DEF TunTypes
  <1>10. TunOrder /\ TunToken => TunOrder' /\ TunToken'
    BY <1>1, <1>2, <1>5, <1>6, <1>7, CompleteKeeps
  <1>11. ~(TunSmooth /\ TunToken)
    BY <1>1, <1>5, <1>6 DEF TunSmooth, TunStage, TunToken, Queued
  <1> QED
    BY <1>1, <1>9, <1>10, <1>11 DEF TunInv

\* The worker sends the request in ctrl.setup to the device, once.
LEMMA WorkStartInv ==
    ASSUME TunInv, WorkStart
    PROVE  TunInv'
  <1>1. TunBase /\ TunTypes /\ TunNumbers /\ CtlBase(ctl)
    BY DEF TunInv, TunBase
  <1>2. /\ ctl \in CtlRec /\ ctl.setup \in 0 .. Len(kind)
        /\ Len(kind) \in Nat /\ Len(kind) \in 0 .. MaxRequests /\ MaxRequests \in Nat
    BY <1>1, UsbtunnelAssumption DEF TunTypes, CtlBase
  <1>3. /\ worker = "idle" /\ ctl.work
        /\ UNCHANGED <<kind, buf, plug, plugs, host, stage, answer, broken, overrun>>
    BY DEF WorkStart
  <1>4. ctl.setup # 0
    BY <1>1, <1>3 DEF CtlBase
  <1>5. CASE plug # "in"
    <2>1. tunOops' \in {"udev", "req"} /\ UNCHANGED <<ctl, worker, asked, sent>>
      BY <1>5 DEF WorkStart
    <2>2. TunBase'
      BY <1>1, <1>3, <2>1 DEF TunBase, TunTypes, TunNumbers, CtlBase, PendingOK
    <2>3. (TunOrder => TunOrder') /\ (TunData => TunData')
      BY <1>3, <2>1, TunFrame
    <2>4. (TunToken => TunToken') /\ (TunSmooth => TunSmooth')
      BY <1>3, <2>1 DEF TunToken, Resting, StatusOf, TunSmooth, TunStage
    <2> QED
      BY <1>3, <2>2, <2>3, <2>4 DEF TunInv
  <1>6. CASE plug = "in"
    <2>1. PICK k, p : k = ctl.setup /\ p = <<k, buf>>
      OBVIOUS
    <2>2. /\ ctl' = [ctl EXCEPT !.work = FALSE] /\ worker' = "wait" /\ asked' = k
          /\ sent' = Append(sent, p) /\ tunOops' = tunOops
      BY <1>6, <2>1 DEF WorkStart
    <2>3. k \in Nat /\ k # 0 /\ k \in Request /\ k \in 1 .. Len(kind)
      BY <1>2, <1>4, <2>1 DEF Request
    <2>4. buf \in Request \union {0}
      BY <1>1, <1>2 DEF TunNumbers, Request
    <2>5. /\ p \in Request \X (Request \union {0}) /\ p[1] = k /\ p[2] = buf
      BY <2>1, <2>3, <2>4
    <2>6. /\ ctl' \in CtlRec /\ ctl'.setup = k /\ ~ctl'.work /\ ctl'.in = ctl.in
          /\ ctl'.status = ctl.status /\ ctl'.busy = ctl.busy /\ ctl'.pending = ctl.pending
          /\ ctl'.req = ctl.req /\ ctl'.twice = ctl.twice
      BY <1>2, <2>1, <2>2 DEF CtlRec
    <2>7. /\ sent' \in Seq(Request \X (Request \union {0}))
          /\ \A i \in DOMAIN sent' : \/ i \in DOMAIN sent /\ sent'[i] = sent[i]
                                     \/ i = Len(sent) + 1 /\ sent'[i] = p
          /\ DOMAIN sent = 1 .. Len(sent) /\ Len(sent) \in Nat
      <3>1. PICK S, q : S = Request \X (Request \union {0}) /\ q = sent
        OBVIOUS
      <3>2. q \in Seq(S) /\ p \in S /\ sent' = Append(q, p)
        BY <1>1, <2>2, <2>5, <3>1 DEF TunTypes
      <3>3. PICK t : t = Append(q, p)
        OBVIOUS
      <3>4. /\ t \in Seq(S) /\ Len(t) = Len(q) + 1 /\ Len(q) \in Nat
            /\ \A i \in 1 .. Len(q) + 1 : t[i] = IF i <= Len(q) THEN q[i] ELSE p
        BY <3>2, <3>3, AppendProperties, LenProperties
      <3>5. DOMAIN q = 1 .. Len(q) /\ DOMAIN t = 1 .. Len(q) + 1
        BY <3>2, <3>4, LenProperties
      <3>6. \A i \in DOMAIN t : \/ i \in DOMAIN q /\ t[i] = q[i]
                                \/ i = Len(q) + 1 /\ t[i] = p
        BY <3>4, <3>5
      <3>7. sent' = t
        BY <3>2, <3>3
      <3> QED
        BY <3>1, <3>4, <3>5, <3>6, <3>7
    <2>8. TunBase'
      <3>1. asked' \in 0 .. ctl'.setup
        BY <2>2, <2>3, <2>6
      <3>2. TunTypes'
        BY <1>1, <1>3, <2>2, <2>7 DEF TunTypes
      <3>3. CtlBase(ctl)'
        BY <1>1, <1>3, <2>1, <2>3, <2>6 DEF CtlBase, PendingOK
      <3>4. TunNumbers'
        BY <1>1, <1>3, <3>1 DEF TunNumbers
      <3> QED
        BY <1>1, <1>3, <2>2, <2>3, <2>6, <3>2, <3>3, <3>4 DEF TunBase
    <2>9. ASSUME TunOrder, TunToken PROVE TunOrder' /\ TunToken'
      <3>1. /\ \A i \in DOMAIN sent : sent[i][1] \in 1 .. k - 1
            /\ \A i, j \in DOMAIN sent : i < j => sent[i][1] < sent[j][1]
        BY <1>3, <2>1, <2>9 DEF TunOrder, OrderOf, SentBelow, SentInOrder
      <3>2. \A i \in DOMAIN sent' : sent'[i][1] \in 1 .. k
        BY <2>3, <2>5, <2>7, <3>1
      <3>3. \A i, j \in DOMAIN sent' : i < j => sent'[i][1] < sent'[j][1]
        <4> SUFFICES ASSUME NEW i \in DOMAIN sent', NEW j \in DOMAIN sent', i < j
                     PROVE  sent'[i][1] < sent'[j][1]
          OBVIOUS
        <4>1. i \in DOMAIN sent /\ sent'[i] = sent[i]
          BY <2>7
        <4>2. CASE j \in DOMAIN sent /\ sent'[j] = sent[j]
          BY <3>1, <4>1, <4>2
        <4>3. CASE sent'[j] = p
          BY <2>3, <2>5, <3>1, <4>1, <4>3
        <4> QED
          BY <2>7, <4>2, <4>3
      <3>4. ctl.status \/ ctl.in
        BY <1>3, <2>9 DEF TunToken
      <3>5. SentBelow(k + 1)'
        BY <2>3, <3>2 DEF SentBelow
      <3>6. OrderOf(ctl)'
        BY <2>6, <3>4, <3>5 DEF OrderOf
      <3>7. ctl'.busy /\ ~Queued(ctl') /\ asked' = ctl'.setup /\ ~(ctl'.status /\ ctl'.in)
        BY <1>3, <2>2, <2>6, <2>9 DEF TunToken, Queued
      <3>8. TunToken'
        BY <2>6, <2>9, <3>7 DEF TunToken
      <3> QED
        BY <3>3, <3>6, <3>8 DEF TunOrder, SentInOrder
    <2>10. ASSUME TunToken, TunSmooth, TunData PROVE TunSmooth' /\ TunData'
      <3>1. ctl.busy /\ ~Queued(ctl)
        BY <1>3, <2>10 DEF TunToken
      <3>2. TunStage(k) /\ ctl.req # "data" /\ ctl.req # "zero"
        BY <2>1, <2>10, <3>1 DEF TunSmooth, Queued
      <3>3. /\ ctl.req = "idle"
            /\ \/ kind[k] = "in" /\ host = k /\ stage = "data" /\ ~ctl.status /\ ctl.in
               \/ kind[k] = "out" /\ host # k /\ ctl.status /\ ~ctl.in /\ buf = k
               \/ kind[k] = "simple" /\ host = k /\ stage = "status" /\ ctl.status /\ ~ctl.in
        BY <3>2 DEF TunStage
      <3>4. TunStage(k)'
        BY <1>3, <2>2, <2>6, <3>3 DEF TunStage
      <3>5. TunSmooth'
        BY <1>3, <2>1, <2>2, <2>6, <2>10, <3>1, <3>4 DEF TunSmooth
      <3>6. kind[k] = "out" => buf = k
        BY <3>3
      <3>7. \A i \in DOMAIN sent' : kind[sent'[i][1]] = "out" => sent'[i][2] = sent'[i][1]
        BY <2>5, <2>7, <2>10, <3>6 DEF TunData
      <3> QED
        BY <1>3, <2>10, <3>5, <3>7 DEF TunData
    <2> QED
      BY <1>3, <2>8, <2>9, <2>10 DEF TunInv
  <1> QED
    BY <1>5, <1>6

\* The device has answered, or failed; the device is unplugged.
LEMMA WorkAnsweredInv ==
    ASSUME TunInv, WorkAnswered \/ WorkFails \/ Unplug
    PROVE  TunInv'
  <1>1. TunBase /\ TunTypes /\ TunNumbers /\ CtlBase(ctl)
    BY DEF TunInv, TunBase
  <1>2. UNCHANGED <<kind, ctl, asked, plugs, host, stage, answer, sent, overrun>>
    BY DEF WorkAnswered, WorkFails, Unplug
  <1>3. (TunOrder => TunOrder') /\ (TunData => TunData')
    BY <1>2, TunFrame
  <1>4. /\ worker' # "idle" => worker # "idle"
        /\ plug' = "in" <=> plug = "in"
    BY DEF WorkAnswered, WorkFails, Unplug
  <1>5. TunBase'
    <2>1. /\ Len(kind) \in Nat /\ asked \in 0 .. Len(kind)
          /\ ctl'.setup \in ctl.setup .. Len(kind) /\ CtlBase(ctl')
      BY <1>1, <1>2, UsbtunnelAssumption DEF TunTypes, TunNumbers, CtlBase
    <2>2. buf' \in {buf, asked}
      BY DEF WorkAnswered, WorkFails, Unplug
    <2>3. buf' \in 0 .. Len(kind) /\ host' \in {0, host}
      BY <1>1, <1>2, <2>1, <2>2 DEF TunNumbers
    <2>4. /\ worker' \in {"idle", "wait", "late", "react", "pend"}
          /\ plug' \in {"out", "in", "unbound"} /\ broken' \in BOOLEAN
          /\ tunOops' \in {"none", "udev", "req"}
      BY <1>1 DEF TunTypes, WorkAnswered, WorkFails, Unplug
    <2>5. plug' = "in" <=> ctl'.req # "free"
      BY <1>1, <1>2, <1>4 DEF TunBase
    <2> QED
      BY <1>1, <1>2, <1>4, <2>1, <2>3, <2>4, <2>5, BaseKept DEF TunTypes
  <1>6. ASSUME TunToken PROVE TunToken'
    <2>1. CASE WorkAnswered
      <3>1. worker \in {"wait", "late"} /\ worker' = "react"
        BY <2>1 DEF WorkAnswered
      <3>2. ~Resting /\ ~Resting'
        BY <3>1 DEF Resting
      <3> QED
        BY <1>2, <1>6, <3>1, <3>2 DEF TunToken
    <2>2. CASE WorkFails
      <3>1. worker \in {"wait", "late"} /\ worker' = "idle"
        BY <2>2 DEF WorkFails
      <3>2. ~Resting /\ Resting'
        BY <3>1 DEF Resting
      <3>3. ~ctl.work /\ ~Queued(ctl) /\ ~(ctl.status /\ ctl.in)
        BY <1>6, <3>1, <3>2 DEF TunToken
      <3> QED
        BY <1>2, <1>6, <3>2, <3>3 DEF TunToken, Queued
    <2>3. CASE Unplug
      BY <1>2, <1>6, <2>3 DEF TunToken, Resting, StatusOf, Unplug
    <2> QED
      BY <2>1, <2>2, <2>3
  <1>7. CASE WorkFails
    BY <1>2, <1>3, <1>5, <1>6, <1>7 DEF WorkFails, TunInv
  <1>8. ASSUME TunSmooth, TunToken, WorkAnswered PROVE TunSmooth'
    <2>1. PICK k : k = ctl.setup
      OBVIOUS
    <2>2. /\ worker = "wait" /\ worker' = "react" /\ UNCHANGED plug
          /\ buf' = IF kind[asked] = "in" THEN asked ELSE buf
      BY <1>8 DEF WorkAnswered, TunSmooth
    <2>3. ctl.busy /\ ~ctl.work /\ ~Queued(ctl) /\ asked = k
      BY <1>8, <2>1, <2>2 DEF TunToken, Resting
    <2>4. TunStage(k)
      BY <1>8, <2>1, <2>3 DEF TunSmooth
    <2>5. TunStage(k)'
      BY <1>2, <2>2, <2>3, <2>4 DEF TunStage, Queued
    <2> QED
      BY <1>2, <1>8, <2>1, <2>2, <2>3, <2>5 DEF TunSmooth
  <1>9. ASSUME TunSmooth, Unplug PROVE TunSmooth'
    BY <1>2, <1>9 DEF TunSmooth, TunStage, Unplug, Queued
  <1> QED
    BY <1>2, <1>3, <1>5, <1>6, <1>7, <1>8, <1>9 DEF TunInv, WorkAnswered, Unplug

\* What is done with the device's answer depends on ctrl, which is read again.
LEMMA WorkReactInv ==
    ASSUME TunInv, WorkReact
    PROVE  TunInv'
  <1>1. TunBase /\ TunTypes /\ TunNumbers /\ CtlBase(ctl)
    BY DEF TunInv, TunBase
  <1>2. /\ worker = "react"
        /\ UNCHANGED <<kind, asked, buf, plug, plugs, host, stage, answer, sent, broken, overrun>>
    BY DEF WorkReact
  <1>3. /\ ctl \in CtlRec /\ asked # 0 /\ ctl.setup # 0
        /\ ctl.setup \in ctl.setup .. Len(kind) /\ ctl.setup \in 1 .. Len(kind)
        /\ ctl.req \in {"free", "idle", "data", "zero"}
    <2>1. ctl \in CtlRec /\ asked # 0 /\ asked \in 0 .. ctl.setup /\ ctl.setup \in 0 .. Len(kind)
      BY <1>1, <1>2 DEF TunBase, TunNumbers, CtlBase
    <2>2. Len(kind) \in Nat
      BY <1>1, UsbtunnelAssumption DEF TunTypes
    <2> QED
      BY <2>1, <2>2 DEF CtlRec
  <1>4. PICK k, l, queues :
            /\ k = ctl.setup
            /\ l = IF ctl.status THEN "zero" ELSE "data"
            /\ queues = IF ctl.status THEN ctl.in \/ kind[k] = "simple" ELSE ctl.in
    OBVIOUS
  <1>5. IF queues /\ ctl.req = "free"
        THEN tunOops' = "req" /\ UNCHANGED <<ctl, worker>>
        ELSE /\ ctl' = IF queues THEN EpQueue(ctl, l) ELSE ctl
             /\ worker' = IF ctl.status THEN "pend" ELSE "idle"
             /\ UNCHANGED tunOops
    BY <1>4 DEF WorkReact
  <1>6. (ctl' = ctl \/ ctl' = EpQueue(ctl, l)) /\ l \in {"data", "zero"}
        /\ worker' \in {"react", "pend", "idle"} /\ tunOops' \in {"none", "udev", "req"}
    BY <1>1, <1>2, <1>4, <1>5 DEF TunTypes
  <1>7. /\ ctl' \in CtlRec
        /\ ctl'.req = "free" <=> ctl.req = "free"
        /\ ctl'.setup = ctl.setup /\ ctl'.busy = ctl.busy /\ ctl'.pending = ctl.pending
        /\ ctl'.work = ctl.work
    BY <1>3, <1>6, EpQueueWeak
  <1>8. TunBase'
    <2>1. CtlBase(ctl')
      BY <1>1, <1>3, <1>7 DEF CtlBase, PendingOK
    <2>2. plug' = "in" <=> ctl'.req # "free"
      BY <1>1, <1>2, <1>7 DEF TunBase
    <2>3. host' \in {0, host} /\ buf' \in 0 .. Len(kind) /\ ctl'.setup \in ctl.setup .. Len(kind)
      BY <1>1, <1>2, <1>3, <1>7 DEF TunNumbers
    <2> QED
      BY <1>1, <1>2, <1>6, <2>1, <2>2, <2>3, BaseKept DEF TunTypes
  <1>9. ASSUME TunToken
        PROVE  /\ TunToken' /\ (TunOrder => TunOrder') /\ (TunData => TunData')
               /\ TunSmooth => TunSmooth'
    <2>1. /\ ~Queued(ctl) /\ ctl.req \in {"free", "idle"} /\ ~ctl.work /\ ctl.busy /\ asked = k
          /\ ~(ctl.status /\ ctl.in) /\ ~ctl.twice
      <3>1. ~Resting
        BY <1>2 DEF Resting
      <3>2. ~Queued(ctl)
        BY <1>2, <1>9, <3>1 DEF TunToken
      <3> QED
        BY <1>3, <1>4, <1>9, <3>1, <3>2 DEF TunToken, Queued
    <2>2. TunSmooth => TunStage(k)
      BY <1>4, <2>1 DEF TunSmooth
    <2>3. CASE queues /\ ctl.req = "free"
      <3>1. UNCHANGED <<ctl, worker>>
        BY <1>5, <2>3
      <3>2. TunToken' /\ (TunSmooth => TunSmooth')
        BY <1>2, <1>9, <3>1 DEF TunToken, Resting, StatusOf, TunSmooth, TunStage
      <3> QED
        BY <1>2, <3>1, <3>2, TunFrame
    <2>4. CASE queues /\ ctl.req = "idle"
      <3>1. ctl' = EpQueue(ctl, l) /\ worker' = IF ctl.status THEN "pend" ELSE "idle"
        BY <1>5, <2>4
      <3>2. /\ ctl'.req = l /\ ctl'.setup = ctl.setup /\ ctl'.in = ctl.in
            /\ ctl'.status = ctl.status /\ ctl'.busy = ctl.busy /\ ctl'.pending = ctl.pending
            /\ ctl'.work = ctl.work /\ ctl'.twice = ctl.twice
        BY <1>3, <1>6, <2>4, <3>1, EpQueueFacts
      <3>3. (TunOrder => TunOrder') /\ (TunData => TunData')
        BY <1>2, <3>2, TunFrame
      <3>4. CASE ctl.status
        <4>1. kind[k] = "simple" /\ ~ctl.in /\ ctl'.req = "zero" /\ worker' = "pend"
          BY <1>4, <2>1, <2>4, <3>1, <3>2, <3>4
        <4>2. StatusOf(ctl)' /\ ~Resting'
          BY <1>2, <1>4, <2>1, <3>2, <3>4, <4>1 DEF StatusOf, Resting
        <4>3. TunToken'
          BY <1>2, <1>4, <2>1, <3>2, <3>4, <4>1, <4>2 DEF TunToken
        <4>4. ASSUME TunSmooth PROVE TunSmooth'
          <5>1. host = k /\ stage = "status"
            BY <2>2, <4>1, <4>4 DEF TunStage
          <5>2. TunStage(k)'
            BY <1>2, <2>1, <3>2, <3>4, <4>1, <5>1 DEF TunStage
          <5> QED
            BY <1>2, <1>4, <2>1, <3>2, <4>1, <4>4, <5>2 DEF TunSmooth
        <4> QED
          BY <3>3, <4>3, <4>4
      <3>5. CASE ~ctl.status
        <4>1. ctl.in /\ ctl'.req = "data" /\ worker' = "idle"
          BY <1>4, <2>4, <3>1, <3>2, <3>5
        <4>2. Resting'
          BY <4>1 DEF Resting
        <4>3. TunToken'
          BY <2>1, <3>2, <3>5, <4>2 DEF TunToken
        <4>4. ASSUME TunSmooth PROVE TunSmooth'
          <5>1. kind[k] = "in" /\ host = k /\ stage = "data" /\ buf = k
            BY <1>2, <2>1, <2>2, <2>4, <3>5, <4>1, <4>4 DEF TunStage
          <5>2. TunStage(k)'
            BY <1>2, <3>2, <3>5, <4>1, <5>1 DEF TunStage
          <5> QED
            BY <1>2, <1>4, <2>1, <3>2, <4>1, <4>4, <5>2 DEF TunSmooth
        <4> QED
          BY <3>3, <4>3, <4>4
      <3> QED
        BY <3>4, <3>5
    <2>5. CASE ~queues
      <3>1. ctl' = ctl /\ worker' = IF ctl.status THEN "pend" ELSE "idle"
        BY <1>5, <2>5
      <3>2. (TunOrder => TunOrder') /\ (TunData => TunData')
        BY <1>2, <3>1, TunFrame
      <3>3. TunToken'
        BY <1>2, <1>4, <1>9, <2>1, <3>1 DEF TunToken, Queued
      <3>4. ASSUME TunSmooth PROVE TunSmooth'
        <4>1. /\ kind[k] = "out" /\ host # k /\ ctl.status /\ ~ctl.in /\ ctl.req = "idle"
              /\ buf = k
          BY <1>2, <1>4, <2>1, <2>2, <2>5, <3>4 DEF TunStage, Queued
        <4>2. TunStage(k)'
          BY <1>2, <2>1, <3>1, <4>1 DEF TunStage
        <4> QED
          BY <1>2, <1>4, <2>1, <3>1, <3>4, <4>1, <4>2 DEF TunSmooth
      <3> QED
        BY <3>2, <3>3, <3>4
    <2> QED
      BY <2>1, <2>3, <2>4, <2>5
  <1> QED
    BY <1>2, <1>8, <1>9 DEF TunInv

\* The worker goes on to the next request, or only frees the tunnel when the
\* completion callback has done so or has yet to.
LEMMA WorkPendInv ==
    ASSUME TunInv, WorkPend
    PROVE  TunInv'
  <1>1. TunBase /\ TunTypes /\ TunNumbers /\ CtlBase(ctl)
    BY DEF TunInv, TunBase
  <1>2. /\ worker = "pend"
        /\ UNCHANGED <<kind, asked, buf, plug, plugs, host, stage, answer, sent, broken>>
    BY DEF WorkPend
  <1>3. /\ ctl \in CtlRec /\ Len(kind) \in 0 .. MaxRequests /\ Len(kind) \in Nat
        /\ kind \in Seq(Kinds) /\ ctl.setup \in 0 .. Len(kind) /\ ctl.setup \in Nat
        /\ ctl.setup \in ctl.setup .. Len(kind) /\ asked \in 0 .. ctl.setup
        /\ ctl.req \in {"free", "idle", "data", "zero"}
    <2>1. /\ ctl \in CtlRec /\ Len(kind) \in 0 .. MaxRequests /\ kind \in Seq(Kinds)
          /\ ctl.setup \in 0 .. Len(kind) /\ asked \in 0 .. ctl.setup
      BY <1>1 DEF TunTypes, TunNumbers, CtlBase
    <2> QED
      BY <2>1, UsbtunnelAssumption DEF CtlRec
  <1>4. CASE UNCHANGED <<ctl, worker, overrun>>
    <2>1. tunOops' \in {"none", "udev", "req"}
      BY <1>1 DEF TunTypes, WorkPend
    <2>2. TunBase'
      BY <1>1, <1>2, <1>4, <2>1 DEF TunBase, TunTypes, TunNumbers, CtlBase, PendingOK
    <2>3. (TunOrder => TunOrder') /\ (TunData => TunData')
      BY <1>2, <1>4, TunFrame
    <2>4. (TunToken => TunToken') /\ (TunSmooth => TunSmooth')
      BY <1>2, <1>4 DEF TunToken, Resting, StatusOf, TunSmooth, TunStage
    <2> QED
      BY <1>2, <1>4, <2>2, <2>3, <2>4 DEF TunInv
  <1>5. CASE /\ ctl' = ProcessPending(ctl) /\ worker' = "idle" /\ tunOops' = tunOops
             /\ overrun' = (overrun \/ (ctl.busy /\ (\/ ctl.setup # asked
                                                     \/ Queued(ctl) /\ ctl.pending # << >>)))
    <2>1. /\ Forwards(ctl', ctl)
          /\ ctl.pending = << >> \/ ctl.req \in {"free", "idle"} => Processed(ctl', ctl)
      BY <1>1, <1>3, <1>5, ProcessPendingFacts
    <2>2. TunBase'
      <3>1. CtlBase(ctl') /\ ctl'.setup \in ctl.setup .. Len(kind)
        BY <2>1 DEF Forwards
      <3>2. plug' = "in" <=> ctl'.req # "free"
        BY <1>1, <1>2, <2>1 DEF TunBase, Forwards
      <3>3. host' \in {0, host} /\ buf' \in 0 .. Len(kind)
        BY <1>1, <1>2 DEF TunNumbers
      <3>4. overrun' \in BOOLEAN
        BY <1>1, <1>5 DEF TunTypes
      <3> QED
        BY <1>1, <1>2, <1>5, <3>1, <3>2, <3>3, <3>4, BaseKept DEF TunTypes
    <2>3. ASSUME ~overrun', TunOrder, TunToken
          PROVE  /\ TunOrder' /\ TunToken' /\ (TunData => TunData')
                 /\ TunSmooth => TunSmooth'
      <3>1. ~overrun /\ (ctl.busy => ctl.setup = asked /\ (~Queued(ctl) \/ ctl.pending = << >>))
        BY <1>5, <2>3
      <3>2. ~ctl.twice /\ OrderOf(ctl) /\ SentInOrder
        BY <2>3 DEF TunToken, TunOrder
      <3>3. TunData => TunData'
        BY <1>2 DEF TunData
      <3>4. CASE ~ctl.busy
        <4>1. ctl.pending = << >> /\ ~Queued(ctl) /\ ~ctl.work
          BY <1>1, <1>2, <2>3, <3>4 DEF CtlBase, TunToken
        <4>2. /\ ~ctl'.busy /\ ctl'.setup = ctl.setup /\ ctl'.in = ctl.in
              /\ ctl'.status = ctl.status /\ ctl'.pending = ctl.pending /\ ctl'.work = ctl.work
              /\ ctl'.req = ctl.req /\ ctl'.twice = ctl.twice
          BY <2>1, <4>1 DEF Processed
        <4>3. TunOrder'
          BY <1>2, <2>3, <4>2 DEF TunOrder, SentInOrder, OrderOf, SentBelow
        <4>4. TunToken'
          BY <1>5, <3>2, <4>1, <4>2 DEF TunToken, Resting, Queued
        <4>5. TunSmooth => TunSmooth'
          BY <1>2, <1>5, <3>4, <4>2 DEF TunSmooth, Queued
        <4> QED
          BY <3>3, <4>3, <4>4, <4>5
      <3>5. CASE ctl.busy
        <4>1. ctl.setup = asked /\ ~Resting /\ ~ctl.work /\ ~(ctl.status /\ ctl.in)
          BY <1>2, <2>3, <3>1, <3>5 DEF Resting, TunToken
        <4>2. TunSmooth => TunStage(ctl.setup)
          BY <3>5 DEF TunSmooth
        <4>3. CASE ~Queued(ctl)
          <5>1. ctl.req \in {"free", "idle"}
            BY <1>3, <4>3 DEF Queued
          <5>2. TunOrder' /\ TunToken'
            <6>1. worker' \in {"idle", "pend"} /\ asked' \in 0 .. ctl.setup
              BY <1>2, <1>3, <1>5
            <6> QED
              BY <1>1, <1>2, <2>1, <3>2, <4>1, <5>1, <6>1, ProcessedKeeps
          <5>3. ASSUME TunSmooth PROVE TunSmooth'
            <6>1. host # ctl.setup /\ ctl.req = "idle" /\ plug = "in" /\ ctl'.req # "free"
              <7>1. host # ctl.setup /\ ctl.req = "idle"
                BY <1>2, <4>1, <4>2, <4>3, <5>3 DEF TunStage, Queued
              <7> QED
                BY <1>1, <2>1, <7>1 DEF TunBase, Forwards
            <6>2. CASE host = 0
              <7>1. ctl.pending = << >>
                BY <5>3, <6>2 DEF TunSmooth
              <7>2. ~ctl'.busy /\ ctl'.pending = << >> /\ ~Queued(ctl')
                BY <2>1, <6>1, <7>1 DEF Processed, Queued
              <7> QED
                BY <1>2, <1>5, <6>1, <6>2, <7>2 DEF TunSmooth
            <6>3. CASE host # 0
              <7>1. PICK k, kd : k = host /\ kd = kind[k]
                OBVIOUS
              <7>2. k \in Request /\ k \in 1 .. Len(kind) /\ kd \in Kinds
                <8>1. k \in 1 .. Len(kind)
                  BY <1>1, <1>3, <6>3, <7>1 DEF TunNumbers
                <8> QED
                  BY <1>3, <7>1, <8>1, ElementOfSeq, UsbtunnelAssumption DEF Request
              <7>3. /\ ctl.pending = <<k>>
                    /\ stage = IF kd \in {"in", "out"} THEN "data" ELSE "status"
                BY <5>3, <6>1, <6>3, <7>1 DEF TunSmooth
              <7>4. ctl.pending # << >> /\ Head(ctl.pending) = k /\ Tail(ctl.pending) = << >>
                BY <7>3
              <7>5. Started(ctl', ctl, k, kd) /\ ctl'.pending = << >>
                BY <2>1, <5>1, <7>1, <7>4 DEF Processed
              <7>6. ctl'.busy /\ ctl'.setup = k
                BY <7>5 DEF Started
              <7>7. kind'[k] = kd /\ host' = k /\ stage' = IF kd \in {"in", "out"} THEN "data" ELSE "status"
                BY <1>2, <7>1, <7>3
              <7>8. TunStage(k)'
                BY <1>3, <6>1, <7>2, <7>5, <7>7, StartedStage
              <7> QED
                BY <1>2, <1>5, <6>1, <6>3, <7>5, <7>6, <7>7, <7>8 DEF TunSmooth
            <6> QED
              BY <6>2, <6>3
          <5> QED
            BY <3>3, <5>2, <5>3
        <4>4. CASE Queued(ctl)
          <5>1. ctl.pending = << >> /\ StatusOf(ctl)
            BY <1>2, <2>3, <3>1, <3>5, <4>1, <4>4 DEF TunToken
          <5>2. /\ ~ctl'.busy /\ ctl'.setup = ctl.setup /\ ctl'.in = ctl.in
                /\ ctl'.status = ctl.status /\ ctl'.pending = ctl.pending
                /\ ctl'.work = ctl.work /\ ctl'.req = ctl.req /\ ctl'.twice = ctl.twice
            BY <2>1, <5>1 DEF Processed
          <5>3. TunOrder'
            BY <1>2, <2>3, <5>2 DEF TunOrder, SentInOrder, OrderOf, SentBelow
          <5>4. StatusOf(ctl)'
            BY <1>2, <5>1, <5>2 DEF StatusOf
          <5>5. Resting'
            BY <1>5 DEF Resting
          <5>6. TunToken'
            BY <1>5, <3>2, <4>1, <5>2, <5>4, <5>5 DEF TunToken
          <5>7. ASSUME TunSmooth PROVE TunSmooth'
            <6>1. host = ctl.setup /\ Queued(ctl')
              BY <1>1, <4>2, <4>4, <5>1, <5>2, <5>7 DEF TunStage, StatusOf, Queued
            <6> QED
              BY <1>2, <1>5, <5>1, <5>2, <5>7, <6>1 DEF TunSmooth
          <5> QED
            BY <3>3, <5>3, <5>6, <5>7
        <4> QED
          BY <4>3, <4>4
      <3> QED
        BY <3>4, <3>5
    <2>4. ~overrun' => ~overrun
      BY <1>5
    <2> QED
      BY <1>2, <2>2, <2>3, <2>4 DEF TunInv
  <1> QED
    BY <1>4, <1>5 DEF WorkPend

\* The device is plugged in: there is a request for endpoint 0 again.
LEMMA PlugInv ==
    ASSUME TunInv, Plug
    PROVE  TunInv'
  <1>1. TunBase /\ TunTypes /\ TunNumbers /\ CtlBase(ctl)
    BY DEF TunInv, TunBase
  <1>2. /\ plug = "out" /\ plugs < MaxPlugs /\ plug' = "in" /\ plugs' = plugs + 1
        /\ ctl' = [ctl EXCEPT !.req = "idle"]
        /\ UNCHANGED <<kind, worker, asked, buf, host, stage, answer, sent, broken, overrun, tunOops>>
    BY DEF Plug
  <1>3. /\ ctl' \in CtlRec /\ ctl'.req = "idle" /\ ctl'.setup = ctl.setup /\ ctl'.in = ctl.in
        /\ ctl'.status = ctl.status /\ ctl'.busy = ctl.busy /\ ctl'.pending = ctl.pending
        /\ ctl'.work = ctl.work /\ ctl'.twice = ctl.twice
    BY <1>1, <1>2 DEF CtlBase, CtlRec
  <1>4. ctl.req = "free"
    BY <1>1, <1>2 DEF TunBase
  <1>5. TunBase'
    <2>1. plugs' \in 0 .. MaxPlugs
      BY <1>1, <1>2, UsbtunnelAssumption DEF TunTypes
    <2>2. CtlBase(ctl)'
      BY <1>1, <1>2, <1>3 DEF CtlBase, PendingOK, Queued
    <2>3. TunTypes' /\ TunNumbers'
      BY <1>1, <1>2, <1>3, <2>1 DEF TunTypes, TunNumbers
    <2> QED
      BY <1>1, <1>2, <1>3, <2>2, <2>3 DEF TunBase
  <1>6. (TunOrder => TunOrder') /\ (TunData => TunData')
    BY <1>2, <1>3, TunFrame
  <1>7. ~Queued(ctl) /\ ~Queued(ctl')
    BY <1>3, <1>4 DEF Queued
  <1>8. TunToken => TunToken'
    BY <1>2, <1>3, <1>7 DEF TunToken, Resting
  <1>9. TunSmooth => TunSmooth'
    BY <1>2, <1>3, <1>7 DEF TunSmooth
  <1> QED
    BY <1>2, <1>5, <1>6, <1>8, <1>9 DEF TunInv

\* The gadget goes: its request is given back if it was queued, and whatever was
\* under way is cut short.
LEMMA UnbindInv ==
    ASSUME TunInv, Unbind
    PROVE  TunInv'
  <1>1. TunBase /\ TunTypes /\ TunNumbers /\ CtlBase(ctl)
    BY DEF TunInv, TunBase
  <1>2. PICK c : c = [ctl EXCEPT !.req = "free"]
    OBVIOUS
  <1>3. /\ plug = "in" /\ plug' = "unbound"
        /\ ctl' = IF ctl.req = "idle" THEN c ELSE EpComplete(c)
        /\ broken' = (broken \/ host # 0 \/ ctl.busy \/ worker # "idle")
        /\ worker' = IF worker = "wait" THEN "late" ELSE worker
        /\ host' = 0 /\ buf' = 0
        /\ UNCHANGED <<kind, asked, plugs, stage, answer, sent, overrun, tunOops>>
    BY <1>2 DEF Unbind
  <1>4. /\ c \in CtlRec /\ c.req = "free" /\ c.setup = ctl.setup /\ c.in = ctl.in
        /\ c.status = ctl.status /\ c.busy = ctl.busy /\ c.pending = ctl.pending
        /\ c.work = ctl.work /\ c.twice = ctl.twice
    BY <1>1, <1>2 DEF CtlBase, CtlRec
  <1>5. ctl.req = "idle" \/ Queued(ctl)
    BY <1>1, <1>3 DEF TunBase, CtlBase, Queued, CtlRec
  <1>6. /\ Len(kind) \in 0 .. MaxRequests /\ Len(kind) \in Nat /\ kind \in Seq(Kinds)
        /\ CtlBase(c) /\ c.setup \in c.setup .. Len(kind)
    <2>1. CtlBase(c) /\ c.setup \in 0 .. Len(kind)
      BY <1>1, <1>4 DEF CtlBase, PendingOK, Queued
    <2>2. Len(kind) \in 0 .. MaxRequests /\ Len(kind) \in Nat /\ kind \in Seq(Kinds)
      BY <1>1, UsbtunnelAssumption DEF TunTypes
    <2> QED
      BY <2>1, <2>2
  <1>7. ASSUME Forwards(ctl', c) PROVE TunBase'
    <2>1. CtlBase(ctl') /\ ctl'.setup \in ctl.setup .. Len(kind) /\ ctl'.req = "free"
      BY <1>4, <1>7 DEF Forwards
    <2>2. /\ host' \in {0, host} /\ buf' \in 0 .. Len(kind)
          /\ worker' \in {"idle", "wait", "late", "react", "pend"}
          /\ worker' # "idle" => worker # "idle"
          /\ broken' \in BOOLEAN
      BY <1>1, <1>3, <1>6 DEF TunTypes
    <2>3. plug' \in {"out", "in", "unbound"} /\ (plug' = "in" <=> ctl'.req # "free")
      BY <1>3, <2>1
    <2> QED
      BY <1>1, <1>3, <2>1, <2>2, <2>3, BaseKept DEF TunTypes
  <1>8. CASE ctl.req = "idle"
    <2>1. ctl' = c
      BY <1>3, <1>8
    <2>2. (TunOrder => TunOrder') /\ (TunData => TunData')
      BY <1>3, <1>4, <2>1, TunFrame
    <2>3. ~Queued(ctl) /\ ~Queued(ctl')
      BY <1>4, <1>8, <2>1 DEF Queued
    <2>4. Resting <=> Resting'
      BY <1>3, <1>4, <2>1 DEF Resting
    <2>5. TunToken => TunToken'
      BY <1>3, <1>4, <2>1, <2>3, <2>4 DEF TunToken
    <2>6. TunBase'
      BY <1>6, <1>7, <2>1 DEF Forwards
    <2>7. ASSUME TunSmooth, ~broken' PROVE TunSmooth'
      <3>1. host = 0 /\ ~ctl.busy /\ worker = "idle"
        BY <1>3, <2>7
      <3> QED
        BY <1>3, <1>4, <2>1, <2>3, <2>7, <3>1 DEF TunSmooth
    <2>8. ~broken' => ~broken
      BY <1>3
    <2> QED
      BY <1>3, <2>2, <2>5, <2>6, <2>7, <2>8 DEF TunInv
  <1>9. CASE Queued(ctl)
    <2>1. ctl' = EpComplete(c) /\ c.req \in {"free", "idle"} /\ c.setup # 0
      BY <1>1, <1>3, <1>4, <1>9 DEF Queued, CtlBase
    <2>2. Forwards(ctl', c)
      BY <1>6, <2>1, EpCompleteFacts
    <2>3. ASSUME TunOrder, TunToken PROVE TunOrder' /\ TunToken'
      <3>1. worker' = worker
        BY <1>3, <1>9, <2>3 DEF TunToken, Resting
      <3> QED
        BY <1>1, <1>3, <1>4, <1>6, <1>9, <2>1, <2>3, <3>1, CompleteKeeps
    <2>4. ~broken' => ~TunSmooth
      <3>1. ~broken' => host = 0 /\ ~ctl.busy
        BY <1>3
      <3> QED
        BY <1>4, <1>9, <2>1, <3>1 DEF TunSmooth
    <2>5. ~broken' => ~broken
      BY <1>3
    <2> QED
      BY <1>3, <1>7, <2>2, <2>3, <2>4, <2>5 DEF TunInv
  <1> QED
    BY <1>5, <1>8, <1>9

LEMMA TunNextInv ==
    ASSUME TunInv, TunNext
    PROVE  TunInv'
  <1>1. Kind \subseteq Kinds
    BY UsbtunnelAssumption
  <1>2. ASSUME NEW kd \in Kind, HostSends(kd) PROVE TunInv'
    BY <1>1, <1>2, HostSendsInv
  <1> QED
    BY <1>2, HostAbandonsInv, UdcCompletesInv, UdcGivesBackInv, WorkStartInv, WorkAnsweredInv,
       WorkReactInv, WorkPendInv, PlugInv, UnbindInv DEF TunNext, Work

LEMMA TunInvSound == TunInv => TunTypeOK /\ ForwardedOnce /\ RightAnswer /\ CtrlHonest
  <1> SUFFICES ASSUME TunInv PROVE TunTypeOK /\ ForwardedOnce /\ RightAnswer /\ CtrlHonest
    OBVIOUS
  <1>1. TunBase /\ TunTypes /\ TunNumbers /\ CtlBase(ctl)
    BY DEF TunInv, TunBase
  <1>2. TunTypeOK
    <2>1. MaxRequests \in Nat /\ Len(kind) \in 0 .. MaxRequests /\ ctl.setup \in 0 .. MaxRequests
      BY <1>1, UsbtunnelAssumption DEF TunTypes, CtlBase
    <2>2. {asked, buf, host} \subseteq Request \union {0}
      BY <1>1, <2>1 DEF TunNumbers, Request
    <2> QED
      BY <1>1, <2>2 DEF TunTypes, TunTypeOK, CtlBase, CtlRec
  <1>3. ForwardedOnce
    BY DEF TunInv, TunOrder, SentInOrder, TunData, ForwardedOnce
  <1>4. RightAnswer
    BY DEF TunInv, TunData, RightAnswer, OwnAnswers
  <1>5. CtrlHonest
    <2>1. ASSUME ~ctl.busy, ~overrun
          PROVE  /\ ~ctl.work /\ ctl.pending = << >> /\ worker \in {"idle", "pend"}
                 /\ Queued(ctl) => ctl.req = "zero" /\ kind[ctl.setup] = "simple"
      <3>1. TunToken
        BY <2>1 DEF TunInv
      <3>2. Resting /\ ~ctl.work
        BY <2>1, <3>1 DEF TunToken
      <3>3. Queued(ctl) => StatusOf(ctl)
        BY <2>1, <3>1 DEF TunToken
      <3> QED
        BY <1>1, <2>1, <3>2, <3>3 DEF CtlBase, Resting, StatusOf
    <2>2. ASSUME Queued(ctl), host # 0, ~broken, ~overrun
          PROVE  ctl.setup = host /\ (ctl.status <=> ctl.req = "zero")
      <3>1. TunSmooth /\ TunToken
        BY <2>2 DEF TunInv
      <3>2. CASE ctl.busy
        <4>1. TunStage(ctl.setup)
          BY <3>1, <3>2 DEF TunSmooth
        <4>2. ~ctl.work
          BY <2>2, <3>1 DEF TunToken
        <4> QED
          BY <2>2, <4>1, <4>2 DEF TunStage, Queued
      <3>3. CASE ~ctl.busy
        BY <2>2, <3>1, <3>3 DEF TunSmooth, TunToken, StatusOf
      <3> QED
        BY <3>2, <3>3
    <2> QED
      BY <2>1, <2>2 DEF TunInv, TunToken, CtrlHonest
  <1> QED
    BY <1>2, <1>3, <1>4, <1>5

-----------------------------------------------------------------------------
(* The four of them.                                                       *)

\* What is the same afterwards still has its invariant.
LEMMA TunStutter == TunInv /\ UNCHANGED tunVars => TunInv'
  BY DEF TunInv, TunBase, TunTypes, TunNumbers, CtlBase, TunOrder, SentInOrder, OrderOf,
         SentBelow, PendingOK, TunToken, Resting, StatusOf, Queued, TunSmooth, TunStage, TunData,
         tunVars

LEMMA TlStutter == TlInv /\ UNCHANGED tlVars => TlInv'
  BY DEF TlInv, TlTypeOK, TlInHand, TlPlaces, TlOwned, TlListed, tlVars

LEMMA BusStutter == BusInv /\ UNCHANGED busVars => BusInv'
  BY DEF BusInv, BusQueue, BusPort, BusQuiet, BusGadget, busVars, port, walk, Excess, InTurn

LEMMA TkStutter == TkInv /\ UNCHANGED tkVars => TkInv'
  BY DEF TkInv, TkTypeOK, TkHeld, tkVars

\* The inductive invariant.
IInv == TlInv /\ BusInv /\ TkInv /\ TunInv

\* The invariants of the list, the bus, usbticker and the control requests hold
\* initially, and every step of theirs preserves them, as does a step of another part.
THEOREM Invariance == Spec => []IInv
  <1>1. Init => IInv
    BY TlInitInv, BusInitInv, TkInitInv, TunInitInv DEF Init, IInv
  <1>2. IInv /\ [Next]_vars => IInv'
    <2> SUFFICES ASSUME IInv, [Next]_vars PROVE IInv'
      OBVIOUS
    <2>1. TlInv'
      BY TlNextInv, TlStutter DEF IInv, Next, vars
    <2>2. BusInv'
      BY BusNextInv, BusStutter DEF IInv, Next, vars
    <2>3. TkInv'
      BY TkNextInv, TkStutter DEF IInv, Next, vars
    <2>4. TunInv'
      BY TunNextInv, TunStutter DEF IInv, Next, vars
    <2> QED
      BY <2>1, <2>2, <2>3, <2>4 DEF IInv
  <1> QED
    BY <1>1, <1>2, PTL DEF Spec

\* Whatever becomes of f_ticker_enable and of the timer, the one USB request of
\* usbticker is there whenever it is used, unless an enable has failed.
THEOREM TkRequestThereAlways == Spec => []TkRequestThere
  <1>1. IInv => TkRequestThere
    BY DEF IInv, TkInv, TkHeld, TkTypeOK, TkRequestThere
  <1> QED
    BY <1>1, Invariance, PTL

\* However many processes write to the attributes: the list has the live tunnels,
\* each once, and none is used after it was freed, unless two lookups overlapped.
THEOREM TunnelsSoundAlways == Spec => []TunnelsSound
  <1>1. IInv => TunnelsSound
    BY TlInvSound DEF IInv
  <1> QED
    BY <1>1, Invariance, PTL

\* Any URBs on the queue in any order: each is given back once, and what is owed
\* is what is queued.
THEOREM UrbsOnceAlways == Spec => []UrbsOnce
  <1>1. IInv => UrbsOnce
    BY BusInvSound DEF IInv
  <1> QED
    BY <1>1, Invariance, PTL

\* However the hub driver and the gadget interleave and however often either repeats
\* itself, until the host controller goes: for the first 254 reports the port is
\* connected iff there were two more of a connection than of a disconnection, which is
\* when both ends are up as long as each reports in turn; and a change is not missed.
THEOREM PortHonestAlways == Spec => []PortHonest
  <1>1. IInv => PortHonest
    BY BusInvSound DEF IInv
  <1> QED
    BY <1>1, Invariance, PTL

\* However many requests of any kind the host sends, whatever fails or is given up and
\* however often the device is replugged: until the worker is done with the tunnel when
\* it is another request's, no request reaches the device twice or after a later one;
\* and the data of an OUT request is that which came with it, until one is cut short.
THEOREM ForwardedOnceAlways == Spec => []ForwardedOnce
  <1>1. IInv => ForwardedOnce
    BY TunInvSound DEF IInv
  <1> QED
    BY <1>1, Invariance, PTL

\* However many requests of any kind the host sends, an IN request is given the
\* device's answer to it and not to another, until the worker overruns another request
\* or one is cut short.
THEOREM RightAnswerAlways == Spec => []RightAnswer
  <1>1. IInv => RightAnswer
    BY TunInvSound DEF IInv
  <1> QED
    BY <1>1, Invariance, PTL

\* Until the worker overruns another request, ctrl.req is never queued while it is
\* queued, and when in_progress is clear all that is under way is the status stage of a
\* request without data; until one is cut short, the state says what is under way.
THEOREM CtrlHonestAlways == Spec => []CtrlHonest
  <1>1. IInv => CtrlHonest
    BY TunInvSound DEF IInv
  <1> QED
    BY <1>1, Invariance, PTL

\* The variables of the four keep their types, whatever is repeated, overrun or cut
\* short: connected_ends is the 8 bits it has in struct usblb_bus, and the number in
\* ctrl.setup is that of a request.
THEOREM TypeCorrect == Spec => []TypeOK
  <1>1. IInv => TypeOK
    BY TunInvSound, BusInvSound DEF IInv, TlInv, TkInv, TypeOK
  <1> QED
    BY <1>1, Invariance, PTL
=============================================================================
