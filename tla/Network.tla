------------------------------- MODULE Network -------------------------------
(***************************************************************************)
(* The network task and the IPv4 configuration on top of the Ethernet       *)
(* driver.  The task reads the frames that have arrived and then, every     *)
(* 100 ms and under the lwIP core lock, looks at the link and at the state  *)
(* of DHCP: an interface that gets no lease in time falls back to a static  *)
(* address, and DHCP goes on looking behind it.                             *)
(*                                                                          *)
(* lwIP is external: it obtains a lease and may lose it again, between any  *)
(* two polls.                                                               *)
(***************************************************************************)
EXTENDS Ethernet

CONSTANTS
  TickRange,    \* the tick is a number modulo 2^32
  DhcpTimeout,  \* LWIP_DHCP_TIMEOUT_MS
  MaxDelay      \* bound on the ticks that pass inside a poll

ASSUME NetworkAssumption ==
  /\ TickRange \in Nat \ {0}
  /\ DhcpTimeout \in Nat
  /\ MaxDelay \in Nat \ {0}
  /\ DhcpTimeout + MaxDelay <= TickRange

VARIABLES
  netPc,        \* what the network task is at: "read" or "poll"
  cable,        \* what the PHY reports
  linkUp,       \* the link flag of gnetif, which is up and down with it
  sinceStart,   \* the tick minus lwipDhcpWaitStartTick, modulo TickRange
  config,       \* the address, the state of DHCP, and the flags of lwip.c
  leaseLost     \* history: the lease was lost and the address not set since

netVars == <<cable, linkUp, sinceStart, config, leaseLost>>
vars == <<ethVars, netPc, netVars>>

Configuration ==
  [address : {"none", "dhcp", "static"},
   dhcp : {"off", "searching", "bound"},
   lwipNetworkConfigurationReported : BOOLEAN,
   lwipStaticFallbackActive : BOOLEAN,
   lwipNetworkReady : BOOLEAN]

Unconfigured ==
  [address |-> "none",
   dhcp |-> "off",
   lwipNetworkConfigurationReported |-> FALSE,
   lwipStaticFallbackActive |-> FALSE,
   lwipNetworkReady |-> FALSE]

(* lwip_ReportNetworkConfiguration: what is reported is also ready to use,  *)
(* if the link is.                                                          *)
Report(link, c) ==
  [c EXCEPT !.lwipNetworkConfigurationReported = TRUE,
            !.lwipNetworkReady = link]

ApplyStaticConfiguration(link, c) ==
  Report(link, [c EXCEPT !.address = "static",
                         !.dhcp = IF link THEN @ ELSE "off",
                         !.lwipStaticFallbackActive = TRUE])

(* What lwip_StartDhcp leaves: dhcp_start may fail for want of memory. *)
StartDhcp ==
  {[Unconfigured EXCEPT !.dhcp = "searching"],
   ApplyStaticConfiguration(TRUE, Unconfigured)}

(* What dhcp_stop leaves of c: a leased address is given up, and so is a    *)
(* static one that DHCP was searching behind.                               *)
StopDhcp(c) ==
  {[Unconfigured EXCEPT !.address = a] :
     a \in {"none"} \cup (IF c.dhcp = "bound" THEN {} ELSE {c.address})}

(* Unsigned: a tick that is d later than another one is this far behind it. *)
LaterBy(d) == (TickRange - d) % TickRange

(* Mutant: a configuration that was reported once is not looked at again. *)
ProcessUnreported(link, c, elapsed) ==
  IF link /\ c.lwipNetworkConfigurationReported
  THEN c
  ELSE IF link /\ c.dhcp = "bound"
  THEN Report(link, c)
  ELSE IF c.address = "none" /\ elapsed >= DhcpTimeout
  THEN ApplyStaticConfiguration(link, c)
  ELSE c

(* lwip_ProcessConfiguration, with the ticks it takes to have passed since  *)
(* the wait for a lease began.                                              *)
ProcessConfiguration(link, c, elapsed) ==
  IF link /\ c.dhcp = "bound"
  THEN IF ~c.lwipNetworkConfigurationReported \/ c.lwipStaticFallbackActive
       THEN Report(link, [c EXCEPT !.lwipStaticFallbackActive = FALSE])
       ELSE c
  ELSE IF c.address = "none" /\ elapsed >= DhcpTimeout
  THEN ApplyStaticConfiguration(link, c)
  ELSE c

(* lwip_CoreInit: the link is down, or ethernetif_init has found it up.     *)
(* Nothing processes the configuration here, so that a wait that begins now *)
(* is over when its time has passed.                                        *)
Init ==
  /\ EthInit
  /\ netPc = "read"
  /\ cable \in BOOLEAN
  /\ linkUp = running
  /\ sinceStart = 0
  /\ config \in IF linkUp THEN StartDhcp ELSE {Unconfigured}
  /\ leaseLost = FALSE

-----------------------------------------------------------------------------
(* A poll looks at the link and then processes the configuration, with the  *)
(* tick `now' that was read before: when the link has changed, the wait for *)
(* a lease begins at a later tick than now.                                 *)

(* Mutant: only the link flag goes down. *)
LoseLinkOnly ==
  /\ linkUp
  /\ ~cable
  /\ running' = FALSE
  /\ linkUp' = FALSE
  /\ UNCHANGED <<txVars, rxVars, cable, sinceStart, config, leaseLost>>

(* ethernet_link_check_state, lwip_LinkStatusChanged and                    *)
(* lwip_ProcessConfiguration, without a link.  dhcp_stop releases a lease   *)
(* by a frame, if lwIP has memory for it and the driver a descriptor; the   *)
(* engine is stopped by then.  Less than a tick may pass before the wait    *)
(* begins, but not when a frame has been waited for.                        *)
LoseLink ==
  /\ linkUp
  /\ ~cable
  /\ running' = FALSE
  /\ linkUp' = FALSE
  /\ \E late \in 0 .. MaxDelay, stopped \in StopDhcp(config) :
       /\ \/ config.dhcp = "bound" /\ late > 0 /\ WriteWhileStopped
          \/ UNCHANGED txVars
       /\ config' = ProcessConfiguration(FALSE, stopped, LaterBy(late))
  /\ sinceStart' = 0
  /\ leaseLost' = FALSE
  /\ UNCHANGED <<rxVars, cable>>

(* The same when the link is found up; ethernet_Start takes some ticks. *)
FindLink ==
  /\ ~linkUp
  /\ cable
  /\ running' = TRUE
  /\ linkUp' = TRUE
  /\ \E late \in 1 .. MaxDelay, started \in StartDhcp :
       config' = ProcessConfiguration(TRUE, started, LaterBy(late))
  /\ sinceStart' = 0
  /\ leaseLost' = FALSE
  /\ UNCHANGED <<txVars, rxVars, cable>>

KeepLink ==
  /\ linkUp = cable
  /\ config' = ProcessConfiguration(linkUp, config, sinceStart)
  /\ leaseLost' = (leaseLost /\ config'.address = "none")
  /\ UNCHANGED <<ethVars, cable, linkUp, sinceStart>>

(* Lwip_Process polls when no frame is left to read and 100 ms have passed, *)
(* under the core lock, which whoever is sending a frame holds.             *)
InputDone ==
  /\ netPc = "read"
  /\ rxOwn[rxIndex]
  /\ netPc' = "poll"
  /\ UNCHANGED <<ethVars, netVars>>

Poll ==
  /\ netPc = "poll"
  /\ txFrame = NoFrame
  /\ LoseLink \/ FindLink \/ KeepLink
  /\ netPc' = "read"

-----------------------------------------------------------------------------
(* The environment: the cable, time, and lwIP's DHCP client. *)
CableChanges ==
  /\ cable' = ~cable
  /\ UNCHANGED <<ethVars, netPc, linkUp, sinceStart, config, leaseLost>>

(* The tick goes round after 49.7 days, and a wait that was over is not     *)
(* over for ten seconds.  By then a poll has done what it had to do.        *)
TimePasses ==
  /\ sinceStart' = (sinceStart + 1) % TickRange
  /\ sinceStart' = 0 => ProcessConfiguration(linkUp, config, sinceStart) = config
  /\ UNCHANGED <<ethVars, netPc, cable, linkUp, config, leaseLost>>

LeaseObtained ==
  /\ linkUp
  /\ config.dhcp = "searching"
  /\ config' = [config EXCEPT !.dhcp = "bound", !.address = "dhcp"]
  /\ leaseLost' = FALSE
  /\ UNCHANGED <<ethVars, netPc, cable, linkUp, sinceStart>>

LeaseGone ==
  /\ config.dhcp = "bound"
  /\ config' = [config EXCEPT !.dhcp = "searching", !.address = "none"]
  /\ leaseLost' = TRUE
  /\ UNCHANGED <<ethVars, netPc, cable, linkUp, sinceStart>>

(* lwIP sends through an interface whose link is up only, except for the    *)
(* frame that releases a lease in LoseLink.                                 *)
Send ==
  /\ linkUp
  /\ \E count \in 1 .. TxCount : Write(count)
  /\ UNCHANGED <<netPc, netVars>>

FinishSending ==
  /\ Transmit \/ WriteTimesOut
  /\ UNCHANGED <<netPc, netVars>>

ReadFrame ==
  /\ netPc = "read"
  /\ Allocate \/ PassUp
  /\ UNCHANGED <<netPc, netVars>>

(* A frame that is dropped ends ethernetif_input like a frame that is not   *)
(* there, so a poll may come between it and the next frame.                 *)
DropFrame ==
  /\ netPc = "read"
  /\ Drop
  /\ netPc' \in {"read", "poll"}
  /\ UNCHANGED netVars

(* The DMA engine, and lwIP when it is done with a packet. *)
Environment ==
  /\ DmaTransmit \/ DmaReceive \/ FreeRxBuffer
  /\ UNCHANGED <<netPc, netVars>>

Next ==
  \/ ReadFrame
  \/ DropFrame
  \/ InputDone
  \/ Poll
  \/ CableChanges
  \/ TimePasses
  \/ LeaseObtained
  \/ LeaseGone
  \/ Send
  \/ FinishSending
  \/ Environment

Spec == Init /\ [][Next]_vars

(* The network task has the second highest priority and never waits for     *)
(* long, so frames are read and polls happen; a frame that is sent is       *)
(* waited for 20 ms at most; ten seconds pass.                              *)
Fairness ==
  /\ WF_vars(ReadFrame \/ DropFrame \/ InputDone)
  /\ WF_vars(FinishSending)
  /\ WF_vars(TimePasses)
  /\ SF_vars(Poll)

FairSpec == Spec /\ Fairness

-----------------------------------------------------------------------------
TypeOK ==
  /\ running \in BOOLEAN
  /\ txOwn \in [TxSlot -> BOOLEAN]
  /\ txIndex \in TxSlot
  /\ txDma \in TxSlot
  /\ txFrame \in [count : 0 .. TxCount, given : 0 .. TxCount]
  /\ rxOwn \in [RxSlot -> BOOLEAN]
  /\ rxBuffer \in [RxSlot -> RxBuffer]
  /\ rxIndex \in RxSlot
  /\ rxDma \in RxSlot
  /\ pool \in SUBSET RxBuffer
  /\ held \in SUBSET RxBuffer
  /\ replacement \in RxBuffer \cup {NoBuffer}
  /\ running = linkUp
  /\ sinceStart \in 0 .. TickRange - 1
  /\ config \in Configuration

(* Tasks that find the network ready find a link and an address: the flag   *)
(* outlives neither, except that an address whose lease was lost is noticed *)
(* at a later poll.                                                         *)
ReadyMeansUsable ==
  config.lwipNetworkReady => linkUp /\ (config.address # "none" \/ leaseLost)

(* An interface whose link stays up does not stay without an address, and   *)
(* tasks are told of the one it gets: by DHCP or else the static one, when  *)
(* DHCP does not start, finds nobody or loses its lease; as long as the     *)
(* frames that arrive leave the network task time to poll.  That frames get *)
(* through is not said: see RingsInStep.                                    *)
GetsAnAddress ==
  []<>(netPc = "poll") =>
    (linkUp ~> ~linkUp \/ (config.lwipNetworkReady /\ config.address # "none"))

-----------------------------------------------------------------------------
(* Not so: the documentation of the network configuration has an interface  *)
(* take the static address when its link is up and DHCP did not assign an   *)
(* address within ten seconds.  lwip_ProcessConfiguration compares with a   *)
(* tick older than the one the wait began at.                               *)
StaticOnlyAfterWait ==
  [][config.address # "static" /\ linkUp' /\ config'.address = "static"
       => config'.dhcp = "off" \/ (linkUp /\ sinceStart >= DhcpTimeout)]_vars

(* Not so: the documentation promises recovery after link loss, but the     *)
(* frame that releases the lease stays in the ring, ethernet_Start leaves   *)
(* ring and index as they are, and the engine goes past the driver.         *)
ReconnectRestoresRing ==
  [][~linkUp /\ linkUp' => txIndex' = txDma' /\ \A i \in TxSlot : ~txOwn'[i]]_vars
=============================================================================
