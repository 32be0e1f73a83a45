--------------------------- MODULE AnchorReferences ---------------------------
(***************************************************************************)
(* The references between three stores: health-check resources and the      *)
(* callback name trust anchors by their slot number.  Each store is the     *)
(* durable register that SnapshotStore and TrustStore implement; nothing    *)
(* makes a change of two of them atomic, and the checks that keep the       *)
(* references whole are made by the API task, on what the stores show, one  *)
(* request at a time.                                                       *)
(*                                                                          *)
(* A store's content is reduced to what the references are about: the set   *)
(* of occupied slots, the slot each resource names, and the callback's slot *)
(* and switch.                                                              *)
(***************************************************************************)
EXTENDS TrustAnchors

CONSTANTS
  MaxResources,   \* HEALTH_CHECK_CONFIG_MAX_RESOURCES
  Free            \* a resource entry that is not occupied

Index == 0 .. MaxResources - 1

TrustContent == {anchors : anchors \in SUBSET Id}
ConfigContent == [Index -> Id \cup {Free}]
CallbackContent == [enabled : BOOLEAN, anchor : Id]

ASSUME ReferenceAssumption ==
  /\ MaxPersisted \in Nat
  /\ MaxResources \in Nat \ {0}
  /\ Free \notin Id
  /\ Down \notin TrustContent \cup ConfigContent \cup CallbackContent
  /\ NoOffer \notin TrustContent \cup ConfigContent \cup CallbackContent

VARIABLES
  trustStored, trustView, trustOffered,           \* the trust store
  configStored, configView, configOffered,        \* the health-check configuration
  callbackStored, callbackView, callbackOffered,  \* the callback configuration
  strayed   \* history: a save that was refused left its content in flash

trustVars == <<trustStored, trustView, trustOffered>>
configVars == <<configStored, configView, configOffered>>
callbackVars == <<callbackStored, callbackView, callbackOffered>>
vars == <<trustVars, configVars, callbackVars, strayed>>

Trust ==
  INSTANCE DurableRegister WITH
    Content <- TrustContent,
    stored <- trustStored, view <- trustView, offered <- trustOffered

Config ==
  INSTANCE DurableRegister WITH
    Content <- ConfigContent,
    stored <- configStored, view <- configView, offered <- configOffered

Callback ==
  INSTANCE DurableRegister WITH
    Content <- CallbackContent,
    stored <- callbackStored, view <- callbackView, offered <- callbackOffered

(* The compiled defaults: one anchor, and references to it alone.           *)
(* HealthCheckConfig seeds one resource; an upgrade from the previous       *)
(* format keeps its resources, all of them moved to anchor 0.               *)
DefaultConfig == [r \in Index |-> IF r = 0 THEN 0 ELSE Free]
DefaultCallback == [enabled |-> FALSE, anchor |-> 0]

Init ==
  /\ trustStored \in {anchors \in TrustContent : 0 \in anchors}
  /\ configStored \in [Index -> {0, Free}]
  /\ callbackStored = DefaultCallback
  /\ trustView = Down /\ configView = Down /\ callbackView = Down
  /\ trustOffered = NoOffer /\ configOffered = NoOffer /\ callbackOffered = NoOffer
  /\ strayed = FALSE

Running == trustView # Down /\ configView # Down /\ callbackView # Down

(* The API task is between two requests. *)
Idle ==
  /\ Running
  /\ trustOffered = NoOffer /\ configOffered = NoOffer /\ callbackOffered = NoOffer

OfferTrust(anchors) == Trust!Offer(anchors) /\ UNCHANGED <<configVars, callbackVars>>
OfferConfig(resources) == Config!Offer(resources) /\ UNCHANGED <<trustVars, callbackVars>>
OfferCallback(callback) == Callback!Offer(callback) /\ UNCHANGED <<trustVars, configVars>>

-----------------------------------------------------------------------------
(* HealthCheckConfig_IsTrustAnchorInUse || CallbackConfig_IsTrustAnchorInUse: *)
(* a resource counts whether it is enabled or not.                            *)
InUse(i) ==
  \/ \E r \in Index : configView[r] = i
  \/ callbackView.enabled /\ callbackView.anchor = i

(* POST /api/v1/trust-anchors: the first free slot. *)
AddAnchor ==
  /\ Idle
  /\ \E i \in Id \ trustView :
       /\ \A j \in Id : j < i => j \in trustView
       /\ OfferTrust(trustView \cup {i})

(* PUT /api/v1/trust-anchors/{id}: the slot stays occupied. *)
ReplaceAnchor(i) ==
  /\ Idle
  /\ i \in trustView
  /\ OfferTrust(trustView)

(* DELETE /api/v1/trust-anchors/{id} *)
DeleteAnchor(i) ==
  /\ Idle
  /\ i \in trustView
  /\ ~InUse(i)
  /\ OfferTrust(trustView \ {i})

(* DELETE /api/v1/trust-anchors *)
ResetAnchors ==
  /\ Idle
  /\ \A i \in Id : ~InUse(i)
  /\ OfferTrust({})

(* Mutant: an anchor that the request leaves as it is, is not looked up. *)
PutCallbackUnchecked(enabled, i) ==
  /\ Idle
  /\ i \in trustView \/ i = callbackView.anchor
  /\ OfferCallback([enabled |-> enabled, anchor |-> i])

(* PUT /api/v1/callback/config: the anchor must exist, whether or not the   *)
(* request names it or enables the callback.                                *)
PutCallback(enabled, i) ==
  /\ Idle
  /\ i \in trustView
  /\ OfferCallback([enabled |-> enabled, anchor |-> i])

(* PUT /api/v1/health-check/config: the period, no reference. *)
SetPeriod ==
  /\ Idle
  /\ OfferConfig(configView)

(* POST /api/v1/health-check/resources: the first free entry. *)
AddResource(i) ==
  /\ Idle
  /\ i \in trustView
  /\ \E r \in Index :
       /\ configView[r] = Free
       /\ \A q \in Index : q < r => configView[q] # Free
       /\ OfferConfig([configView EXCEPT ![r] = i])

(* PUT /api/v1/health-check/resources/{index} *)
UpdateResource(r, i) ==
  /\ Idle
  /\ configView[r] # Free
  /\ i \in trustView
  /\ OfferConfig([configView EXCEPT ![r] = i])

(* DELETE /api/v1/health-check/resources/{index} *)
DeleteResource(r) ==
  /\ Idle
  /\ configView[r] # Free
  /\ OfferConfig([configView EXCEPT ![r] = Free])

-----------------------------------------------------------------------------
(* The store that holds an offer goes on with its save. *)
SaveTrust ==
  /\ Trust!Settle \/ Trust!Accept \/ Trust!Reject
  /\ UNCHANGED <<configVars, callbackVars>>

SaveConfig ==
  /\ Config!Settle \/ Config!Accept \/ Config!Reject
  /\ UNCHANGED <<trustVars, callbackVars>>

SaveCallback ==
  /\ Callback!Settle \/ Callback!Accept \/ Callback!Reject
  /\ UNCHANGED <<trustVars, configVars>>

PowerLoss == Running /\ Trust!PowerLoss /\ Config!PowerLoss /\ Callback!PowerLoss

(* startupTask: the three stores are opened one after the other, before the *)
(* API task exists.                                                         *)
PowerUp == Trust!Recover /\ Config!Recover /\ Callback!Recover

(* Mutant: the reset leaves the callback's sectors alone. *)
FactoryResetKeepsCallback ==
  /\ Running
  /\ trustStored' = {0} /\ configStored' = DefaultConfig /\ UNCHANGED callbackStored
  /\ trustView' = Down /\ configView' = Down /\ callbackView' = Down
  /\ trustOffered' = NoOffer /\ configOffered' = NoOffer /\ callbackOffered' = NoOffer

(* A factory reset.  It locks out every save, and no store is opened over a *)
(* part of it (FactoryReset, OpensWholeState), so it is one step here.      *)
FactoryReset ==
  /\ Running
  /\ trustStored' = {0} /\ configStored' = DefaultConfig /\ callbackStored' = DefaultCallback
  /\ trustView' = Down /\ configView' = Down /\ callbackView' = Down
  /\ trustOffered' = NoOffer /\ configOffered' = NoOffer /\ callbackOffered' = NoOffer

Request ==
  \/ AddAnchor
  \/ ResetAnchors
  \/ SetPeriod
  \/ \E i \in Id : ReplaceAnchor(i) \/ DeleteAnchor(i) \/ AddResource(i)
  \/ \E i \in Id, enabled \in BOOLEAN : PutCallback(enabled, i)
  \/ \E r \in Index : DeleteResource(r) \/ \E i \in Id : UpdateResource(r, i)

Save == SaveTrust \/ SaveConfig \/ SaveCallback

(* Between two requests, some store holds in flash what it does not show.   *)
Stray ==
  Idle /\ (trustStored # trustView \/ configStored # configView
           \/ callbackStored # callbackView)

Next ==
  /\ Request \/ Save \/ PowerLoss \/ PowerUp \/ FactoryReset
  /\ strayed' = (strayed \/ Stray')

Spec == Init /\ [][Next]_vars

-----------------------------------------------------------------------------
ReferenceTypes ==
  /\ trustStored \in TrustContent
  /\ trustView \in TrustContent \cup {Down}
  /\ trustOffered \in TrustContent \cup {NoOffer}
  /\ configStored \in ConfigContent
  /\ configView \in ConfigContent \cup {Down}
  /\ configOffered \in ConfigContent \cup {NoOffer}
  /\ callbackStored \in CallbackContent
  /\ callbackView \in CallbackContent \cup {Down}
  /\ callbackOffered \in CallbackContent \cup {NoOffer}

(* Every store holds, shows and saves contents of its own kind. *)
TypeOK == ReferenceTypes /\ strayed \in BOOLEAN

(* Every anchor that a configuration needs is there. *)
Whole(anchors, resources, callback) ==
  /\ \A r \in Index : resources[r] # Free => resources[r] \in anchors
  /\ callback.enabled => callback.anchor \in anchors

(* While the device runs, no resource and no enabled callback names an      *)
(* empty slot, restarts and factory resets between any two requests         *)
(* included.  The checks read RAM, so this is promised until a save is      *)
(* refused although its content is in flash: a later start-up would bring   *)
(* back a reference nobody saw when the anchor was deleted.                 *)
NoDanglingReference ==
  Running /\ ~strayed => Whole(trustView, configView, callbackView)

(* Wherever power fails, in the middle of a save too, the three stores      *)
(* together hold a configuration without a dangling reference.              *)
FlashIsWhole == ~strayed => Whole(trustStored, configStored, callbackStored)
=============================================================================
