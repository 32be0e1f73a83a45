# TLA+ models of the STM32F4 health-check firmware

The firmware checks HTTPS resources from an STM32F407 board running FreeRTOS,
records the results in external flash, raises alarms on a buzzer, reports
failures to a callback URL, and is administered through an HTTPS API. This
directory holds TLA+ specifications of the parts whose correctness depends on
crashes, failing flash operations, interleavings and long request sequences,
the TLC runs that check them on small instances, and TLAPS proofs of the most
important properties for every value of the constants.

`PROJECT.json` lists the components, the runs, a mutant for every checked
property, the source lines behind every definition, the hazards the properties
are aimed at, and the theorems.

    tlc -workers 2 -config MCSnapshotStore.cfg MCSnapshotStore
    tlapm SnapshotStoreProofs.tla

## 1. Inventory

Tasks run under a preemptive, time-sliced scheduler: `startup` (priority 3) runs
first and then sleeps for ever; lwIP's `tcpip` (3) and `network` (2) above;
`api`, `health-check`, `callback`, `buzzer`, `temperature`, `time` and
`factory-reset` share priority 1 with the default task that feeds the watchdog.

| Component | State | Operations | Interacts with |
|---|---|---|---|
| External flash `w25q64.c` | 4 KiB sectors, a recursive mutex | read, erase a sector, program | every store |
| User store, health-check and callback configuration, TLS server credential | an A/B pair of sectors, the active snapshot in RAM | init, get, save | flash, API, services |
| TLS server credential, staging | a staged certificate, a staged key | stage either, pair, activate | API, A/B store |
| Trust store `tls_trust_store.c` | two banks of three sectors, one live snapshot edited in place | init and migration, add, replace, delete, reset | flash, API, TLS |
| Health-check log | two sectors as a ring of records, append position, next sequence | init (scan), append, get recent | flash, health-check task, API |
| Factory reset | marker sector, button gesture | hold, double click, arm, erase, recover at start-up | flash, buzzer, every store |
| Authentication | session table in RAM | login, refresh, authorize, revoke, put and delete users | user store, API |
| Management API | one TLS connection | one request at a time, under the TLS lock | all services |
| Buzzer | request flags, task notification, completion semaphore | alert, certificate warning, synchronous warning and cancellation tones | health-check task, factory reset |
| Health-check service | per-resource expiry and time of the last warning | check every enabled resource in turn | configuration, log, callback, buzzer, TLS |
| Callback service | queue of three events | enqueue (drops the oldest), deliver | health-check task, TLS |
| TLS transport and platform | one lock around Mbed TLS, a shared request buffer | connect, handshake, send, read the status | API, health check, callback |
| Time service, RTC | sync state and received time shared with lwIP's thread, calendar registers | resolve, send, receive, set | network, TLS validity checks |
| Network interface and lwIP glue | DMA rings, buffer pool, link and address state | link check, DHCP, static address, frames | lwIP |
| Temperature and 1-Wire | last measurement, search state | search, measure | API |

What is hard here, and what makes each part correct:

* **Crashes and failing flash operations.** Power may fail between and inside
  flash operations; an operation can report an error having done nothing, part
  or all of its work. A store must come back with acknowledged content; the log
  must keep its order; a wipe that began must end before a store is opened.
* **Content in two places.** Live RAM and flash differ after a refused save, and
  checks such as "anchor in use" read RAM.
* **Interleavings.** Flags, notifications and a semaphore tie the buzzer task to
  three kinds of clients; a full queue is made room in by three calls without a
  lock; callbacks of the lwIP thread preempt the time task; the DMA engine runs
  beside the driver.
* **One lock for three tasks**, held across network timeouts.
* **Stale answers and copies.** NTP answers carry no request; a callback target
  is copied before a wait; an expired lease is noticed at a later poll.
* **Counters and calendars.** Tick differences wrap after 49.7 days; the clock
  can be set back; log slots and sequence numbers have ends; dates are converted
  by three different algorithms.
* **Several stores, one configuration.** Resources and the callback name anchors
  that live in another store; nothing saves two stores atomically.
* **A human with a button.** The reset gesture is sampled, debounced and timed by
  a task that may run late.

Section "hazards" of `PROJECT.json` gives the line where each of these bites.

## 2. Modules

`DurableRegister` is the abstract specification of a store: one value that
survives power loss; a value being saved may become the stored one and may be
stored even though the save is refused; nothing else ever is.

`SnapshotStore` models the A/B protocol that four stores share: choice of the
newer valid sector, migration of the previous format, defaults (saved at once
by the health-check and callback configuration, kept in RAM by the user store
and the server credential: `Seeding`), and erase, program, read-back, switch.
`flash` holds an image per sector, `snapshot`, `candidate` and `activeAddress`
are the module's variables of the same names, `phase` is the position in
`..._Save`. One step is one flash operation.

`ServerCredentials` extends `SnapshotStore` by the staging buffers of the server
credential: `StageCertificate` and `StagePrivateKey` try to pair what was
uploaded with what is staged or in service, and activate, keep or discard it.
Certificates and keys are model values, `Pairs` says which belong together,
`Malformed` which do not parse. It implements the store (`ImplementsStore`).

`TrustAnchors` declares what the next two modules share: the slots of the trust
store and the markers for "no store" and "nothing offered".

`TrustStore` models the trust store: three sector erases per commit, the live
snapshot as candidate, the re-read after a failed commit, and a migration whose
source overlaps with bank B (`First`, `Last` are the sector numbers of
`flash_layout.h`, counted from the lowest).

`AnchorReferences` composes three instances of `DurableRegister` (trust store,
health-check configuration, callback configuration) with the API requests that
edit them, power losses and factory resets. `SnapshotStore` and `TrustStore`
show that the real stores implement these registers; the contents are reduced
to slot numbers and references.

`FactoryReset` models the marker protocol: arm, erase and verify each data
sector, erase the marker, recover at start-up, open the stores. The flash lock
and the suspended scheduler of `factoryReset_Execute` are why store operations
happen only in phase `running`.

`ResetButton` models the gesture before it: the debounced wait, the hold, the
warning, the three waits of `factoryReset_CancelRequested` with their timeouts,
and the rest of the window. Time is a count of ticks; the button may change in
any of them and the task comes to run up to `MaxLate` ticks late.

`HealthCheckLog` models the scan at start-up, the roll to the other sector,
append with read-back, and `GetRecent`. A slot is erased, smudged (its sequence
word still reads erased), torn, or a record.

`BuzzerService` models the buzzer task statement by statement between critical
sections, the background clients, and the synchronous caller with its timeout.

`AuthService` models users, sessions and token pairs. Tokens are numbered; key
derivation, digests and token bytes are left out. Ages are computed modulo
`TickModulus` as the code computes them modulo 2^32, while `now` counts on.

`CheckPipeline` composes the health-check task, the callback queue and task, the
TLS transport and the API's hold on the TLS lock. A request is a sequence of
stages, each of which may fail; `buffer` says whose text the shared request
buffer holds while a request is under way. The log is an append that succeeds or
fails, the buzzer a note of the warning that was given.

`Calendar` holds the conversions of `rtc.c` and of `tls_transport.c` as
recursive functions and formulas over days and seconds of the day.
`TimeService` extends it: its task access by access, with the callbacks of the
lwIP thread between any two of them.

`Ethernet` models the two descriptor rings with the DMA engine's own pointers,
and the pool of receive buffers. `Network` extends it by the network task, the
link, DHCP and the static address. A poll is one step: the link handler, with
the frame that releases a lease, and then `lwip_ProcessConfiguration` on what
the handler left. `config` holds the address, the state of DHCP and the flags of
`lwip.c`; `sinceStart` is the tick minus `lwipDhcpWaitStartTick`, modulo
`TickRange` as the code subtracts modulo 2^32. What the DMA engine, the cable and
lwIP's DHCP client do is external and left open.

Every `MC...` module only gives values to constants. Definitions named as
mutants stand before the definition they would replace; the specifications
never use them. `TypeOK` of each module (`TrustTypeOK`, `LogTypeOK`,
`ButtonTypeOK`, `TimeTypeOK` where a proof module extends two specifications)
documents its variables; it is proved for the store, the trust store, the
anchors, the log, the pipeline, the network and the authentication service and,
within their invariants, the reset and the buzzer, and can be added to any
configuration.

### The flash model

* An erase that returns OK leaves the sector erased, or with weak bits that no
  checksum accepts. One that fails leaves either of these or the old content.
* A program that returns OK produces the image in an erased sector, or bytes
  that no checksum accepts; a failing one may also leave the sector alone.
* A torn image never passes the CRC. An operation that returns OK never does
  nothing at all. (`tlsTrustStore_Save`, unlike the other stores, does not
  compare generations in its read-back, so there this assumption matters.)
* A power loss inside an operation is a failing operation followed by a crash.
* Any read may fail. The code takes a sector that start-up cannot read for an
  invalid one; from then on the stores promise nothing, and the history
  variable `misread` marks those behaviours. In `SnapshotStore`, without that
  condition, TLC finds start-ups that serve an older snapshot or the defaults
  beside a valid newer one, although `callback_config.h:55` says "Load the
  newest valid A/B snapshot".

## 3. Runs

| Run | Checks | Bounds and what they reach |
|---|---|---|
| `store` | acknowledged saves are durable, no rollback, refinement of `DurableRegister` | 3 contents, 2 old ones, 4 generations: each sector is overwritten twice, from a migrated, blank or half-written start; failing start-up reads included |
| `trust` | readers find acknowledged anchors after any failed commit; refinement of `DurableRegister` | 2 slots, 2 certificates, 4 generations; the search stops at a state where a read has failed (`Promised`), because nothing is promised there |
| `anchors` | no dangling reference in RAM or in flash | 3 slots, 2 resources, the callback; no bound on the number of requests, power losses or resets |
| `credentials` | halves in service and in flash belong together, no half of a refused replacement is left staged, staging refines `SnapshotStore` | 2 key pairs, a renewed certificate, a malformed upload of each kind, 3 generations |
| `reset` | resumability, no store over a partial wipe, a wipe ends | 3 data sectors (first, middle, last), 3 faults: a reset, a failing recovery and a crash during the second recovery |
| `button` | letting go ends a hold, a distinct double click cancels | ticks of 10 ms with the code's poll and debounce delays, a hold of 12, a window of 36, a double click of 20: room for a double click at the beginning, in the middle and across the end; the task one tick late anywhere, so the presses of a clear double click are less than `DoubleClick` minus that lateness apart |
| `log` | order, newest first and complete, sequence numbers, only the oldest are lost | 3 slots per sector, sequence up to 7: both sectors are filled and the first one is erased and reused; 1 failing operation, any number of power losses |
| `buzzer` | no lost wake-up, success means played, requests are played, the caller returns | 2 clients, 2 resources, 3 requests of each kind: a timeout, the next request, and one more |
| `auth` | sessions against users, table size, retired tokens, lifetimes | 3 names for 2 places, 2 passwords, 3 token pairs, a counter of 4 ticks that goes round; names and passwords are symmetric; time passes with at most one stored user and two token pairs (`MCTimeBound`), the larger tables are explored within one tick |
| `pipeline` | one conversation at a time, only the oldest is dropped, current target, warnings with a jumping clock, rounds end | 1 slot, 3 logged results for a queue of 2, 1 change of the callback, a server that alternates between two certificates, a clock that steps forwards and back |
| `time` | fresh answers, agreeing conversions, the service keeps asking | 2 lookups and 2 answers under way; all 36,525 days from 2000 to 2099, first and last second of each |
| `network` | buffers in one place, rings in step, readiness, frames are read, an interface gets an address | rings of 2 and 3 buffers: frames of a whole ring, both indices wrap, the pool runs empty and fills; a tick of two values, one in which the wait for a lease goes on and one in which it is over, and a wait that begins up to one tick after the poll read the time: the three outcomes of the comparison; link up and link down at start-up |

Deadlock checking is off for the buzzer only: with the bounded number of
requests used up, its task rightly waits for ever.

### Disagreements between code and documents

Seven configurations are kept as counterexamples. Each checks one property that
a document states and the code does not keep; TLC prints the behaviour.

    tlc -config MCFactoryResetBootFault.cfg MCFactoryReset
    tlc -config MCHealthCheckLogReuse.cfg MCHealthCheckLog
    tlc -config MCBuzzerServiceDelayed.cfg MCBuzzerService
    tlc -config MCAuthServiceWrap.cfg MCAuthService
    tlc -config MCTimeServiceStale.cfg MCTimeService
    tlc -config MCNetworkWait.cfg MCNetwork
    tlc -config MCNetworkReconnect.cfg MCNetwork

1. `CompletesBeforeOpening`: `FactoryResetService_Recover` takes an unreadable
   marker for none and the stores open over a partial wipe; README.md:589 says
   start-up completes the erasure first.
2. `SequenceIsMonotonic`: an append whose program fails before the sequence word
   changes skips its slot in RAM only; after a restart the log goes on below
   acknowledged numbers; `health_check_log.h:34` says "Monotonically
   increasing". (The comment at `health_check_log.c:220-223` is stale as well:
   a bad slot ends no scan.) After such a restart, readers may also miss the
   records behind that slot once the sector is no longer the active one.
3. `LateCompletionIgnored`: the task clears `synchronousRequestActive` before it
   gives the completion; after a timeout, the next caller can take it for its
   own. `test/factory_reset/README.md:39` asks to verify the opposite.
4. `TokensExpire`: a session that is left alone is accepted again 49.7 days
   after it was issued; README.md:297 gives lifetimes of minutes and days.
5. `TimeIsTrustworthy`: an answer that arrives while the network goes down is
   kept, however long that lasts, and set as the time when it is back;
   `rtc.h:50` says "trustworthy".
6. `StaticOnlyAfterWait`: README.md:94-96 has the static address taken when DHCP
   "does not assign an address within ten seconds". A link that comes up while
   the firmware runs gets it in the same poll: `Lwip_Process` reads the tick
   before the link handler, which takes at least three ticks and then starts the
   wait (`lwip.c:73`, `lwip.c:184`), and the unsigned difference at `lwip.c:155`
   wraps. DHCP goes on behind it. Only a link that is up when lwIP starts, and a
   lease that is lost early, are waited for. A lost link goes the same way
   (`lwip.c:137`) as soon as a tick passes in its handler.
7. `ReconnectRestoresRing`: README.md:29 promises "automatic recovery after link
   loss". The handler stops the engine and then calls `dhcp_stop`, which releases
   a lease by a frame (or the ARP query for it, the table having been cleared).
   It times out after 20 ms and its descriptor stays with the engine, which sends
   it when the link is back and goes on to the next one, while `txIndex` is where
   it was. From then on frames are entered where the engine does not look.

Met while modelling, and the reason for the condition in a property:

* `NoDanglingReference` needs `~strayed`. A resource whose save is refused at
  the read-back is in flash but not in RAM; its anchor can then be deleted, and
  the next start-up shows a resource without its anchor, which README.md:401
  says the in-use checks prevent.
* `RingsInStep` is about the transmit ring until a transmission times out, which
  a link lost with a lease leads to (see 7). The
  driver then stays at its descriptor while the engine goes on, so the next frame
  may be entered where the engine does not look; and lwIP frees a packet the
  engine may still read.
* `ReadyMeansUsable` excepts a lost lease: within ten seconds of the start of
  the wait, and until the next poll in any case, `Lwip_IsReady` says ready
  without an address, against `lwip.h:47`.
* `GetsAnAddress` assumes that polls happen: `ethernetif_input` reads for as long
  as frames arrive, and nothing bounds that. It says that an interface whose link
  stays up gets an address and is reported ready, not that frames get through,
  nor that DHCP was given its ten seconds: see 6 and 7.
* `FreshUnlessOffline`: see 5.
* `CancelledByDoubleClick` is about the first two presses of the window.
  `factoryReset_CancelRequested` returns after a click that is not followed in
  time, and later double clicks are not looked for, unlike README.md:574 reads.
  A second press so close to `DoubleClick` that a task running late sees it only
  afterwards may be given up; a lateness of two ticks shows this, so what counts
  as clear allows for `MaxLate`.
* `LettingGoEndsHold` allows for the sampling: a button let go in the last poll
  and debounce delay of the hold still arms the reset, whereas
  `test/factory_reset/README.md:11` expects any shorter hold to be ignored.
* `SilentOnlyAfterWarning` states when a check may keep silent. That warnings
  come "at most once per hour" (README.md:140) does not hold when the clock is
  set back or the server alternates between two certificates: both restart the
  hour.

Without a property: an expired certificate fails the handshake, so nothing warns
of it; a certificate date after 2106 is read as unknown and never warned of; a
peer that closes instead of answering is a success without a status, which the
health check counts as unhealthy all the same; NTP seconds wrap in 2036 and are
then refused; `callback_service.c:64` says that delivery never blocks the
health check, which waits for the same TLS lock; README.md:105 says that link
loss keeps the configuration, of which `dhcp_stop` gives up a lease; a
certificate alone is never paired with the compiled default key, although
`tls_server_credentials.h:44` speaks of the key "currently active".

### Fairness

`FactoryReset`: weak fairness of start-up and erasure. The startup task has the
highest priority of its time, the wipe runs with the scheduler suspended, and
faults are bounded. After `Error_Handler` nothing is assumed. `BuzzerService`:
weak fairness of the task, of a client between its critical section and its
notification, and of the synchronous caller; these tasks share one priority
with time slicing, and the tasks above it block. The timeout is not fair, so
`CallerReturns` shows that the caller does not depend on it. `PromptCaller`
says that the caller reaches its wait while its tones sound: a few instructions
against hundreds of milliseconds.

`CheckPipeline`: weak fairness of both tasks and of every stage of a request,
because each socket operation has a timeout; the API closes what it accepted;
strong fairness of taking the lock, because FreeRTOS wakes the task that has
waited longest among those of one priority. The finite wait for the lock is not
fair. `TimeService`: weak fairness of the task only; lookups and answers may
never come. `Network`: weak fairness of reading frames and of ending a
transmission, which is bounded by 20 ms, and of the tick; strong fairness of the
poll, which waits for the lwIP core lock behind transmissions. The tick goes
round, after 49.7 days, only when a poll has nothing left to do: a network task
that polls at all has done so in that time.

## 4. Proofs

* `SnapshotStoreProofs`: durability, freedom from rollback, newest snapshot at
  start-up, and the refinement of `DurableRegister`, for any contents and
  generations. The invariant `IInv` relates the two sectors: while clients are
  served, the active sector backs the snapshot, and the other one either loses
  against it at start-up (`Behind`) or holds exactly the save that was refused
  (`Ahead`); while start-up itself saves, the pair recovers to the candidate
  whatever is left of the save (`StartupPair`). None of the checked properties
  is inductive without knowing what the inactive sector may hold. `Promise`
  adds that all this holds until a start-up read fails.
* `ServerCredentialsProofs`: staging refines the store, so the durability proved
  there carries over (`CredentialDurability`); pairs in service and in flash
  match, and nothing of a refused replacement stays staged, for any certificates
  and keys. The invariants add that the candidate of a save matches and what the
  staging buffers hold while it is under way.
* `TrustAnchorProofs`, the trust store: `ServedIsAcknowledged` and the refinement
  of `DurableRegister`, for any number of slots and certificates. `TrustInv` is
  the argument of the A/B store over banks of three sectors: the active bank
  backs what is served, the other one loses against it or holds the commit that
  failed, half of a bank is never valid. Start-up needs a part of its own
  (`StartupInv`): its commit goes to bank A, so the old banks it migrates from
  stay readable although they overlap with bank B, and another start-up would
  make the same of them. All of it holds until a start-up read fails (`misread`).
* `TrustAnchorProofs`, the references: type correctness and no dangling reference
  in RAM and in flash, for any number of slots and resources. `Sound` says that
  at most one store is saving, that flash holds what is shown or what is being
  saved, and that the configuration would be whole either way.
* `FactoryResetProofs`: a reset is resumable and stores see a whole state, for
  any number of sectors and faults. The invariant adds that the erasure runs
  under a valid marker and in order (`ErasureInv`), and that nothing is touched
  while stores are open (`OpenInv`). Of the button, for all delays: letting go
  ends a hold (`HoldInv` bounds the time the button has been up by the time since
  it was last seen down), and a clear double click cancels, and little else does.
  `GestureInv` ties the levels of the button to the place of the task in its
  four nested waits: how long a level can have lasted unseen (`Timed`), which
  levels the task must have seen (`Followed`) and which it can have seen at most
  (`Reached`).
* `HealthCheckProofs`, the log, for sectors of any size: it never falls behind
  what was acknowledged, sequence numbers advance, and only the oldest records
  are lost. `LogInv` has a part for each condition under which these hold. While
  no flash operation has failed (`LayoutInv`), one sector is the home of the
  newest records: a used prefix that begins with a record, in order, newer than
  all of the other sector (`Home`); or it has just been erased while the other
  one is full (`Rolled`). The scan of such a sector finds its end and its newest
  number (`ScanOfHome`), which is all start-up goes by. `SessionInv` says that
  the counter is above what is acknowledged until a start-up scans a flash that
  a fault has touched.
* `HealthCheckProofs`, what readers of the log get: the newest records, newest
  first, for sectors and capacities of any size. The order needs an invariant
  that survives faults, because it is promised when appends have failed or a
  slot cannot be read: `OrderInv` says that the records of each sector are in
  order and that those before the append position are newer than the other
  sector's, from a start-up over sound flash to the next. Completeness needs
  `WholeInv`: `GetRecent` stops scanning the other sector at its first blank
  slot, so no record may lie beyond one. The downward loop is a sequence defined
  by ranks (`Descending`), not by recursion; a number's rank is the size of a set,
  and `FS_Injection` makes the ranks of n numbers exactly 0 to n - 1 (`Ranks`).
* `HealthCheckProofs`, the pipeline: one conversation at a time, the fate of
  every failure, deliveries by the current target, and justified silence, for
  any slots, certificates, queue length and clock. `QueueInv` follows the three
  unlocked calls that make room in the queue; `DeliveryInv` says that the copied
  configuration is not older than the event; `WarningInv` ties the two arrays of
  the service to the last warning of a slot.
* `NetworkProofs`: buffers have one place, the rings are in step, ready means
  usable, for rings of any size, any pool, and any range of the tick, timeout and
  delay inside a poll. `RxInStep` and `TxInStep` say how
  far the engine's own pointer is ahead of the program's, modulo the ring, and
  which descriptors it owns for that. `Processed` says what a poll makes of a
  configuration, whatever tick it compares with. Of the time service: `FreshUnlessOffline`,
  for any intervals; `FreshInv` adds that an answer that would be taken has come
  since the task last slept, or is a second old when it looks. Of the clock: every
  second of a day survives the registers (`TimeOfDayReadsBack`), so the days alone
  decide whether the conversions agree (`DaysSuffice`). The run tries every day
  and two seconds of each; the theorem gives the other 86,398.
* `AuthServiceProofs`: sessions match users, the session table suffices, retired
  tokens stay retired, and lifetimes hold across a wrap of the tick counter, for
  any users, table size, lifetimes and counter range. The invariant adds that a
  user has at most one session (`OnePerUser`, why the table suffices), that a
  session's token was issued to its user when the session says, modulo the range
  (`SessionsBacked`), and that a token that is not retired has a session.
* `BuzzerServiceProofs`: no lost wake-up (inductive as it stands), and success
  only after the caller's own sequence until a call times out (`RequestInv`
  follows one request from the flag to the semaphore), for any clients.

Four proof modules extend two specifications at once. These share no variable,
and only the two about anchors share constants (`TrustAnchors`); each theorem
names the specification it is about. All inductive
invariants were checked by TLC on the runs' instances before they were proved.

The assumptions are the named `ASSUME`s of the modules: markers are no
contents, defaults are contents, bounds are natural numbers. Two are about
clocks. `PipelineAssumption` keeps readings at least a period below
the range of the 32-bit time. Differences of readings are taken modulo that
range, so a large set-back could otherwise look like a short time; the clock
ends with the year 2099 and the range with 2106. `NetworkAssumption` keeps
what can pass inside a poll, with the timeout, below the range of the tick:
seconds against 49.7 days.

Only model-checked:

* all liveness properties, because fairness is out of the prover's reach;
* which day the recursive functions of `Calendar` compute, and so `ClocksAgree`:
  that needs induction over data; TLC evaluates it for every day there is;
* the seven disagreements of section 3, where there is nothing to prove.

## 5. Not modelled, and the plan

Abstracted everywhere: CRC arithmetic, SPI transfers, HTTP and JSON text,
certificate parsing, log output. Vendored code (FreeRTOS, lwIP, Mbed TLS)
appears only as the effect its callers see; the kernel is most of the lines of
the repository, the firmware's own code some 9,500 of 62,000.

Left out: the 1-Wire search and the temperature sensors (bit timing of one task),
the RS485 console, the RTC's register protocol and its shadow registers, the
reading of API requests, `sys_arch.c`, the watchdog.

Next, in this order:

1. Lock order of the TLS lock, the store mutexes and the flash mutex.
2. Authorization of API requests by role, on top of `AuthService`.
3. The 1-Wire search against a reference definition.
