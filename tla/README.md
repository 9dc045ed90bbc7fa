# NDNOMNeT: a verification project

NDNOMNeT adds Named Data Networking to the INET framework of the OMNeT++
simulator.  Its own code lies in `src/inet/src/inet/` under `networklayer/ndn`,
`networklayer/contract/ndn`, `applications/ndnApps` and `node/ndn`; paths below
are relative to that directory.  Everything else in the repository is INET.

This directory holds TLA+ models of that code, TLC configurations that check
them on small instances, and TLAPS proofs for all instances.

## The system

Hosts exchange two kinds of packets over a shared radio.  An *Interest* asks
for content by name; *Data* answers it.  Every host has one forwarder with
three tables, a MAC below it and applications above it.  All modules of a host
run in one thread of the OMNeT++ kernel: a handler runs to its end and calls
other modules directly, and everything that takes time is an event scheduled
for later.  Concurrency is the order of these events; packets are lost and
delayed on the air.

| Component | State | Operations | Talks to |
|---|---|---|---|
| Pending Interest Table, `PitBase` | vector of entries (Interest, face, previous hop, expiry), self message `checkTimeout` | `create`, `lookup`, `remove`, check every second | called by the forwarder; signals time-outs to it |
| Forwarding Information Base, `FibBase` | vector of routes (prefix, face, next hop, expiry, erased flag), self message `checkExpired` | `registerPrefix`, `create`, `lookup`, check every second | called by the forwarder |
| Content Store, `CsBase` | vector of Data with freshness flag and date, self message `checkDataStale` | `add`, `lookup`, check every second | called by the forwarder |
| Forwarder, `ForwardingBase` | at most one packet put aside (`sendDelayedPacket`, `waiting`), parameters | Interests and Data from network and applications, prefix registration, delayed sending, time-outs | the tables (calls), applications and MAC (messages) |
| Consumer, `ConsumerAppBase` | sequence number, three ring buffers of 100 slots, timer | send Interests, retransmit on time-out, match Data | the forwarder |
| Producer, `ProducerAppBase` | none but counters | register a prefix, answer Interests after 1.5 ms | the forwarder |
| MAC, `linklayer/csmaca` (INET) | state machine of 8 states, transmission queue, backoff and retry counter, four timers | send with acknowledgement and retries, receive, acknowledge | the forwarder (messages), the radio (calls and signals both ways) |
| Radio and medium, `physicallayer/common/packetlevel` (INET) | mode, frame being sent, signals heard, the one that is followed | transmit, start and end of a reception, mode switch | the MAC, the radios in reach |
| Host and network, `node/ndn` | none of its own | wiring of forwarder, applications and MAC | all of the above |
| Packet format, `packets/` | none | TLV encoding and size | applications |
| XU, `Xu` | none | an empty stub | nobody |
| Node lifecycle (INET) | up, down | start, shut down, crash | NDN modules answer `true` and do nothing |

What is hard in it, and what makes each part correct:

* *The packet put aside.*  A flooded Interest and Data for another hop are held
  back for up to 14 ms.  Meanwhile the host drops what arrives, and a packet of
  the same name cancels the one that waits.  The Interest enters the PIT when
  it leaves, long after the lookups that let it pass; the Data leaves long
  after its PIT entry was removed.  The PIT must still hold a name once, never
  for content that is cached as fresh, and Data must only go where an Interest
  came from.
* *The PIT* must let no entry outlive its lifetime by more than one check, and
  each entry that goes must be answered by Data or, for an application, by its
  time-out.  The check is armed only when it is idle and entries are there.
* *The FIB* takes the first match.  It must be the longest.  Expired routes stay
  in the vector, so the bindings of prefix to face, and the slots, are for good.
* *The Content Store* trusts a flag that only the periodic check lowers.  Fresh
  must mean fresh within one period, and a refresh must renew flag and date.
* *Consumer.*  Retransmissions are counted in a ring of slots; Data from a cache
  carries somebody else's sequence number.
* *MAC and radio.*  The MAC is told of a change of the medium once, from within a
  call of the radio, and ignores it in half of its states.  It must agree with
  the radio all the same, take its timers along when a state is left early,
  count retries for the frame they belong to, and not take an acknowledgement
  for that of another frame: acknowledgements name neither frame nor sender.
* *Network.*  Routers that hear each other suppress each other's copies.  Pending
  Interests must not form a ring, a consumer must hear of each Interest at most
  once although frames are repeated and two routers answer, and, without losses,
  must hear of it.

`PROJECT.json` lists each hazard with its line and the properties about it.

## The modules

    SimTime    NdnTypes    Vectors
       \________|________/
       Pit     Fib      Cs            one per table
         \______|______/
           Forwarding    Producer     ForwardingBase with its tables; ProducerAppBase
                \________/
                NdnNetwork            hosts, applications and the link between them

    SimTime -> Consumer               ConsumerAppBase
    CsmaCaMac -> Radio -> WirelessNic the MACs and radios of all hosts
    Link                              what they promise; implemented by WirelessNic

    MCPit, MCFib, MCCs, MCForwarding, MCConsumer, MCWirelessNic, MCNdnNetwork
                                      instances for TLC

    VectorLemmas -> TableProofs -> ForwardingProofs -> NetworkProofs
    VectorLemmas -> NicProofs -> LinkProofs -> AckProofs
    ConsumerProofs

* `SimTime`: the kernel's clock, counted in ticks.  A self message is the time of
  its delivery or `NotScheduled`; `Tick` never passes a scheduled one.  The
  period of the checks (1000 ms) is `CheckPeriod` ticks.  Events closer together
  than a tick happen in any order.
* `NdnTypes`: names, faces, MAC addresses and packets.  A name is a sequence of
  tokens, because the code compares prefixes as character strings and knows no
  components.  Packets keep the fields that some branch of the code looks at.
* `Vectors`: erasing from a `std::vector`.
* `Pit`, `Fib`, `Cs`: the tables, indexed by host.  Each operation of the C++
  class is one operator with its early returns as alternatives
  (`PitCreate`/`PitReject`, `FibUpdate`/`FibInsert`/`FibInsertRefused`,
  `CsDisabled`/`CsRefresh`/`CsInsert`); `handleMessage` with the clean-up it
  calls is one action (`PitCheckTimeout`, `FibCheckExpired`, `CsCheckStale`).
  Each module also states the table on its own under arbitrary calls
  (`PitSpec`, `FibSpec`, `CsSpec`): the contract that its users get.
* `Forwarding`: the variables of the tables, `delayed` (the packet put aside,
  with `waiting`) and `sent` (what the latest event handed to `send()`).
  `ProcessLLInterest`, `ProcessLLData`, `ProcessHLInterest` and `ProcessHLData`
  are the four handlers, with one alternative for each branch;
  `SendDelayedInterest`, `SendDelayedData`, `DropWhileWaiting` and
  `RegisterPrefix` are the other branches of `handleMessage`; the timers of the
  tables are actions of the host, and `PitTimerEvent` includes `receiveSignal`.
  Neighbours and applications may offer any packet at any time.
* `Consumer`: one consumer per host, on its own.  `Express` is the self message
  with `createNextInterest`, `expressInterest` and `scheduleNextInterest`;
  `Retransmit` and `GiveUp` are the branches of `onTimeout`, `OnData` is `onData`.
  `history` is the three arrays of `HISTORY_SIZE` slots, `intSeqNo` also stands for
  `numIntSent`, which always equals it.  `numRetxHistory` is not initialised by
  the code, so it starts with anything (`Uninitialized`).  The forwarder is the
  environment: it loses an Interest when it gets it (`HandOver`), answers one that
  it holds, or returns it after its lifetime and at most one check period later,
  which is what `PitNoOverdueEntry` promises.  `unlimited` is a history variable:
  the record without a limit, to which the arrays are compared.

* `Producer`: the producers of a network.  `registrations`, `handed` and `answers`
  are the messages under way between a producer and its forwarder; the code
  itself keeps only counters.  `ProcessInterest` is `handleMessage` with
  `onInterest`, including the test of `startTime` and `stopTime`.
* `CsmaCaMac`: a MAC is a record.  Each operator takes the record and the
  reception state of the radio and gives the *set* of records that
  `handleWithFsm` may leave, a set because the number of backoff slots is
  random.  There is one operator for each event (`UpperFrame`, `DifsOver`,
  `BackoffOver`, `DataOver`, `AckOverdue`, `LowerFrame`, `SifsOver`,
  `MediumChange`), and `AfterEvent` is the code after the `FSMA_Switch`, which
  runs after every event.  A timer holds the ticks that are left, -1 if it is
  not scheduled.
* `Radio`: the mode, the frame on its way down, the transmission timer, the
  signals heard and the frames on their way up.  `ReceptionState` is
  `updateTransceiverState`.  Two signals that overlap spoil each other; a radio
  follows at most one.
* `WirelessNic`: the MACs and radios of all hosts.  An action is one event of the
  kernel with all calls it makes in both directions: `EndTransmission`, for
  instance, ends the transmission, lets the MAC handle `endData` while the radio
  is still a transmitter, switches it to receiver and lets the MAC handle the
  change of the reception state that follows.  Events of one tick happen in any
  order, so signals that touch in one instant may or may not collide.
  `fate`, `transmissions` and `delivered` are history variables.
* `Link`: a queue per host.  Frames are handed over in order; one that is
  acknowledged has arrived, one that is given up may have; no host gets a frame
  that was not for it.
* `NdnNetwork`: `sent` of a forwarder goes to the queues of `Link`'s kind or up to
  the applications (`Dispatch`), `Transmit` takes a frame to the hosts in reach, or
  to some of them (`Lossy`), or to some of them again (`MaxRepeats`: the
  acknowledgement was lost).  A consumer is what it asks and what it is told;
  its retransmissions are asks like any other.  `Receive`, `Ask`, `Register` and
  `SendData` are the four ways a packet reaches `handleMessage`; each contains the
  alternative that the packet is dropped because another waits.

Operators commented "Seeded fault" are wrong versions of an operation.  Nothing
uses them; each is put in the place of the right one to see that a property
notices (`PROJECT.json`, "mutants").

What the models leave out: statistics, display and log output; the hop count;
the nonce (no code compares it); the erased flag of a PIT entry (set and
consumed within one event); `dataStaleSignal` (its `emit` is commented out).  The
forwarder subscribes to that signal at the FIB by mistake
(`ForwardingBase.cc:59`); nothing depends on it.

## The runs

| Run | Instance | Shows |
|---|---|---|
| `pit` | 2 names, 2 lifetimes, room for 2 | no entry outlives its lifetime by more than a period; the table drains and its timer rests |
| `fib` | 4 nested names, room for 3 | first match is longest; learned routes expire in time and for good; bindings stay |
| `cs` | 3 names, freshness 0, 1 and 3, room for 2 | freshness bounded and not lost early; names unique; first in, first out |
| `forwarder` | a router that floods, caches unsolicited Data and serves an application | PIT names unique; nothing fresh pending; no Interest lost silently |
| `forwarder_live` | the same router with two neighbours, under fairness | Data goes only to the face and MAC address of an Interest, once for each; the router implements `PitSpec`, `FibSpec` and `CsSpec`; an application whose Interest got a PIT entry gets Data or its time-out |
| `consumer` | 4 Interests, 2 slots, 1 retransmission, sent every 3 ticks | the slots serve as an unlimited history would; an Interest is given up by its own count; statistics are real; the consumer comes to rest |
| `consumer_hurried` | the same, 3 Interests sent every tick with a longer lifetime | **violated**: an Interest is given up for the retransmissions of another (see below) |
| `nic` | 2 hosts, unicast in both directions and a broadcast, 1 retry, any signal may be too weak, queue of 1 | timers, counters, state machine and radio agree; every queued frame is settled unless signals fade for ever |
| `nic_triangle` | 3 hosts in each other's reach, two of which send to the third, and a multicast frame | acknowledgements are not hit; the frame in turn is the frame sent; a frame is given up only after its own retries; MACs and radios implement `Link` |
| `nic_retries` | the two hosts of `nic` | **violated**: a frame is sent more often than 1 + `retryLimit` times (see below) |
| `network` | consumer, two routers that hear each other, producer; losses and a repeated frame; 2 Interests at any time | no ring of pending Interests; a consumer hears of an Interest at most once |
| `network_lossless` | the same hosts, no losses, 2 Interests, each when the network is at rest | each host behaves as the forwarder among arbitrary neighbours; every Interest brings Data |

Bounds.  All are CONSTANTS of the configurations.  In the modules with `SimTime`,
packets are offered up to `Horizon` and time ends at `MaxTime`, the
sim-time-limit, where the only step left is stuttering (`PitEnd`, `FibEnd`,
`CsEnd`, `FwdEnd`), so deadlock is checked everywhere.

* *Tables and forwarder.*  `CheckPeriod` is 2, and lifetimes of 1 and 3 fall on both
  sides of it, so that entries expire both at and between checks.  In `pit`, `cs`
  and `forwarder_live`, `MaxTime` is long enough for every entry to expire after
  the last packet, so that liveness is not cut off by the end of time.
  Tables hold fewer entries than there are names, so that the limits are reached
  and evictions happen; the PIT of the forwarder has room for two entries,
  enough for two of one name, and a full PIT is met in `pit`.  Delays of 0 and 1
  let the packet put aside leave before or after a check and after other
  traffic.  `forwarder_live` has two neighbours, so that Data can go to the wrong
  one.  One host is enough: the tables and the forwarder of a host touch no
  variable of another, and the neighbours are arbitrary.  Names nest (`a`, `a b`),
  so routes match names other than their own.
* *Consumer.*  The sequence numbers go twice round the slots, and an Interest may
  be under way for 5 of the 6 ticks until its slot is taken: the parameters lie
  just inside `HistorySuffices`.  Data may carry numbers that are answered already,
  not used yet, or out of reach.  `MaxTime` is past the end of the last Interest.
* *MAC and radio.*  The times keep the order that the parameters of the examples
  have: SIFS is shorter than DIFS, an acknowledgement with its SIFS is shorter than
  the time-out for it.  Contention windows of 2 and 3 slots give equal draws, which
  collide, and unequal ones, which pause a backoff.  One retry suffices to
  count, to reset and to give up; a queue of one frame is full as soon as
  something waits.  Besides collisions, any signal may be too weak to be
  received, at each of its receivers and as often as it is sent: nothing bounds
  that.  Time in these models is relative, so there is no end of time: the
  runs go on until all frames are settled, or for ever if signals fade for ever.
* *Network.*  The diamond is the smallest topology in which two routers flood one
  Interest, hear each other and both have the producer in reach.  In `network`
  (about 530,000 states, the two routers are symmetric) losses may hit any
  subset of receivers of any frame, and the PIT is checked once between the
  asks.  The lifetime of 3 ticks is just longer than the way through two routers,
  which the theorem about rings assumes (`MCTrails` has TLC evaluate what it
  assumes of the constants; with one content nothing is evicted).
  In `network_lossless` (about 130,000 states) frames take a tick, flooded
  Interests wait 1 or 2 ticks and Data 0 or 1, so that the routers cancel each
  other in every way; the second Interest finds a route that was learned from the
  first answer, to one router only, and that router's cache.  Nothing expires
  within this run.

Fairness.  The kernel delivers every scheduled event at its time and its clock
goes on as long as events are left.  For a table or a forwarder this is `WF` of
the delivery of each self message.  For the clock the tables alone need `WF`; the
forwarder needs `SF`, since applications could otherwise stop time by letting
packets be put aside and cancelled for ever in one instant.  In the simulator a
packet takes time on the air, so only finitely many arrive in an instant.  In
`WirelessNic` and `NdnNetwork` the events of an instant are finitely many by
construction, and `WF` of "some event of the kernel or a tick" suffices
(`NicFairSpec`, `NetFairSpec`); no event is preferred to another.  Nothing is
assumed of the neighbours or the applications: they need not send anything.
The consumer adds that an Interest held by the forwarder is returned when its
check is due (`Expires`); answers may never come.  The medium is
not trusted either: any signal may fade each time it is sent.  Of that,
`FramesAreSettled` says what the code can keep.  The MAC always gets on: a host
with frames comes to transmit or has none left, however many signals fade.  But
that every frame is settled holds only where finitely many signals fade
(`SignalFades`): two busy hosts whose acknowledgements are lost again and again
reset each other's retry counter with their data frames
(`CsmaCaMac.cc:350-392`) and may repeat a frame for ever.  Without that
condition TLC finds this behaviour.

## The proofs

`tlapm` checks every module named `...Proofs` and `VectorLemmas`.  The theorems
hold for any number of hosts, any names, packets, limits, delays and parameters
that satisfy the assumptions of the modules (finite numbers, faces of two kinds,
prefix lengths within the names, time constants of any relation to each other).
The assumptions are evaluated by TLC in every
run.

* `VectorLemmas`: what `Retain` leaves (the kept elements, in order, without
  gaps), what the first match of a search is, how prefixes nest.  Ranks are
  treated through the library's facts on finite sets.
* `TableProofs`, the three tables.  `PitTypeCorrect`, `PitTimeoutInTime`: that no
  entry is overdue is not inductive.  `PitInv` adds that a host with entries has
  its check scheduled, at most one period ahead and never in the past, and that
  an entry's date is overdue at most as far as that check is away.
  `FibTypeCorrect`, `FibFindsLongestPrefix`, `FibRouteExpiresInTime`,
  `FibNeverForgets`: first match is longest because of `FibLongerFirst`, which says
  that of two entries of which one is a prefix of the other, the longer comes
  first.  It is kept because an entry is appended only if no entry matches its
  name.  Expiry needs `FibChecked`: a host with a learned entry has its check
  scheduled.  `CsTypeCorrect`, `CsFreshnessIsBounded`, `CsKeepsFreshness`,
  `CsKeepsNamesUnique`, `CsIsFirstInFirstOut` follow from `CsInv`, which again ties
  the entries to the scheduled check.
* `ForwardingProofs`: `FwdNextKeepsOK` shows for each handler that it is a step or
  a stutter of each table (`TableSteps`) and keeps `FwdOK`.  This gives
  `FwdTypeCorrect` and `FwdImplementsTables` (the forwarder's specification
  implies that of each table), so that each theorem about a table holds in the
  composed host.  `FwdPitNamesUnique` and `FwdNothingFreshIsPending` are about
  the late `create()` of a flooded Interest.  Neither is inductive.  `FwdNames`
  adds that the name of an Interest put aside is neither pending nor fresh.  It
  stays so because a host that waits lets no packet reach its tables, and the
  periodic checks make nothing pending and nothing fresh.
  `FwdPendingIsAccountedFor` goes through the handlers once more ("Causes"):
  each says which PIT entries it uses up and what it sends or puts aside for
  them.  The periodic check needs most care, because several entries time out in
  one step and each application must get its own Interest.
  `FwdDataFollowsInterest` ("Debts") keeps accounts.  A host owes Data to whoever
  an entry of its PIT, an Interest put aside or Data put aside is for (`Owed`: a
  name, a face and a MAC address).  A new debt arises only in the step that
  handles the very Interest.  Data that is sent answers the Interest that the
  step handles, from the Content Store, or it pays a debt of that name, to that
  face and address, of which nothing is left afterwards; and a step sends one at
  most.  That the debt is gone needs the uniqueness of PIT names and that what is
  put aside is not pending too (`DelayedIsAlone`).
* `ConsumerProofs`: `ConsumerTypeCorrect` for all parameters, and where
  `HistorySuffices`, `ConsumerSlotsAreTheirOwn`, `ConsumerPatience`,
  `ConsumerGivesUpByOwnCount` and `ConsumerStatisticsAreReal`.  The condition says
  that `numInterests` does not exceed `HISTORY_SIZE`, or that `HISTORY_SIZE` times
  `sendInterval` exceeds the time that `interestReTx` rounds of lifetime, check and
  delay can take.  `ConsumerInv` states that Interest `s` was sent `s` intervals
  after the first (`SteadyPace`), that each one under way is within the rounds it
  has been given so far (`InTime`), and that the last `HISTORY_SIZE` Interests are
  still recorded.  So when a slot is taken over, its former owner cannot be under
  way any more (`SlotIsFree`), and without that no retransmission could be
  attributed to the right Interest.

* `NetworkProofs`: `NetTypeCorrect`, `NetHostsAreForwarders`, `NetNoAnswerUnasked`
  for any hosts, any reach, any losses and repetitions.  Every step of the
  network is a step of `Forwarding` or leaves its variables alone, so `FwdOK` and
  `FwdNames` carry over, and with them all theorems about forwarders and tables.
  This needs that a frame comes from another MAC than the host's own: MAC
  addresses differ and no host hears itself.  `NetOK` adds what is under way
  (`LinksOK`) and the counts.  `NetNoAnswerUnasked` then goes through the events:
  an answer to an application uses up a PIT entry of that application and name,
  of which there is at most one (`FwdPitNamesUnique`), or answers its Interest from
  the Content Store at once, and no Interest does both.
  Its second part proves `NetBreadcrumbsLeadHome`, that pending Interests form no
  ring of hosts, for any hosts, reach, losses and repetitions, under two hypotheses.
  `TrailsAreShort` is about the constants: the hosts that relay have a cache, Data
  of one name has one freshness, and the lifetime of every Interest and the
  freshness of all Data outlast the longest way of an Interest through all these
  hosts, each of which takes at most `MaxDelay` and `MacDelay`.  `YoungDataStays` is
  about the run: caches may be of any size and evict at any time, but not Data
  that came, or came anew, within that longest way.  A cache gives up what was
  inserted first, and a renewed entry keeps its place, so the code itself does
  not promise this; it takes a renewed entry at the front and new content at the
  moment it is renewed to break it.
  Of the examples, `NdnDemo` (`examples/ndn/omnetpp.ini`) is within the theorem
  while its frames are not held up: nine routers with caches of 50, Data fresh for
  10 s, Interests that live 2 s and a flooding delay of at most 14 ms, so that a
  hop may take 0.2 s.  It asks for content once a second, so the oldest of 50
  entries is young only if it was just renewed.  (Its consumer and its producers
  move; losses in a network where all hosts are in reach stand for that.)
  A configuration that leaves
  `dataFreshness` at its default of 0 (`ProducerAppBase.ned`) is outside of it: with `mustBeFresh`
  a host that has answered does not remember, and a copy of the Interest that is
  still under way can close a ring, which lasts until its entries time out.
  The hypotheses matter: with a lifetime and a freshness of 1 tick TLC finds on
  the diamond of `network` two routers that owe each other Data.
  `TrailOK` follows an Interest from the PIT entry of one host through its MAC, the
  air and the flooding wait of the next host into that host's PIT entry.  At each
  place it says that the sender's address belongs to hosts that still *remember*
  the name (`CameFrom`): they have a PIT entry made since then, or fresh Data that
  came since then, or it is longer ago than `TrailTime`.  A host that remembers
  makes no new entry.  If a new entry closed a ring, the hosts of the ring would
  have made their entries within a hop of each other; there are more windows of
  one hop within `TrailTime` than other hosts in the ring, so one window is empty
  (`EmptyWindow`), and the hosts on the younger side of it owe Data only to each
  other: they were a ring before (`NoRingThrough`).
* `NicProofs`: `NicTypeCorrect`, `NicTimersMatchState`, `NicSensesTheMedium`,
  `NicRadioObeysMac` and `NicCountersInBounds` for any hosts, any reach, both values
  of `useAck` and `prioritizeByUP`, any contention windows and any times.  None of
  the last four is inductive by itself; `NicInv` says of each host (`HostInv`) that
  its MAC is consistent (`MacOK`: timers, counters and a non-empty queue where the
  state needs one), that its radio is (`RadioOK`), and that they fit (`Fits`).  The
  lemmas follow the code: each operator of `CsmaCaMac` is shown to leave a MAC
  that fits the reception state it was given; then each event composes the
  operators of MAC and radio in the order of its calls.  The MAC ignores changes
  of the medium in four states, and it still fits because it looks again
  whenever it is back in IDLE (`AfterEventOK`).
  `NicCurrentFrameIsSent` and `NicGivesUpAfterAllRetries` need in addition that
  frames wait in the order in which they came (`prioritizeByUP = false`) and that
  `transmissions` can count the retries.  `TriesInv` states that the head of the
  queue was sent at least `retryCounter` times, once more while it is on the air
  or waits for its acknowledgement, and that an empty queue has no retries; so
  no frame inherits the count of another.

* `LinkProofs`: `NicImplementsLink`, that the MACs and radios of any hosts, whatever
  reaches whom, collides and fades, implement `Link`.  Its hypotheses are that
  frames wait in the order in which they came and that `ackTimeout` exceeds SIFS and
  the duration of an acknowledgement; the default in `CsmaCaMac.ned:75` is their sum
  and a slot.  The hard part is Receive-Ack: an acknowledgement names neither the
  frame nor its sender, bit errors are not looked at, and it may arrive while
  its receiver waits for another frame's.  `LinkInv` rules that out by the clock that starts
  when the current frame of a host has been sent.  Whatever a radio may still pass up
  (`Coming`) says how long it lasts on: for a data frame its sender is still
  transmitting it for that long (`Flies`), for an acknowledgement its receiver's
  time-out has run for exactly SIFS and the part of the acknowledgement that is
  over (`Answered`), and the frame was delivered before.  The same is said of the wait for SIFS
  and of an acknowledgement on its way down.  A host has one time-out, so it can
  be answered by one acknowledgement only, and none is left when it expires.
  Each event is shown to forget nothing that is under way (`Carried`), and then to
  be a step of `Link` or none.
* `AckProofs`: `NicAcksAreProtected`, that an acknowledgement meets no other signal
  at the host it is for, for any number of hosts, whatever fades and whoever
  began to send at the same instant.  Beside those of `NicImplementsLink`
  it needs that every host hears every other and that SIFS is shorter than DIFS; by
  default (`CsmaCaMac.ned:74`) DIFS is SIFS and two slots.  Neither can be dropped:
  TLC finds a spoilt acknowledgement if SIFS equals DIFS, and if two of three
  hosts do not hear each other and an acknowledgement lasts longer than DIFS
  exceeds SIFS.  `AirInv` says that signals are what their senders send: one
  that lasts on for some time is sent for that time (`SignalsOK`), who sends is
  heard by all others (`Reaches`), and a whole signal is heard alone (`CleanAlone`).
  `GuardInv` says who keeps off the medium.  A host is `Calm` for a number of ticks
  if it neither sends in less nor has just sent.  From the moment somebody has
  received the end of a frame for itself, whole, all hosts but the sender are calm
  for DIFS; while it waits for SIFS all but the two are, for what is left of DIFS;
  when the acknowledgement is on its way, for a tick; and the host that waits hears
  nothing (`Protects`).  While the acknowledgement is heard the others stay calm,
  because they hear it too (`Undisturbed`).  If two hosts begin at one instant,
  nobody receives either frame whole; that a frame received whole is alone on the
  medium follows from `AirInv` once its first tick has passed (`SendsAlone`).
  The sender of a second exchange would not be calm, so there is one at a time
  (`ExchangesOf`).

Checked by TLC only: liveness (`PitDrains`, `AppHearsBack`, `ConsumerFinishes`,
`FramesAreSettled`, `AskedIsAnswered`), which is out of the prover's reach.

## Where the code and its comments differ

`NdnPackets.msg:29` calls the sequence number "for stats only".  `onTimeout()`
(`ConsumerAppBase.cc:167`) uses it to decide whether an Interest is sent again.  As
long as `HistorySuffices` this makes no difference, as the theorems show.
Otherwise two Interests under way share a slot, and `consumer_hurried` ends with
one that is given up at its first time-out, because the other was retransmitted.
The settings of the examples with a constant `sendInterval` of 1 s or 3 s satisfy
the condition.

`CsmaCaMac.ned:80` calls `retryLimit` the "maximum number of retries", and lines
47-49 say that the MAC gives up "after a given number of unsuccessful retries".
Every frame that ends a reception resets the state variables
(`CsmaCaMac.cc:350` and the transitions after it), and with them the retry
counter of the frame that waits for its next retry.  `nic_retries` sends a frame
three times although one retry is allowed.  Between busy hosts, retries have no
limit.  The other direction does hold: no frame gets fewer retries than that
(`NicGivesUpAfterAllRetries`).

## What the code does that a reader may not expect

The models reproduce these; no property excludes them.

* An application's Interest that meets a waiting forwarder, a full PIT or a PIT
  entry of its name is deleted and never reported as timed out.
* Data learned for a name keeps the face of the route that is there, even an
  expired one; only the next hop's address changes.  Expired routes occupy their
  slots for ever.
* A registered prefix loses its 100 s lifetime to `entryLifetime` when Data for
  it passes.  Without a learned route nothing ever expires it.
* With the default `numInterests` of -1 a consumer starts, and sends exactly one
  Interest.
* Data with the number of another consumer's Interest is entered into the
  statistics under the slot of that number, whatever is there, also before
  anything was.
* A host that does not forward consumes the PIT entry of a neighbour's Interest
  when it overhears the Data.
* `AskedIsAnswered` holds on the diamond of `network_lossless`, not on every
  topology, even without losses.  If one of the routers has another consumer in
  its reach that does not reach the first: the source of an answer sends it to
  both routers, one of which holds its copy back for its own consumer, and drops
  it when the other's copy of the same Data arrives.  A route learned to one
  router also outlives the freshness of that router's cache and the router's own
  route.  Only the consumer's retransmission repairs either.
* A second consumer's Interest, or a retransmission, is dropped at every router
  whose PIT still holds the name, and a flooded Interest that is put aside is
  cancelled by that of another host for the same name.
* The MAC takes an acknowledgement with bit errors for a good one
  (`CsmaCaMac.cc:324` does not test for them); by `CsmaCaMac.ned:43-46` a sender
  that does not receive it correctly retransmits.
* With `prioritizeByUP`, an urgent frame queued during a transmission becomes the
  head of the queue (`CsmaCaMac.cc:583`) and is removed, unsent, in the place of
  the one that was sent.  No NDN configuration sets the parameter.
* With `useAck`, a frame to a multicast address other than broadcast is never
  acknowledged: it is sent 1 + `retryLimit` times, and then given up.
* A full MAC queue drops frames without telling the forwarder
  (`CsmaCaMac.cc:195`).
* `Tools::encodePacket` writes the type of `META_INFO` in front of `SignatureInfo`.  It
  has no caller.

## Not modelled, and why

* *TLV encoding* (`packets/Tools`).  `encodePacket` and `isCorrect` have no caller, and
  `computeTlvPacketSize` only sets how long a frame is on the air, a constant here.
* *XU* is an empty stub.
* *Node lifecycle.*  The NDN modules answer every operation with `true` and change
  nothing, and no example shuts a node down.  In a node that is down the next
  event of an application throws, which ends the simulation.
* *Age of cached Data.*  The freshness period begins anew in every cache, as in NDN
  itself; the packets carry no date from which an age could be told.
* *Mobility, propagation, bit error rates, visualisation, statistics.*  Which
  host hears which is a constant, and a signal may be lost at any time.
* *Parts of MAC and radio that the NDN examples do not use*: an external queue
  module, switching times of the radio, signals divided into parts, the modes
  off, sleep and transceiver.  The branches for `useAck = false` and for
  `prioritizeByUP` are in the model and in the proofs, but in no run.
* *The other protocols of INET* (IPv4 and IPv6, TCP, SCTP, UDP, the 802.11 MACs,
  routing, packetdrill and so on) are by far the largest part of the repository.
  They are the framework that NDNOMNeT is added to; no NDN host contains them,
  and nothing here says anything about them.

## What is left

* Consumers with the whole of module `Consumer` in the network, in the place of
  bounded asks: a refinement of its environment by the forwarder, for which
  `PendingIsAccountedFor` and `NoAnswerUnasked` are the two halves.
