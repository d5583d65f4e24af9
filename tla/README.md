# A verification development of the Natty watch client

This directory holds TLA+ models of the client in `src/`: the program that runs
on a children's watch (MediaTek 2503D, plain C on the platform's MMI task),
keeps it registered with the Natty server over UDP, answers packets of the
devices paired with it, and locates it. TLC checks the models on small
instances; TLAPS proves the safety properties of the core, the location, the
threads, the friends tree and the store, and that the scan, the calendar,
the text search, the frames and their checksum are right, for every value of the
constants.

File and line references are to `src/NattySrc` unless a path is given.

## 1. Inventory

Everything below, but for the pthread client, runs on one task. A timer that expires, a socket notification,
a platform callback or a message of the task's own queue starts a handler, and
the handler runs to its end before the next one starts. There are no locks and
no data races; what is hard is the order of the handlers, what the network does
between them, and the restarts.

| part | state it keeps | operations | who calls it |
|---|---|---|---|
| client core (`NattyClientDev.c`) | `level`, `u8TimeCheck`, `card_disapp_times`, `u8LedDisplayMode`, the friends tree, three timers | `ConnectProc`, `sendProc`, `heartbeatProc`, `ntyUdpCallback`, the senders | timers, socket notifications |
| message loop (`NattyMain.c`) | the MMI queue | `ntySendMsgToMMIMod`, `ntyMMIProcMsgHdler`, `NattyEntry` | core, commands, keypad, location |
| network (`NattyNetwork.c`, `NattyTimer.c`) | socket handle, server address, confirmation timer, frame counter | `ntyUdpCreate`, `ntyNetworkConnect`, `ntyNetworkSendFrame`, `ntyNetworkRecvFrame` | core |
| settings (`NattyUtils.c` 857-1002) | `ntyWatchIntance`, `\watch.conf` | `ntyWatchConfigInit`, `ntyWatchSave`, `ntyConfigParser` | boot, commands |
| commands (`NattyUserDataProtocol.c`, `NattyNodeAgent.h`) | none | the GET and SET filters | message loop |
| friends tree (`NattyRBTree.c`) | a red-black tree with a sentinel | insert, search, delete, update, traversals | core |
| location (`NattyLocation.c`, `NattyWlan.c`, `NattyGPS.c`, `NattyCell.c`) | scan results, fix, the request in progress | start/end per source, scan and NMEA callbacks, timeouts | message loop, timers |
| HTTP (`NattyHttp.c`) | socket, DNS answer, request and response | create, notify, request, response, close | location |
| object model (`NattyAbstractClass.c`) | reference to a class record | `New`, `Delete` | all |
| telephone hooks (`NattyUtils.c` 358-371) | `u8LedDisplayMode` | `ntyCallNumberIsAllowed`, `ntyEndCallCb` | the platform's call service |
| helpers (`NattyUtils.c`) | none | `ntySeparation`, `ntyKMP`, `ntyLocalTime`, `ntyU8ArrayToU64` and the copies into frames | all |
| pthread client (`NattyProtoClient.c`) | id, level, one receive buffer, a flag per heartbeat | `ntySetDevId`, `ntySendDataPacket`, `ntyProtoClientHeartBeat`, `ntyRecvProc` | an application, and two threads of its own per id |

How they interact: the core creates the network object, hands it frames and is
called back through the platform's socket notification; a received data packet
becomes two messages of the MMI queue, whose handlers call the commands, which
change the settings or put a further message in the queue; that message is
answered through the core's senders. The HTTP client shares the callback with the core, which tells the two by socket id.

The pthread client is the same protocol's client for a system with threads. It
is not in the build of the watch (`src/mmi_app.mak` names `NattyClientDev.c`),
but it is in the repository, calls the same network object, and is where the
network's `busy` flag and mutex mean anything: there the application, the
heartbeat and the receiver do run at the same time.

What makes each part correct:

* core: some timer that leads to progress is always pending; one chain of
  retries and one socket; the order login, time check, heartbeat; a heartbeat
  that goes on until the watch restarts; being online again where the network
  allows it;
* message loop: an acknowledgement before its data; every reply belongs to a
  packet that came, also when the byte-sized length of a message cut its text;
* network: no socket lost on a failure path; the id that is answered is the id
  that asked;
* settings: what is in memory comes from the program, or is the piece of a number
  that a command for a slot puts there, however long the number is;
* settings file: what was committed is read back, and of what is left of it after a
  loss of power no place is given another one's number and at most one a short one;
* frames and texts: a field is found whole where the other side looks for it;
* friends tree: it is a map, with balanced search;
* location and HTTP: GPS and Wi-Fi are switched off again, no request for GPS is
  lost to a schedule that stands still, and a position answers the request that
  was sent last, whatever sockets earlier ones have left open;
* pthread client: a call that no other thread's overlaps sends its own frame whole,
  a packet is then shown when its acknowledgement has left, one heartbeat loop
  runs, and the network never stays busy.

The hazards, each at its line, are in `PROJECT.json`.

## 2. The modules

| module | models | kind |
|---|---|---|
| `NattyNetwork` | `NattyNetwork.c`, `NattyTimer.c`, and the server and datagram service | component |
| `WatchConfig` | the settings as the core uses them | component |
| `NattyDev` | `NattyClientDev.c`, `NattyMain.c`, `NattyUserDataProtocol.c`; composes the two above | component |
| `WatchSession` | what the core promises of its session, without timers or messages | abstract specification |
| `NattyDev_proofs` | theorems about `NattyDev`: its session, and its packets | proofs |
| `ConfStore` | the settings store with the text of its file | component |
| `ConfStore_proofs` | theorems about `ConfStore` | proofs |
| `NattyRBTree` | `NattyRBTree.c`, pointer by pointer | component |
| `FriendsMap` | what the tree promises: a map changed at one id at a time | abstract specification |
| `NattyRBTree_lemmas`, `NattyRBTree_proofs` | what each piece of code does to the pointers and the colours; theorems about `NattyRBTree` | proofs |
| `WlanScan` | what `NattyWlan.c`'s callback makes of a scan | algorithm |
| `WlanScan_lemmas` | what its loops compute | proofs |
| `NattyGPS` | `NattyGPS.c`'s schedule: a record and the functions that change it | component |
| `NattyHttp` | `NattyHttp.c`, name service and sockets | component |
| `NattyLocation` | `NattyLocation.c` and the callbacks; composes the three above | component |
| `NattyLocation_proofs` | theorems about `NattyLocation` | proofs |
| `NattyText` | the calendar and the text search | algorithms |
| `NattyGPSText` | the receiver's start command | algorithms |
| `NattyHttpText` | the text of a lookup's request and what is taken from its answer | algorithms |
| `NattyFrames` | the bytes of every frame the client sends, and the checksum | algorithms |
| `NattyProto` | `NattyProtoClient.c` and the network object as its threads use it | component |
| `NattyProto_proofs` | theorems about `NattyProto` | proofs |
| `MCNattyDev`, `MCNattyRBTree`, `MCNattyLocation`, `MCNattyProto`, `MCConfStore` | constants and constraints for TLC | model checking |
| `MCWlanScan` | every scan, one access point longer at each step, and what the callback owes it | model checking |
| `NattyInputs` | every day, every text that is searched, every frame and every message, and the references for them | model checking |
| `NattyInputs_proofs` | theorems about the inputs of `MCWlanScan` and `NattyInputs` | proofs |
| `MCAlgorithms` | both with bounded inputs of the other algorithms, and their references | model checking |

**State.** Variables carry the code's names (`level`, `sockfd`, `u8TimeCheck`,
`card_disapp_times`, `u8LedDisplayMode`). The timers are `initTimer`
(`NATTY_NETWORK_INIT_TIMER`, which the code starts with one of two callbacks, so
the variable holds the callback), `simTimer` (`NATTY_DETECT_SIM_STATUE_TIMER`),
`hbTimer` (`NATTY_HEARTBEAT_TIMER`) and `confirmTimer`. `queue` is the MMI
queue, `friends` the map the tree stands for, `family` and `conf` the settings
in memory and whether there is a settings file (whose text, once read, is never
used, Utils 985). `sockets` counts what the platform has given
out and `received` records the packets accepted since the boot; both are there
for the properties only.

**Actions.** One per handler.

| action | code |
|---|---|
| `NattyEntry` | boot: settings, objects (`ntyClientDevInit`), first `ConnectProc` (`ntyProtocolInit`) |
| `ConnectTimeout`, `DetectSimTimeout` | `ConnectProc`, from the retry timer and from the SIM poll (ClientDev 1130) |
| `SendTimeout` | `sendProc` (1028) |
| `heartbeatProc`, `ConfirmTimeout` | 1022; `ntyMessageOnAck`, whose resend is compiled out (Network 410) |
| `RecvLoginAck` ... `RecvIgnored` | `ntyUdpCallback` (624), one action per type byte |
| `ProcProxyAck`, `ProcUserData`, `ProcGetValue`, `ProcCallCtrl` | `ntyMMIProcMsgHdler` (Main 179), one per command |
| `ntyMakeCall` | the keypad's call (Utils 374) |
| `ntyCallNumberIsAllowed`, `ntyEndCallCb` | the platform's hooks for a call that begins and ends (Utils 358, 367) |
| `ShutdownDone`, `ServiceChange`, `NetworkStep` | the platform, the cellular network, the server |

`StartTimer` on a running timer replaces it, so a timer is a value and not a
count. `ConnectProc` takes as parameters what the caller has left of the two
timers and whether a restart is under way.

**What is abstracted.**

* Frames are records of the fields the handlers read. Their bytes are the subject
  of `NattyFrames`; no handler looks at checksum or frame counter but for a trace. A device
  id is a number, and `ntyU8ArrayToU64` keeps its widths as constants
  (`WordSize`, `LongSize`). A shift by 32 or more gives 0, as on the ARM core
  this is built for.
* A datagram stays in its set when received, so it may arrive twice, late and in
  any order; `Lose` takes it away.
* A command's text is the verb, node, slot and number it parses to, and its length
  in bytes. A word of it has less than the 64 characters `ntySeparation` has room
  for (Utils 443).
* `ntySendMsgToMMIMod` takes the length of a message as a byte (Main 150), and the
  datagram callback passes 8 for the id, the bytes of the text and one more
  (ClientDev 788). `DataMessages` is what the handler then finds: the text cut to
  the length modulo `LengthSize` (`First` says what a cut text means), and, where
  this is less than the id's eight bytes, a text, and below four an id, that was
  read behind the block. These are `StrayTexts` and `StrayIds`, any of them at any
  time. (`ntyU8ArrayToU64` makes an id of its first four bytes only, the others are
  shifted out or are the sign of the fourth.)
* Only the family numbers of the settings are ever written by a command. `strcpy`
  copies them, whatever their length, to places of 20 bytes (UserDataProtocol 127,
  `NattyUtils.h` 97), so a number is a sequence of pieces, of which all but the last
  fill a place, and `family` is the two slots with the three contacts behind
  them that such a number can reach (`Places`). A slot outside 0..1 is not an input
  of the model.
* A send on a handle that is 0 or negative fails without effect.
* The `busy` flag is 0 between handlers; `sim_not_in` and `sim_is_exit` are
  written and never read; both are left out. The GPS scan timer belongs to the
  location modules.
* The cold restart (`srv_shutdown_normal_start`) only asks: `power` becomes
  `"restarting"`, every handler still runs, and `ShutdownDone` comes at any time
  later. It clears memory and platform state; `conf` stays. `received` is
  cleared with it, so the properties about packets speak of one uptime.

**Bounds.** `MaxFlight` (datagrams per direction), `MaxQueue` (messages of the
queue), `MaxSockets`. They are guards: a frame sent with a full network is
lost, a packet for which the queue has no room is not taken yet. `CharSize` is
the width of the two byte counters; 256 in the code. `TimeCheckMax` is 5 and
`CardMax` 30 in the code.

**The friends tree.** `T` is the root and all blocks, one record each, the
sentinel included; `count` the U16 the code keeps; `alive` the blocks in use.
An operation starts with `OperaInsert` or `OperaDelete`, which do everything up
to the fixup; `InsertRecolour`, `InsertRotate` and `DeleteFixup` are one
iteration of their loop each, and `InsertDone` and `Release` what follows it
(`pc` says which loop runs, `cur` is its node). The mirrored branches of the
code are one definition with a side, the two rotations likewise. The properties
hold after every iteration and not only between operations, and what a search
finds never changes inside one: the tree implements `FriendsMap`, which is the
map `friends` of `NattyDev`.

**Location.** `ScanTimeout` is `gps_timer_task_scan`, every five minutes;
`ScanSucceeds` and `ScanFails` are the platform's answer to an accepted scan,
with all that `ntyLocationWlanEnd` does for the status it computes: start GPS
(0, 1), nothing (2 to 4), look the list up (5). `SyncTimeout` and `GpsTimeout`
are the two timers of GPS, `ntyParseNMEARMC` a fix. `NotifyConnect`,
`NotifyRead` and `NotifyClose` are `ntyUdpCallback`'s way to HTTP (ClientDev
643), `ntyGetHostByNameIndCallback` the name service's answer.

* `position` stands for latitude and longitude: `Fix` from GPS, or the list of
  access points it was looked up by, so that a property can ask *which* request
  it answers. A response that has no location in it changes nothing but the
  source, as in the code.
* The Wi-Fi chip has two variables, `flg_wifi_init`, the code's flag, and `chip`,
  whether `wlan_init` did start it. The flag is set either way (Wlan 93) and keeps
  `ntyWlanOpen` from being called again (280), so after a start that failed a scan
  may be refused for ever, with nothing to switch the chip off or to start it again.
* `soc_send` may take a part of a request (Http 52-60 sends no rest and tells
  nobody): its socket then has no answer to bring.
* A socket is the platform's from `soc_create` to `soc_close`. `asked` is the
  request whose answer it still has to bring. `lastAsked` is there for the
  properties only.
* The account is found once and kept. An address `soc_gethostbyname` has at once
  is written through a pointer that was never set (Http 300-306), so only the
  callback sets `addr`; what else that write may hit is outside the model.
* The pause of the GPS schedule (`SUSPEND`) is in the model and never lasts:
  closing GPS at the end of the listening time disables the schedule, and the
  next request starts from `IDLE`. The cells are asked only from the branch of
  finding 4, which is never taken, so `NattyCell.c` is not modelled.
* Time from GPS is compiled out. The text of request, answer and start command
  changes no state the rest depends on; `NattyHttpText` and `NattyGPSText` have it.

**The settings file.** `ConfStore` is the store with nothing abstracted but the
spelling of names, which are single tokens of known length. A save is four
actions, `SetFamilyNumber`, `Open`, `Write` and `Commit`; `PowerLoss` may come
between any two, and what was not committed is then there in part. A file that
is there may fail to open, a full file system takes a part of a write. `Boot`
has the code's inverted test (Utils 985): the text of a file that *was* read is
never used, and the parser only ever sees an empty buffer. So that writer and
parser are checked nevertheless, `ReadsBack` applies the parser to a file that was
committed whole and `CutReadsBack` to whatever is there when the power is off
(both for numbers without a colon or the end of a line, which nothing in the code
keeps out). The second shows what a repair of the test would meet: the cut, by a
loss of power or by the 128 bytes that are read, falls into one number, which
then comes out short and looks like any other. Numbers fit their place here; what
`strcpy` does with longer ones is in `WatchConfig`.

**Frames.** A frame is a function from offsets to bytes, a byte being a part of a
named field. The senders put fields at the offsets of `NattyProtocol.h`; `Sent`
is what `ntyNetworkSendFrame` overwrites. A word of the checksum is the set of
its bits, so that 32 bits need no arithmetic.

**Texts.** A text is a sequence of character codes. Instants are a day and a
second of it, as TLC's integers are too narrow for 32-bit seconds. The only call
of `ntyLocalTime` is compiled out (GPS 406): the calendar is checked as the helper it
is, and nothing of the watch depends on it. An answer
with several pairs of tags appends each to what the last one left in its array
(Http 150-160); one with tags but no comma makes the code read past the array
and is not an input.

**The pthread client.** One step per access to shared state. `ntyNetworkSendFrame`
is ten steps: counting and clearing, the copy, the number, the length, the CRC's
reading of the buffer, its writing, the test of `busy` outside the mutex, its
setting, `soc_sendto` and its clearing (Network 500-550). The send buffer is five
words (type, number, address, content and, at the place a frame's own length
gives it, the CRC), and what leaves is what these words are by then, in the length
of then, so overlapping calls mix as in the code. The copy, the CRC's reading and
`soc_sendto` are one step each, which is coarser than the machine: the properties
that hold are about calls no other overlapped, which a finer grain does not
change. Two increments of the number at once may count one. `pc` says where a thread is,
`local` is the frame in its own buffer, `sum` the CRC it has computed. `out` and
`overlapped` are there for the properties: what left in a thread's call, and
whether another thread was inside at the same time.

A thread that finds the network busy returns, and no caller looks at that: a
receiver then shows its packet although no acknowledgement left, which only
another thread's overlapping call can bring about (`ShownIsAcknowledged`). A second `ntySetDevId` starts a second pair of
threads. `hasty` records that one was started before the last was in its loop;
two loops are then possible, which is the race of ProtoClient 186-192 and
excluded by `OneHeartbeat`'s premise. Two receiving threads overwrite the one
receive buffer under each other, so `ShownIsAcknowledged` speaks of one. The
callback for lost data, which the network no longer has a field for, stops the
timer only. Packets carry at least one word of content, so that a data packet's
CRC is behind an acknowledgement's.

Operators named `Bug...` are plausible mistakes in the definition that follows
them. No specification uses them; they show that a property can tell the
difference.

## 3. Runs

| run | question | instance | result |
|---|---|---|---|
| `session` | do the timers, the socket and the session stay in step through failures, duplicated and late answers and restarts, and is the watch online again and again where service stays? | one friend, failures of operator and `SOC_ASYNC`, two sockets, two unanswered time checks or polls before a restart, every simple datagram may be in flight at once | holds |
| `packets` | are packets acknowledged and answered to the one who sent them, and carried out for their slot and nothing else? | two friends, one whose id has the sign bit set, four texts: a question, one that is cut behind its words, one whose id is cut, a number longer than its place; the watch's own calls and the platform's call hooks, a queue of 3, failures of account and `SOC_NBIO` | holds |
| `tree` | is the tree a balanced search tree and a map after every iteration of every operation? | ten ids, any insert, delete or update | holds, about 61,000 states |
| `algorithms` | do the pure algorithms compute what their references say? | every scan of up to four access points; every day of a 32-bit clock, east and west; texts of up to nine characters; messages of up to four bytes; every frame with the shortest and longest content; requests of up to seven entries; answers in any order | holds, about 453,000 states |
| `locate` | do GPS, Wi-Fi and HTTP stay in step in every order of timers, callbacks and notifications? | two places and one without access points, two sockets | holds |
| `stops` | are GPS and the Wi-Fi chip always switched off again? | as `locate`, longer sessions, no sockets | holds |
| `store` | is a committed file read back, and what of one that was cut? | numbers of 6, 7, 11 and 15 digits, power loss and full file system anywhere | holds, about 193,000 states |
| `threads` | does a thread that has the network to itself send its own frame, and is a packet shown acknowledged, whatever was mixed up before; does one heartbeat loop run, and does the flag come back? | one `ntySetDevId`, of whose three threads two overlap, and the first pass of a second one's | holds, about 553,000 states |
| `samemac` | does the loop leave one entry per MAC? | scans of up to three | violated: finding 3 |
| `firstgps` | is the branch for the first GPS request taken for it? | as `locate` | violated: finding 4 |
| `nosocket` | does the client send on a socket? | no data account | violated: finding 1 |
| `highfriend` | does an acknowledgement reach the friend? | an id with the int's sign bit set | violated: finding 2 |

*Why the bounds are enough.* In `session` `MaxFlight` exceeds the number of
different datagrams, so it never cuts a behaviour. Counters are cut down to one
or two counts before their limit and a width that lets them wrap; each reaches
its limit, its restart and the wrap. Two sockets is one more than correct code
ever holds. Id 6 has the sign bit of the scaled `int`, 1 has not. `packets`
allows one datagram per direction, but it may be replaced at any time, and the
queue of 3 holds a whole packet's messages with a call or a reply to another
packet. Its constraint follows two packets between two boots (an interleaving of
packets is one of two), stops in a restart with more than one message queued
(what is queued is then lost), and follows neither the display of a call nor,
without a heartbeat, the time page the end of a call brings up.
`PhoneCalls` is off in the other runs of `NattyDev`, as calls touch the display
only.

In `tree` ten ids are the least with which both loops climb twice in one
operation (seven nodes are enough for an insertion, ten for a deletion). Which
block holds which key makes no difference, so the view `ByKey` shows every pointer as the
key it leads to; of the sentinel it shows the parent only while a deletion works
on it, as nothing reads it otherwise. Only the order of the keys matters: the
constraint `FewGaps` drops trees in which more than two keys below the greatest
are missing; a tree of the same shape and colours with closer keys is kept.

In `algorithms` a list of 3 and scans of 4 fill the list and overflow it; the
signals are one too strong, two usable and one too weak, and each access point
may be hidden. The 49,711 days are all that 32 bits of seconds can show, the
year 2100 among them. The patterns searched for overlap themselves or end in a
prefix of themselves, and the texts are long enough for four overlapping
occurrences. The checksum is linear and byte by byte, so four bytes with single
bits, all bits and a mixed one reach each column of its table's generator. The
longest request has the seven entries of the code with the longest names, which
is what fills the buffer.

`Home` and `Away` in `locate` share one MAC, so a scan at one is new to a watch
that asked at the other, and unchanged to one that did not move; the empty scan
starts GPS. Two sockets are enough to have an old and a new request open
together, and to lose both. A listening time of one second and no pause reach
each change of the schedule; `stops` takes three and one. A Wi-Fi chip
that does not start is followed in `stops` only, as no guard depends on it. In `stops` there are
no sockets: neither GPS nor Wi-Fi waits for HTTP, and a socket only adds states.

In `store` two numbers of eleven digits fit into the 128 bytes that are read,
two of fifteen do not, and six digits are not written at all; each text is cut
at every place. In `threads` either one packet, coming or going, is under way
while heartbeats are sent, or two are while the heartbeat thread sleeps: two of the
three threads overlap in every order, again and again, and what they leave behind
is met by a call of either alone. (The theorem has any number of threads.) A second
`ntySetDevId` is followed through the first pass of its threads, which is where
loops start; no packet arrives then.

The texts of `packets` are lengths around the byte: 9 bytes, 300 (45 are left, all
but spaces), and 249, of which a length of 2 is left, so that the id is cut. The
long number has a piece that fills its slot and a rest behind it.

*Deadlock* is checked in every run.

*Fairness of `session`* (only `ComesOnline` needs it). Weak fairness for the
handlers of running timers, of queued messages, of boot and shutdown: the platform's timers and queue are
live. Strong fairness for a successful attempt to open the socket, for the
server's answers to a login and to a time check, and for their receipt: an
attempt repeated for ever, every five seconds or every fifteen, succeeds at some
time. Nothing is assumed of service (the property's premise), of friends, calls
or heartbeat answers. The account failure is left out of this run, as it leads
to finding 1 and the property is then false.

*Fairness of `stops`.* Weak fairness for the two GPS timers and for the answer to a
scan the platform has accepted. While the chip is on, of the scans that are asked
for every five minutes one is accepted at some time: only its callback switches
the chip off (Wlan 93). Nothing is assumed of `wlan_init`: when it has failed,
`flg_wifi_init` may stay set for ever, so `WifiStops` is about `chip`.

*Fairness of `threads`.* Weak fairness for every thread in the middle of sending,
and for the receiving threads: the scheduler runs what can go on. Nothing is
assumed of the application, the heartbeat's sleep or the network.

*Findings.*

1. `ntyUdpCreate` returns 0 when no data account is found (Network 364).
   `ConnectProc` takes that for "Connect Success" (ClientDev 1163): `sendProc`
   repeats the login on handle 0 every 15 seconds, and the client never tries to
   connect again until it is switched off.
2. `ntyU8ArrayToU64` (Utils 721) shifts bytes as 32-bit ints. A friend whose id
   needs more than 31 bits is acknowledged and answered under another id.
3. The loop whose comment says "Set the rssi of the Same MAC Item to -120" (Wlan
   144) also swaps entries, and an entry that comes to its place in the middle of
   a pass is not compared with those already passed: two entries of one MAC can
   keep their signals and both enter the list.
4. The branch "first gps" (Location 159), which asks the cells for a position GPS
   can start from, needs the level `FREE`; every request begins with a scan,
   which sets it to `CELL` (140), so the first GPS request never takes it.

More facts the models state as the code has them, no document saying
otherwise: a settings file that *was* read is dropped for the compiled numbers
(`len == -1`, Utils 985), so a number set by a friend is lost at every restart; a
number of 20 characters or more runs into the next slot and the contacts
(UserDataProtocol 127); the length of a message to the task itself is a byte (Main
150) while a packet's "CONTENT COUNT" has two (ClientDev 476), so the text of a
packet with 247 bytes or more reaches its handler cut, and with some lengths its
id as well; threads that send at once can send a torn frame, each other's frame,
or a whole acknowledgement with a number nobody is waiting for: a request's number
is written into the shared buffer without a lock (Network 522), also between the
copy of an acknowledgement and its checksum (which is why `AloneSendsItsOwn` is
about calls that no other overlaps; the watch itself has one task and cannot meet
this); a Wi-Fi chip whose start failed counts as on and is not
started again (Wlan 93, 280); and a failure of `SOC_NBIO` closes an uninitialised
handle and leaves the socket open (Network 400), which is why `OneSocket` has
that premise; every lookup takes a new socket, and one that was not closed by
the server is lost (Http 351), which is why `AnswersLast` has to hold with older
sockets open; a list counts as looked up before the lookup is made (Location
124), so a lookup that fails is not repeated until the watch moves; the
coordinates of an answer keep the tail of longer ones before them (Http 160);
two calls of `ntySetDevId` in haste start two heartbeat loops (ProtoClient 186);
a call to a number of more than 11 characters is handed on without its closing
zero (Utils 397); `ntyFriendsTreeIsExist` answers the opposite of its comment
(RBTree 633), and nothing calls it.

## 4. Proofs

`NattyDev_proofs` proves, from the assumptions `NetworkAssumption`,
`ConfigAssumption` and `DevAssumption` on the constants and nothing else:

* `TypeCorrect`: `Spec => []TypeOK`.
* `NeverSilentAlways`, `OneRetryChainAlways`, `OneSocketAlways`,
  `SessionOrderAlways`, `HeartbeatKeptAlways`: the session properties of run
  `session`.
* `Implementation`: `Spec => ImplementsSession`, the refinement of `WatchSession`.

The session invariants are not inductive one by one. A login answer that comes
when the level is `DATAPACKET` takes it back to `TIMECHECK`, where `sendProc`'s
timer may have been spent; that the watch does not fall silent then depends on
the heartbeat, which runs at `DATAPACKET`. So `TimersOfLevel` names the timers
each level relies on. That the answer to a time check cannot come before the
login depends on what is in the network (`SessionOrder`), which depends on
there being no socket left from before (`OneSocket`), which depends on
`ConnectProc` never running beside an open one (`OneRetryChain`), and all of it
on a watch that is off having nothing (`OffIsEmpty`). `CoreInv` is their
conjunction and is inductive together with the types. `ConnectProcCore` is the
central lemma: whichever of its three callers runs `ConnectProc`, nothing else
is pending and no socket is in use. The refinement uses the same invariant:
each handler that changes level, socket, power or heartbeat is one step of the
session, every other one stutters.

The type proof has its own lemmas for what the handlers call (`SendProcType`,
`ConnectProcType`, `StoreType`, `SetFamilyType`); `friends` is typed by its
domain, as a list may bring any id.

`NattyLocation_proofs` proves, from `GpsAssumption`, `HttpAssumption`,
`ScanAssumption` and `LocationAssumption` (the position and buffer values are
told apart), for any set of scans and sockets:

* `LocationTyped`: `Spec => []TypeOK`.
* `GpsScheduledAlways`, `RequestIntactAlways`, `AnswersLastAlways`,
  `NoStaleLookupAlways`: the properties of run `locate`.

The invariant `LocInv` has three parts. The types; the GPS schedule, for which
every function of `NattyGPS` has a lemma (`Resumable` is what a tick must leave
behind, since it starts its timer again); and HTTP, where `RequestIntact` is
joined by `OwnAnswer`: the connected socket in use owes an answer to `lastAsked`
or none. `AnswersLast` follows from that and from notifications reaching HTTP
only for the socket in use.

`NoStaleLookupAlways` needs one more fact, `Known`: between handlers the list of
the last scan would not be looked up, because either it was judged so or it has
become the list last looked up; and a list is never new to itself
(`SameWithItself`). That what the scan's loops leave is a list at all is
`ListLength`; of a scan it is assumed only that it is a sequence of access points.

Of packets, `NattyDev_proofs` proves from the same assumptions (with
`LongSize = WordSize * WordSize`, a long being two words):

* `AckFirstAlways`, `RepliesAnswerPacketsAlways`, `NumbersHaveASourceAlways`:
  the properties of run `packets`, for texts and numbers of every length. Of a text
  that was cut only `First` says what it means, which is assumed to be a text again.
  Where a length has cut an id, anything may have been read in its place; so what
  is said of values, of numbers and of the id in the queue has the premise `IdsWhole`.

The invariant `PacketInv` relates every queued message to a member of `received`
(`HasSource`): a reply is sent handlers after its packet was taken, so nothing
about what is in the network is inductive without what is in the queue. `Sound`
is that, with the order of acknowledgement and data, of any sequence of messages;
`TailSound`, `AppendSound` and `PacketSound` say that taking a message, queueing
one and queueing a packet's two keep it. `ConvertTwice` is why acknowledgement
and reply, for which an id is converted a different number of times, agree:
`ntyU8ArrayToU64` of an id it has already changed is the same id.

`NattyProto_proofs` proves, from `ProtoAssumption`, for any number of calls,
packets and arrivals:

* `OneHeartbeatAlways`: its invariant `OneLoop` says that without haste at most
  one thread is starting, at most one is in its loop, the flag is set then, and
  none is about to set it.
* `AloneSendsItsOwnAlways`: the invariant `SendInv` follows a thread from step to
  step of its call. As long as no other was inside (`Sent`), the words and the length
  in the shared object are its own as far as it has come; whoever enters while it
  is inside puts both among the overlapped (`TwoOverlap`), so the steps of
  other threads need not be followed at all. Nothing about `busy` is needed: the
  theorem holds although the flag excludes nobody.
* `ShownIsAcknowledgedAlways`: with one receiving thread, from the moment it has
  taken a packet until it has shown it, its frame is the acknowledgement of what
  is in the receive buffer (`AnswersPacket`). That it has left needs the flag: a
  busy network has a thread inside (`BusyInside`), so a receiver that is refused
  was overlapped, and one that was not has gone through (`HasLeft`).

`NattyRBTree_proofs` proves, from `TreeAssumption` (the blocks are numbers other
than the sentinel, the keys are natural numbers), for every set of blocks, keys
and values:

* `InductiveInvariant`: `Spec => []IInv`.
* `TreeIsLinked`, `KeysAreOrdered`, `TreeIsBalanced`: `WellLinked`, `SearchOrder`
  and `RedBlack`, after every iteration of every loop.
* `LoopsClimb`: the action property `FixupClimbs`, which is why both loops end.
* `TreeIsMap`: the refinement of `FriendsMap`.
* `ReadingsAreComplete`: `ListFits`, what each reading of the whole tree gives.  Its
  premise is that `count`, 16 bits wide in the code (`NattyRBTree.h:70`), is wide
  enough for the friends there are; past that it wraps, and the list is too short.

The properties read the tree from its root, by recursive functions, and none is
inductive. `IInv` says the same with two witnesses, `\E d, h : Work(d, h)`: `d[x]`
is the set of nodes below `x`, `h[x]` the number of black nodes on each path down
from it. With `d` "a tree" is a fact about each node and its two children
(`Shape`), and induction over the nodes is well-founded induction over the sets
`d[x]` (`TreeInduction`). `Sound` is the balance but for one thing that is left
to do: in an insertion a red node whose parent may be red, in a deletion a link
that counts twice. `Work` says which it is for each value of `pc`.

Every piece of code is a lemma about a tree `t` and the tree `u` it leaves:
`RotateShape` and `RotateBalanced` for a rotation, `LinkKeeps` and `UnlinkKeeps`
for the two operations, `RecolourKeeps`, `InnerKeeps` and `OuterKeeps` for the
cases of an insertion's loop, `RedSibling`, `RedNear`, `BlackNephews` and `RedFar`
for those of a deletion's, `BlackenKeeps` for the line after both. `BelowReads`,
`HeightReads` and `SearchFinds` say that the recursive functions of the model are
`d`, `h` and the node with the key. That a loop climbs is a statement about the
sets of nodes above one (`Above`), of which a rotation below takes none away. The
refinement follows from `Added` and `Removed`, what an operation does to the
entries: `ntyRBTreeDelete` copies the successor's entry into the node it was
asked to delete and takes the successor's block, so that the entry is gone is not
a fact about one block.

`ListFits` is about the sequences the traversals write, and about `count`, which
`IInv` does not mention. `CountInv` says that `count` is the number of blocks in the
tree; `CountFits`, the premise, that it has not wrapped. A traversal is a recursive
function, and `TraversalExists` shows by `TreeInduction` that it has a value and
what that is: `Lists`, each node below once; for the order by keys also `Rising`; for
the release also `ChildrenFirst`, no block is released before those below it. The
levels are a recursion over natural numbers, `Level`; `LevelReads` says that a
level is the set of nodes with that many above them, `LevelsFew` that there are at
most twice as many as black nodes on a path, `LevelOrderReads` that the printing ends
with the last one that is not empty.

`NattyInputs_proofs` proves, for the scan, from `ScanAssumption` and `HeardAssumption`
(no signal is weaker than -120, the value that stands for "not to be used"), for
scans of every length:

* `StrongestFirstAlways`, `UsableKeptAlways`, `SameNotSentAlways`: the properties of
  run `algorithms` that are about the scan.

A scan is of any length, so these are inductions over its places, by the least
place that is a counterexample (`LeastNatural`, `Upwards`). `PassSteps` and
`OrderSteps` turn the two recursive functions into sequences of scans, one for
each iteration; what a comparison keeps is a set of scans, and both loops stay in
it (`PassKeeps`, `OrderKeeps`). `PassSorts` is the inner loop's invariant: it
brings the strongest of the places from `i` on to place `i` and makes none of them
stronger than the strongest was, which is why marking and sorting in one loop do
not disturb what was sorted before. For `UsableKept` the set is that of the
arrangements of one set of access points. `TakenFrom` says what the list is.

It proves of the clock, the search, the frames and the checksum, from
`InputsAssumption` (an offset from Greenwich is a day at most; a pattern is not empty
and next has room for it; no letter is the zero that ends a text; contents fit into the
network's buffer; a byte has eight bits):

* `LocalTimeIsRight`: `LocalTimeRight`, on every day and not only on those of 32 bits.
* `SearchIsComplete`: `KmpFindsAll`, for every pattern and every text.
* `FramesAreRead`: `FramesReadBack`, for every length of content.
* `ChecksumIsRemainder`: `CrcIsRemainder`, for messages of every length and all bytes.

*The calendar.* `ntyLocalTime` guesses a year of 365 days each and corrects the guess
until the day lies in the year. `DaysBefore` counts the days before a year; a
correction (`Guess`) keeps the day that year and day of the year stand for, and
`GuessNears` says that it comes nearer, because between two years there is at most one
leap year in four (`LeapsBetween`). So the loop ends, and there is one year it can end
with (`DayIsOne`, `YearIsFound`). `CivilDate` adds month, day and weekday. The other
side is the reference, which knows tomorrow's date and no more: `TomorrowIsDate` says
that tomorrow's date has tomorrow's number.

*The search.* A border of a place is the length of a text that ends before it and
starts the pattern. `LongestFollows` says that following the table from one place's
longest border finds the next one's; since `ntyBuildNext` skips borders that would
fail with the same letter, `NextOf` is the longest border behind which another letter
stands, and `Landing` is where following those ends. With that `BuiltIs` says what is
in each entry of the table, the entry behind the end among them, which the search
goes on from after a match. The search itself is always `Aligned`: the text before its
place is the start of the pattern. `MoveRight` says that no move passes over an
occurrence, `MoveNears` that each brings the end nearer, and `SearchRight` puts them
together.

*The frames.* `Has` says that a field is found whole at an offset. `PutIs` and
`PutKeeps` say what a copy writes and that it leaves every field beside it alone,
`SentIs` what sending does to a frame. `HeadedKept` carries the header through each
sender, and what is left of each frame is one comparison of offsets.

*The checksum.* A word or a message is a polynomial, the set of its exponents;
`At(p, n)` is `p` times the power `n`, and adding is exclusive or. `RoundDivides` says
that a round of the table's generator is one step of the division, `ByteDivides` that
eight of them are one byte of the loop, because shifting, adding and dividing commute
(the table's entry does not depend on the three bytes below). The invariant is
`ChecksumDivides`: what the division has left after 8i steps is the register after i
bytes, moved up, with the bytes to come.

`ConfStore_proofs` proves, from `StoreAssumption` (both compiled numbers are there,
and every number fits its place), for every set of numbers and every length of the
read:

* `ReadsBackAlways`: `ReadsBack`, of run `store`.

What is read back needs an invariant of its own, `KeptInv`: the buffer has the text of
the settings in memory while a save is under way, and the file that of the settings
committed last when none is. The rest is about one text. `Pieces` names the last piece
of a text apart from those before it; a character more grows it (`PieceGrows`) or
closes it (`PieceCloses`), so a line more is parsed after all the others, whatever they
are (`LineParsed`). `NumberParsed` and `FlagParsed` say what one line sets, and
`OrganizationParsed` carries `ReadSoFar`, the numbers of the first k places, through
the 22 places in the order in which they are written. That no flag but zero is ever
saved is part of the invariant, because a flag's digit is read as one character.

*Only model-checked:* `ComesOnline`, `GpsStops`, `WifiStops`, `BusyReleased`
(liveness is beyond the prover), `CutReadsBack`, and `CommandAccepted`, `RequestReadsBack` and
`AnswerTaken`, as the text of the start command needs the exclusive or of numbers, which
the prover's back ends do not take, and that module is used by the other two.

## 5. Not modelled

* `NattyCell.c`: reached from the branch of finding 4 only.
* `ssl/`: vendored OpenSSL, called by nothing.
* Code that is compiled out: the receiving end of the P2P frames (ClientDev
  808-979; the frames they would be answered with are in `NattyFrames`), the
  parsers of GGA and RMC sentences but for the fix they report, the variants for
  other bearers, the resend of unconfirmed frames.
* Code that nothing calls: `ntyOnAckTimeOut`, `ntyGetGsmNetworkStatus`,
  `test_buf`, the readers of ICCID and IMSI, the volume, `ntySendLogout`, the
  destructors, the callback for network activation, which is never registered.
* `ntyDevId`, the id as text, which is made at boot and never sent.
* `New` and `Delete`: their effect, zeroed objects, is in each `Init`.
* Display, keypad, LED and sensors are platform code. The battery and signal
  levels are numbers the platform gives; the model has the question, not the
  number.
* A socket number that HTTP has closed and still holds when the UDP network is
  given it next (Http 213): it needs an HTTP connection closed before the network
  has its socket, and who owns a number is the platform's, of which these sources
  say nothing.

## 6. Plan

1. (done) `NattyNetwork`, `WatchConfig`, `NattyDev`, `WatchSession` and the proofs
   of the session.
2. (done) `NattyRBTree`, refining `FriendsMap`.
3. (done) `WlanScan`, `NattyGPS`, `NattyHttp`, `NattyLocation` and the proofs of
   its invariants.
4. (done) `ConfStore`, `NattyText`, `NattyHttpText`, `NattyFrames`, `NattyProto`,
   the call hooks, and the proofs of the packets, of `NoStaleLookup` and of the
   threads.
5. (done) The proofs of the tree and of the scan.
6. (done) The proofs of `ListFits`, of the calendar, of the search, of the frames and
   of the checksum, for which `NattyText` and `NattyFrames` were written with recursive
   functions only and the start command moved to `NattyGPSText`.
7. (done) The proof of `ReadsBack`, for which `ConfStore` was written with recursive
   functions only.
8. (done) The byte-sized length of the queue's messages, numbers longer than their
   place, a chip that did not start, requests sent in part, the sending of a frame
   in single accesses, and the cuts of the settings file.
9. Left: a proof of `CutReadsBack`, along the lines of `ReadsBack`'s, with one line
   that is not whole.
