# A TLA+ verification of the Projet-Reseau chat peer

The program is one peer of a peer-to-peer chat over UDP, written in C for a
network course (`main.c`, `tlv.c`, `abr.c`, `list.c`, `genlist.c`, `util.c`,
`net_lib.c`, `websocket.c`).  Peers discover each other with *hello* messages,
announce their neighbours, and flood every line of chat reliably: each peer
sends a datum again to each symmetric neighbour until it is acknowledged or the
neighbour is given up.  This directory holds TLA+ models of the peer, of several
peers over a network and of the process that serves the web page, the TLC
configurations that check them on small instances, and TLAPS proofs that hold
for every value of the constants.  `PROJECT.json` maps every definition to the
lines it models and lists the runs, their mutants, the hazards and the theorems.

## 1. Inventory

| Component | State | Operations | Talks to |
|---|---|---|---|
| Neighbour tables (`abr.c`, handlers in `tlv.c`) | `NEIGHBORS`, `POTENTIAL`: address -> identifier and dates of the last hello and last long hello | `hello`, `neighbour`, `goaway`, expiry after 2 minutes, `issymmetrical` | flooding points into its nodes; output buffers hang on its nodes |
| Binary search tree (`abr.c`) | nodes of the two tables | insert, look up, remove, in-order list | implements the tables |
| Reliable flooding (`list.c`, `util.c`) | `DATAF`: the last 100 data, each with the neighbours that have not acknowledged it, sorted by date of the next transmission | `add_message_to_flood`, `ack`, the pass `flood_messages`, `handle_inactive`, `remove_neighbor_everywhere` | reads the tables, removes from them, fills the buffers, sets `NEXTTIME` |
| Generic list (`genlist.c`) | linked lists with a comparison | `addLast`, `add_elem`, `remove_elem`, `add_limited`, `get` | carries flooding and the results of `find_by` |
| Output aggregation (`net_lib.c`) | one message buffer per neighbour | `send_message` (append, flush when full), `send_message_now`, `send_to_everyone(_now)` | the socket |
| TLV parser (`handle_message_h`) | position in a received body | header checks, TLV by TLV | calls the handlers |
| Main loop (`main.c`) | `NEXTTIME`, `NEXTHELLO`, `NB_SYMETRICAL` | `select`, receive, user line, hello round, flooding pass, flush; `disconnect` on SIGINT | everything above |
| Network of peers (`main.c`, `net_lib.c`, `tlv.c` of every peer) | the tables and data of all peers, datagrams under way | first hello, handshake to symmetry, restart, goodbye, flooding from peer to peer | UDP |
| Web interface (`websocket.c`, a second process) | two pipes and a web socket | `handle_gui`, `callback_chat`; `print_on_screen` and the reading of lines on the peer's side | the loop, through the pipes |
| Large data (`write_big_data`, `bigdata`) | `BIGDATA` | none is called | - |

The peer has one thread.  What is hard is not threads but *order*: TLVs of any
peer arrive in any order, duplicated or not at all, between any two timers;
removals happen while lists that point to the removed thing are being walked;
dates are compared in 16 bits; `select` may return late; SIGINT runs
`disconnect` in the middle of the loop; counts and deadlines are computed early
in a turn and used late.  Between peers, datagrams are lost, repeated and
overtaken, and a process may be replaced by another on the same address.  The
interface is a second process: reads cut and join what was written, pipes fill
up, and either side may die.  `PROJECT.json` lists these hazards line by line.

What makes each component correct:

* **tables**: an address is in one table at most; symmetric means that a long
  hello naming us came within two minutes; nobody is forgotten without cause;
* **tree**: it acts as a table, and removing one node never moves another, since
  flood entries point into nodes;
* **flooding**: no entry points to a removed neighbour; every datum is there
  once and every neighbour once per datum; an acknowledged datum is never
  queued again for that neighbour; the pass ends, misses nothing due and never
  follows a freed pointer; giving up takes its time;
* **buffers**: a datagram fits the PMTU, announces its length, and nothing in
  the buffer of a neighbour that stays is lost or overtaken;
* **parser**: it ends, reads a bounded number of bytes too far at most, and
  handles well-formed bodies exactly;
* **loop**: deadlines are kept although they are recomputed in every turn; a
  silent neighbour goes; a count is still right when it is used; SIGINT says
  goodbye to everyone;
* **network**: peers that hear of each other become symmetric and stay so; one
  that is gone is forgotten by all; a line is shown at most once, and to
  everybody unless somebody is given up; flooding ends;
* **interface**: what is typed is what is transmitted, neither process waits for
  ever for the other, and the peer ends with its interface.  The code secures the
  first only for short lines and the second only while a page reads; section 3
  says where the properties stop.

## 2. Modules

| Module | Models | Composition |
|---|---|---|
| `Tables` | the two tables as partial functions, their handlers, the clock | |
| `Abr` (`MCAbr`) | the search tree pointer by pointer, in a heap of blocks | refers to `Tables` for what a table does |
| `FloodList` | `DATAF`, its lists as sequences, the pass entry by entry | |
| `Outbox` (`MCOutbox`) | the buffers and what leaves in each step | |
| `TlvParser` | `handle_message_h` over arbitrary bytes | |
| `Peer` (`MCPeer`) | the main loop, the handlers, SIGINT | instances of `Tables`, `FloodList`, `Outbox` |
| `Handshake` (`MCHandshake`) | the tables of several peers, hello rounds, starts, crashes, goodbyes, the network | operators of `Tables` |
| `Chat` (`MCChat`) | data and acknowledgements between several peers | implements `Broadcast` |
| `Broadcast` | what the chat promises its users | |
| `Gui` (`MCGui`) | the peer and the web server joined by two pipes | |
| `Tables_proofs`, `FloodList_proofs`, `Outbox_proofs`, `Handshake_proofs`, `Chat_proofs`, `Gui_proofs` | TLAPS proofs | extend the module they are about |
| `Sequential_proofs` | TLAPS proofs | extends `TlvParser` and `Abr`, which have nothing to do with each other |
| `Peer_proofs` | TLAPS proofs | instances of the proofs of `Tables`, `FloodList` and `Outbox` |

Names follow the source.  Definitions whose comment starts with *Mutant* are
faulty variants: replacing the original by one must make a property fail.

**Tables.**  `hello(peer, source, dest)` is the whole handler: the test of the
destination, `add_neighbor` (which overwrites both dates but keeps the old
identifier) and the removal from `POTENTIAL`.  `heard` is a history variable.
The clock is `CLOCK_MONOTONIC` in seconds; `Uptime` is its value when the
process starts, which matters because an absent date is 0.

**FloodList.**  An entry's pointer to a neighbour is its address, valid while the
address is in `live`.  `compare_n_s` returns a C `short`, so the difference of
dates is taken modulo 2^16 (`Short`); `add_elem`, `remove_elem` and the pass
use it exactly as the code does, including the key of date 0 that
`remove_neighbor_from_flood` searches with.  The pass is one step per visited
entry with `tmp`, the entry fetched before the current one is freed or moved.
`wait_time` gives the set of delays that `rand_a_b` may draw.

**Outbox.**  `send_message` takes a function from neighbours to messages, which
covers single sends, `send_to_everyone` and `send_hello_everyone`.  `sent` is
what the last step gave to `sendto`.

**Peer.**  `pc` is the point the loop has reached.  A received datagram is a
sequence of handler steps; each is the conjunction of what the handler does to
the tables, the list and the buffers.  Computation takes no time on the clock
of seconds; only `select` waits (`Wait`), until its deadline or up to `MaxDelay`
later.  `Disconnect` is possible between any two steps.  `Transmit` models the
signed reading of the TLV's length in `send_data`, which ends in `crash` when
it is negative.

**TlvParser.**  The body is an arbitrary array with two bytes behind the longest
body, because the struct is static and those bytes hold older data.  `reach` and
`handled` are histories of the bytes read and the TLVs handed over.

**Abr.**  A tree is a pointer to its root and the nodes in the heap, by block: the
state the C code has, in which a node can be shared, lost or pointed to after it
was freed.  Each function of `abr.c` recurs along one chain of pointers: a lookup,
an insertion and a removal along the nodes that `compare_n` leads to (`Search`,
`Path`), `remove_min` along left pointers (`Left`).  `Chain` is the least set of
blocks that holds the first and with each block the next, which says where the
recursion goes without being recursive; `Place` is where it stops.  `Joined` and
`Promoted` assign the pointers that a removal relinks.  `T` instantiates `Tables` so
that insertion and removal, seen through lookups (`Table`), are compared with the
operators the other modules rely on.

**Handshake.**  Each peer has the two tables of `Tables`, with dates relative to
the present and counted in hello rounds.  A step is what a peer does for one
datagram or one hello round, with the flush at the end of that turn: `Handle` is
hello, neighbours or goaway, and the long hellos to everyone when the sender is
new; `Round` is the whole hello round in the order of `main.c`.  A process is
named by its address and by how often it was started, since every start draws a
new identifier and forgets the tables.  A goaway for a neighbour that is removed
as silent is not sent, as run `peer_goaway` shows of the loop.  A process may start at any point of an
interval, and holds its first round at once.  The network may let a datagram
overtake others (`Window`), lose it or deliver it twice (`MaxFaults` times in all);
it does not keep one for more than a round.

**Chat.**  Peers start as symmetric neighbours along `Links`, which may lead from a
peer to itself: announcements make a peer greet itself.  `net` holds all that was
ever sent, so a datagram may arrive never, late or many times.  Timers are left
out: transmissions and giving up come at any time, which covers every speed of
the network.  A neighbour that was given up does not come back, and its goaway is
not sent, for the buffer it is in is freed.  All data fit into `DATAF` (as many
lines as `NBDATA`), so none is evicted.  An index is the seed of `rand()` and the
number of draws before it: peers started in the same second can give two lines
the same one (`Clash`).

**Broadcast** is the abstract specification: a line is typed once, shown at most
once by every peer, and in the end by all unless the history says `cut`.

**Gui.**  Bytes are opaque and numbered, so that the order and the loss of each can
be stated.  The two writes of `print_on_screen` are two steps of the peer; the
callbacks of the server are one step each, the write of a submitted line another.
A write waits when the pipe is full.  `Cleaned` is what `main` makes of what it
read: a final zero goes, and when nothing is left the byte before the array is
looked at, so the length is 0 or -1; `tlv_data` then copies an array of zeros past
the end of `msg_to_send`, which may end the process.  `Datum` cuts the text where
the length byte says it ends.  `Transmit` takes any number of the data that wait
and is `send_data` for each: the length byte is read as signed (`BodyLength`), a
negative size is the end of the peer, and sizes 0 and 1 leave nothing of the text
(`Body`).  `handed` holds the texts of which a message was made, `sent` what left
of each.  To write to a pipe whose reader is dead ends the peer (`SIGPIPE`), while
the server goes on after a failed write, since libwebsockets has the signal
ignored.

## 3. Runs

Passing runs:

| Run | Instance | Shows |
|---|---|---|
| `tables` | 2 addresses, 3 identifiers, `OldAge` 2, the clock from 1 to 6 | tables disjoint, symmetric means heard of in time once the machine is up for `OldAge` |
| `abr` | all trees over 4 addresses, 2 identifiers, 5 interchangeable blocks | ordered and complete, insertion and removal act as on a table, nodes never move |
| `flood` | 3 neighbours, 3 data of which 2 are kept, 2 transmissions, 3 seconds | no dangling pointer, no duplicate, nothing reflooded, sorted lists, every pass ends and leaves nothing due behind, cursor valid, no hasty giving up |
| `outbox` | 2 addresses, short and long TLVs around a PMTU of 50 | datagrams fit and are not empty, nothing lost |
| `peer` | 2 neighbours, 1 datum, 3 inputs, 6 seconds (three hello rounds) | the loop implements `Tables`, `FloodList` and `Outbox`; deadlines, expiry, counts, one buffer per neighbour, goodbye to all on SIGINT |
| `parser` | every body of up to 4 bytes over 4 byte values, with every header | termination, bounded overrun, exact handling of well-formed bodies |
| `handshake` | 2 peers, one of which stops at any time and comes back once at any time; one datagram lost, repeated or overtaking another | symmetric only if the other heard of the current process; the meeting succeeds; the dead are forgotten |
| `handshake_three` | 3 peers that know a common contact | all become symmetric for all, and stay so |
| `chat` | a chain of 3 peers, the first linked to itself, the first two started in the same second, a line of each, 2 transmissions | acknowledgements taken for what they are; the chat implements `Broadcast`; flooding ends |
| `gui` | lines of 1, 2 and 3 bytes typed and one of 5 received, length bytes of 6 values, a header of 1, pipes of 5 bytes, either process may die | what leaves of what was typed; all of it is handed on in the end; what the page can lose; when the peer does not come back from a write; the peer ends with the server |

Runs that find a disagreement with what the repository says of itself:

| Run | Finding |
|---|---|
| `peer_goaway` | the goaway for a silent neighbour goes into the buffer that the removal then frees, so it is never sent ("envoyer goaway puis suppression") |
| `peer_long_data` | a datum with a length field of 128 or more is accepted and queued but cannot be sent: `send_data` reads the length as a signed byte and calls `memcpy` with a negative size (254 and 255 give an empty message instead, see `SentIsTyped`) |

**Where the properties stop.**  Some properties hold under a hypothesis that the
code does not secure; each hypothesis is in the property, in a constant of the
run or in the theorem:

* *the first two minutes of uptime* (`now < OldAge` in `SymmetricWasHeard`):
  `issymmetrical` takes the date 0 of an absent long hello for a recent one
  (`abr.c:109`).  Run `tables` starts with the clock at 1, and fails without this
  exception.  `Handshake` takes machines that have been up for two minutes;
* *no entry dated a multiple of 2^16* (`[]NoZeroDate`; the machine has been up for a
  multiple of 18.2 hours at that second): `remove_neighbor_from_flood` looks for an
  entry with a key of date 0, and 16 bits of such a date are 0 too, so that another
  neighbour's entry is removed (`list.c:105`).  With a clock from 65533 to 65536
  `NoDangling` fails.  What is proved holds up to the first such entry, however
  long the process has been running; a process that lives between two multiples
  never meets one (`FloodNoZeroDate`);
* *no entry overdue by more than 2^15 seconds less one delay* (`[]Prompt`; 9 hours):
  otherwise the difference of two dates changes its sign as a `short`.  Of
  `FloodList` alone this is a hypothesis, because nothing there makes a pass come,
  and it is proved for a process of 9 hours (`FloodPrompt`).  Of the whole loop it
  is proved for any length of time: a hello round every 30 seconds is a
  pass, and all that is asked is `ShortRounds`, that a round, the delay of
  `select` and the longest delay of a transmission take less than 2^15 seconds
  together;
* *short lines* (`MessagesFit` in `Peer_proofs`, the cases of `SentIsTyped`): lengths
  from 128 to 253, that is, reads of 115 to 240 bytes, end in `crash` before
  anything is sent (run `peer_long_data`).  Read as signed, 254 and 255 are -2 and
  -1, so that `send_data` makes an empty message or one of a single byte of them,
  while the peer lives on and sends what follows.  242 bytes is what the peer reads
  of any longer line, so this is what becomes of its beginning.  `SentIsTyped` says
  for each length what leaves; `PeerDatagramFits` and `PeerOutboxRefined` leave these
  two lengths out;
* *room for all lines* (`RoomForAll` in `Chat_proofs`, `NBDATA` in `MCChat.cfg`): a datum
  that was evicted is new again when a late copy of it comes;
* *no trace of an earlier process* (`Traces` in `MeetingSucceeds`): after a restart
  on the same address the neighbours keep the old identifier (`abr.c:57`), name
  it in their long hellos and are ignored until they forget it;
* *no two lines with one index* (`Clash` in the properties of `Chat`): two peers
  started in the same second have the same identifier and nonces (`main.c:29`),
  and each takes the other's line for one that it has;
* *an identifier of its own for every start* (`IdOf` in `Handshake`): `rand()` is
  seeded in seconds (`main.c:29`), so two starts in one second share it;
* *an index of its own for every line typed* (the guard of `add_message_to_flood`):
  `main` does not look whether a datum with the nonce it drew is kept already
  (`main.c:96`), as `data` does for a datum received;
* *a page that reads* (`PeerReturns` and `TypedIsSent`): the peer stops in `write`, and
  sends no hello any more, in exactly two states.  The pipe is full and no page is
  open, so nobody empties it (`util.c:155`), or the server waits in its own `write`
  for the peer (`websocket.c:86`).  The code has no defence against either, and
  main.c:129 asks for hellos "toutes les 30s".  The pipes of run `gui` are small
  enough that both happen, and the properties name them as the only exceptions.

**Bounds.**  `MaxTime` stops the clock, `MaxInput` bounds the TLVs and lines that
are received, `MaxDelay` how late `select` returns, `MaxBody` the length of a
body, `MaxGen` how often a peer is started, `MaxFaults` the datagrams lost,
repeated or overtaking others in `Handshake` (its peers have no other limit of time),
`Window` how many a datagram may overtake.  The real constants (120 s, 30 s, 5 transmissions, 100 data,
PMTU 1232, length bytes of 256 values, pipes of 64 KiB) are scaled down so that each
limit is reached in a few steps: data are evicted, buffers and pipes fill up,
length bytes are read as negative, neighbours expire and are given up.  Three
neighbours let an entry be inserted between two others.  Several behaviours per
address cover any number of remote peers in the runs of one peer: nothing is
assumed of what they send.  The runs of `Peer` have one identifier for senders:
the loop copies it and never compares it (`tables` and `abr` have several).

**Fairness.**  `FloodSpec` assumes weak fairness of the pass and `ParserSpec` of the
parser: a single thread that does not block is scheduled eventually.
`Handshake` assumes that, whatever users and the network do, datagrams that are
not lost arrive in the end, hello rounds are held and time passes (`Progress`):
`select` times out and the loop reaches the round.  `Chat` assumes that the
passes of a peer go on while there is something to send, and nothing of the
network.  `Gui` assumes that both processes are scheduled when they can go on;
nothing of the user, of other peers or of when a page is opened.  `Tables`,
`Outbox` and `Peer` are checked for safety only.

## 4. Proofs

All proofs are for arbitrary constants that satisfy the modules' assumptions: any
number of addresses, peers, identifiers and data, lists and pipes of any size, any
`MaxTime`.  The assumptions say what the types of the C variables and the constants of
the headers say (`OldAge`, `TIMEHELLO` and `MaxSent` positive, lengths that are
bytes, distinct markers for "no identifier" and "no destination", finitely many
addresses).  Further hypotheses are written in the theorems, and explained in
section 3.

* `Tables_proofs`: type correctness is inductive by itself.  `Disjoint` is inductive
  with it.  `HelloDates` ties both dates to the clock and to `heard`: they are equal,
  and what was heard, or the long one is zero.  From it follow `OldIsAsymmetric` and
  `SymmetricWasHeard`, where a date of 0 is recent only while the clock is below
  `OldAge`.  `PotentialKept` is an action property.
* `FloodList_proofs`, in three layers.
  *For any dates*: the types, `RecentDistinct`, `NeverReflooded` and
  `NoHastyGiveUp`.  Lemma `DataStep` says what any step may do to `DATAF`: nothing,
  take entries out of lists, requeue the entry just sent, or take in a datum.  It is
  shown for `add_elem` and `remove_elem` wherever their comparison puts or
  finds an entry, so it does not depend on dates.  `Patient` is the invariant for
  giving up: an entry sent n times is of a datum at least 2^(n-1) seconds old and
  dated at least 2^n seconds after the datum came.
  *Under `[]NoZeroDate` and `[]Prompt`*: `OneEntryPerNeighbor`, `NoDangling` and
  `CursorValid`, which are not inductive alone.  A purge takes a neighbour out of a
  list only if `remove_elem`, which stops at the first entry that compares equal
  to the key of date 0, meets that neighbour's entry and no other (lemma
  `Compare`), and out of every list only if `get` leads to every datum
  (`PurgeGood`, from `RecentDistinct`).  `FloodInv` carries all of them; `DatesInv` adds
  where the dates lie (`DatedData`: after the start, no later than one delay from
  now).  No bound on the dates is needed: with the key of date 0 it matters only
  whether a date is 0 on 16 bits (`ShortZero`), and between two entries only that
  their dates are less than 2^15 apart (`ShortExact`).
  `SortedByDate` and `PassedNotDue` hold under the same hypotheses.  `WalkInv` adds to
  `FloodInv` that lists are sorted, and that in the list the pass walks every entry
  before the cursor was sent and is not due (`PassInv`).
* `Outbox_proofs` (single messages fit the PMTU and are not empty): `DatagramFits`
  speaks of what leaves, so the inductive invariant adds `BuffersFit`, that what
  is still in a buffer fits with the header, and that a buffer of length 0 is
  the empty one.  A full buffer then cannot be empty, because a single message
  fits.  `NothingLost` follows step by step.
* `Peer_proofs`.  `TablesRefined`, `FloodRefined` and `OutboxRefined` are proved step by
  step, one case per action of the loop.  What they need is `LoopInv`: a buffer
  exists for exactly the neighbours (`BufferPerNeighbor`), a pass is under way and
  a walk has something left only at the control points where the code is in one.
  That no handler changes `DATAF` inside a pass is what `FloodRefined` shows.  Through
  the refinements the loop inherits the theorems on the components
  (`TablesInherited`, `FloodTypesInherited`, and `PeerDatagramFits` for the datagrams
  of the whole program).  On them rest the properties of the loop itself:
  `CountStillRight` (neighbours removed after the count are old, and
  `OldIsAsymmetric` says that old ones were not counted); `SilentGone` (`ClockInv`: up
  to the round the clock is past `NEXTHELLO` by the delay of `select` at most;
  `SilenceInv`: a neighbour is among those still to be removed in this round, or
  the next round comes in time); `FirstTransmissionOnTime` and
  `RetransmissionBeforeHello` (`AllPunctual`: while the loop waits, the deadline
  is no later than the date of an entry not sent yet, and the next hello round
  comes within `TIMEHELLO` of any date; `PassedInv`: what the pass left behind is not
  due, and `NEXTTIME` is no later than its date if it was not sent yet).  These two
  and the order of the lists hold each other up: a pass leaves nothing due behind
  because the lists are sorted, and they stay sorted because no entry gets hours
  late.  `PunctualInvariant` is therefore one induction over `WalkInv`, `Prompt`,
  `AllPunctual` and `PassedInv`, where a step may use that all four held before; it also
  gives `PeerListsSound`, the soundness of the lists for a process that runs for
  weeks.  Then `GoodbyeToAll`
  (`Farewell`: what `disconnect` appends to every buffer, full or not, leaves with
  it).  `PeerTypeCorrect` uses `PeerTypeOK`, the types of the control state, which is
  defined beside its proof: the runs check the types through the refinements.
* `Sequential_proofs`, the parser: the type invariant and `OverrunAtMostTwo` are inductive.
  `WellFormedHandled` compares with a cut of the body chosen by `CHOOSE`; the
  inductive invariant `OnCut` says, for *every* set of positions that cuts the
  body into TLVs, that the parser stands on one of them, has read nothing behind
  its position and has handed over exactly the known TLVs before it.  The cut
  being preserved needs only that no position of it lies inside a TLV (`CutStep`).
* `Sequential_proofs`, the tree: `TreeInv` is inductive.  It has three parts: pointers
  lead to nodes of a finite heap (`Typed`), at most one leads to a node and none to the
  root (`OneParent`), and the search for the key of a node finds that node
  (`Searchable`).  `Ordered` cannot serve as it stands, because it says nothing of a
  single search.  What would be induction over the depth of the tree is an instance
  of the definition of `Chain` (`ChainInduction`, and `StrongInduction` where a step
  needs all the blocks before it); that searches end follows from the finite heap by
  the pigeonhole principle (`ChainEnds`).  The work is in `RemovedSearchable`: a search
  that found a node finds it after another, n, is removed.  `PathBack` turns a
  search around: one that meets a node came from its only parent, so what is known
  of a node deep in the branch of n is known of n (`SpineBack`, `SpineKeys`).  Then the
  three shapes of a removal are compared pointer by pointer (`Without`).  From `TreeInv`
  follow `Ordered`, `PointersStable` (keys are distinct and no block changes its
  key) and `ActsAsTable`, so that what the other modules say of tables as partial
  functions holds of the trees.
* `Handshake_proofs`: `SymmetricWasTold` speaks of one table, but what makes a
  neighbour symmetric is a long hello that may have been sent long before, by a
  process that is gone.  The invariant therefore relates the tables (`TablesGood`)
  and all that is under way (`QueuesOf(net, Good)`) to `told`: the identifier of
  the current process of a peer is known only to, and named only by, those that a
  hello of this process has reached, and all identifiers are of processes that
  have started.  Loss, repetition and overtaking bring no new datagram, so they
  keep the invariant; a restart keeps it because the new process has a name that
  no datagram holds.
* `Chat_proofs`: `AckedMeansShown` is inductive with three facts: whoever holds a datum
  shows its line (`HolderShows`), whoever sent an acknowledgement shows the line
  it is for (`SenderShows`), and a neighbour missing from a list shows it
  (`RestShows`), each unless two lines clash.  `ChatImplementsBroadcast` maps every
  step of `Chat` to a step of `Broadcast` or to none; it needs that what is shown is
  still held (`ShownIsHeld`), hence `RoomForAll`.
* `Gui_proofs`: `SentIsTyped` follows from an invariant on bytes (`SentInv`): what was
  handed on, the data waiting in `DATAF`, the pipe and the line the server is writing
  are, one after the other, what was typed, up to what was lost when the peer died;
  an empty line is only in `DATAF` when the peer is about to end (`NoEmptyLine`), and
  no line is longer than `MaxText`.  `FlattenPrefix` carries this from the bytes to
  the texts that were handed on, and `BodyIs` says for each length what `send_data`
  makes of it.  `LostOnlyBetweenWrites` follows from `PageInv`: the pipe to the page
  begins with a zero unless the frame before ended with one, and between the two
  writes of the peer its zero is the last byte.

Of what the passing runs check only liveness stays with TLC: `PassTerminates`,
`ParseEnds`, `MeetingSucceeds`, `Converges`, `GoneForgotten`, `FloodingEnds`,
`TypedIsSent`, `PeerReturns`, `ServerGone` and the fairness part of
`BroadcastImplemented`.  They rest on fairness, which the prover does not handle.

## 5. Not modelled

* large data: `write_big_data` and `bigdata` have no live caller;
* `handle_gui` when the server cannot start: it returns in the parent too, which
  then runs as a second peer; several pages at once; the web page itself,
  `libwebsockets`;
* failing `malloc`, `sendto` or `recvfrom`; SIGINT inside a step of the model
  (in the middle of relinking a node or of `malloc`);
* a datum that is evicted while copies of it are under way and comes back as new;
* what a receiver makes of the rest of a datagram in which a message of length 255
  left a single byte, and more than `NBDATA` lines typed within a second;
* byte layout of TLVs, wording, name resolution;
* the `length` field of generic lists other than where `add_limited` reads it.

## 6. Plan

1. done: `Tables`, `FloodList`, `Outbox`, `Peer`, `TlvParser`, `Abr`, their
   runs, and the proofs of section 4;
2. done: `Handshake`, `Chat` with `Broadcast`, `Gui`;
3. done: the proofs of `Peer`, with the refinements of its components and its
   deadlines, of `Handshake`, `Chat` and `Gui`, the lists of `FloodList` in order, and
   the tree of `Abr`;
4. done: the order of the lists and the deadlines without a limit on the uptime;
5. left to TLC: liveness.  Without room for all lines the chat does not implement
   `Broadcast`, since an evicted line is shown again; what remains, and is proved without
   `RoomForAll`, is `AckedMeansShown` and that nothing is shown that nobody typed.
