# eau2 word count: TLA+ models, checks and proofs

This directory models the repository in TLA+: the key-value store and its network,
the containers and data frames, the reader of words, and the schema-on-read
adapter. TLC checks the models on small instances, and TLAPS proves theorems about
them for all values of their constants: every property that a passing run checks
is proved, some under a condition that section 4 names, but for *AnswerIsStored*,
*ServiceSpec* and those that need fairness. Paths such as `src/network/node.h` are those of the repository.

## 1. The system

eau2 is a key-value store spread over the nodes of a (pseudo-)network, with
data frames as values and a word count as its application. `main` makes one
`PseudoNetwork`, one `Node` thread for each node, and one `WordCount`
application for each node; it runs the applications one after the other.

| Component | State | Operations | Talks to |
|---|---|---|---|
| `Queue<T>` (`utils/queue.h`) | circular array, `size_`, `memory_size_`, `firstIndex_` | `add`, `remove`, `incrementSize`, `clone`, `equals` | used by `MessageQueue` |
| `Lock`, `Thread` (`utils/thread.h`) | mutex and condition variable; a thread | `lock`, `unlock`, `wait`, `notify_all`; `start`, `join` | `MessageQueue`, `Node` |
| `MessageQueue` (`network/pseudo-network.h`) | a `Queue<Message>` and a `Lock` | `push`, `pop` | pushed to by any thread, popped by the node that owns it |
| `PseudoNetwork` (same file) | map from thread ids to nodes, one `MessageQueue` per node | `register_node`, `send_m`, `recv_m` | `Node` |
| messages (`network/message.h`) | kind, sender, target, and key or value | constructors | `Node` |
| `Node` (`network/node.h`) | its store `kv`, `reply_`, `lock_`, the receive loop | `run`, `add`, `get`, `waitAndGet` | applications call it; sends to other nodes |
| `Map<T,U>`, `kvstore` (`utils/map.h`, `kv-store/kv-store.h`) | open-addressing table | `add`, `set`, `get`, `has`, `incrementSize` | node thread and application share one without a lock |
| `JVMap`, `SIMap`, `Items_` (`utils/map.h`), `Array` (`utils/array.h`) | buckets of two arrays, `capacity_`, `size_` | `set`, `grow`, `get`, `erase` | `Adder`, `Summer` |
| `FastArray` (`utils/array.h`) | chunks of `arr_size_` and a table of them | `push_back`, `grow`, `get`, `set` | columns and frames |
| `Column`, `Schema`, `Row`, `DataFrame` (`dataframe/`) | columns, their types, `nrows_`; a row | `add_column`, `add_row`, `set`, `fill_row`, `map` | stored as values |
| `fromArray`, `fromScalar`, `fromVisitor` (`kv-store/kv-store.h`) | the frame that is made | one each | the store, a writer |
| `Value`, `Serializer` (`kv-store/value.h`) | a byte buffer | `encode`, `decode_df` | `kvstore` |
| `FileReader` (`app/wordcounter.h`) | a file, `buf_`, `i_`, `end_` | `visit`, `skipWhitespace_`, `fillBuffer_`, `done` | writer of `fromVisitor` |
| `Adder`, `Summer` (same file) | a map of counts, a place in it | `visit`; `next`, `visit`, `done` | `JVMap`, frames |
| `WordCount`, `main` | the index of the node | `run_`, `local_count`, `reduce`, `merge` | `Node`, frames |
| `Key`, `KeyBuff`, `StrBuff` (`kv-store/key.h`, `utils/string.h`) | name and home; a growing buffer | `get`, `c` | `WordCount` |
| `SoRParser` (`adapter/`) | a stream, a window of rows `cache`, `seenCaches`, the range | `initialize`, `setDataStart`, `setDataSize`, `getColIdx`, `loadCache` | `sor-main` |
| `OptParser`, `Arg` (`adapter/`) | `optIdx`, the last option | `getOpt`, `Arg::parse` | `sor-main`, `main` of eau2 |
| `sor-main` (`adapter/`) | a frame, loop variables | from the command line to the frame | parser, frames |

What is hard in it:

- several threads send to one queue, whose popper sleeps on a condition variable;
- a caller of `get` sleeps on another condition variable, without holding the
  mutex and without testing what it waits for;
- one `reply_` per node for all calls and all answers;
- a receive loop that waits for a key and serves nothing meanwhile;
- a store that two threads use with nothing between them;
- growth: of the circular queue when its head has moved, of the hash table when
  its keys are not in the first slots;
- buffers that are refilled in the middle of a word, and positions that a refill moves;
- a window that slides over a file in steps, found again by the positions where
  earlier ones began, and a range that clips it;
- chunks, buckets and their growth, and what an erased key leaves behind;
- types inferred from a sample and trusted for the rest of the file;
- pointers kept into strings that the next call replaces;
- `assert` decides behaviour: `Queue::remove` asserts the opposite of what it
  needs, and the Makefile builds with assertions, so that the program as built
  aborts at the first message it receives. The models therefore cover both
  builds: a variable `asserts`, chosen at the start, says whether `assert()` is
  compiled in. What the code does after that first pop is only visible with
  `asserts = FALSE`, the build under `-DNDEBUG`.

What makes each component correct: a queue delivers in order, each element
once; a wakeup is never lost and a message is delivered in the end; a value is
stored at the home of its key, the first value stays as long as one thread adds
to each store, and a call returns what is stored for the key it asked for; a map
is a dictionary through collisions and
growth; a reader of a shared store never sees less than an earlier reader; a
frame is a table, and the same one after encoding and decoding; the words of a
file are read in order, whole; a cell of a file is that of its line wherever the
window is; an accepted command line is one that says what was taken from it.
`PROJECT.json` lists the places in the code where each of these can go wrong.

## 2. Modules

    abstract     Fifo        KVService    Dictionary               Table
                   ^             ^         ^       ^                 ^
    detailed   RingQueue    NodeService  HashMap  JVMap          DataFrame
               MessageQueue    Node      SharedStore |            /      \
    parts         |                        |      Summer     FastArray  EncodedFrame
               Queue                     Probing                          |
                                                   FileReader ----- FromVisitor
               SoRFields -- SoRParser -- SorMain -- Options

    lists      SortedSets, of JVMap and FileReader
    theorems   QueueProofs, NodeProofs, HashMapProofs, SharedStoreProofs,
               SummerProofs, FromVisitorProofs, SorMainProofs
    lemmas     SequenceFacts, of QueueProofs, SummerProofs, FromVisitorProofs
    instances  MCNode, MCHashMap, MCSharedStore, MCSummer, MCFromVisitor, MCSorMain

**Queue** holds the pure operations of `Queue<T>` on records with the fields of
the class. `incrementSize` is as written: it doubles `memory_size_` before it
takes indices modulo `memory_size_`, and copies one slot more than there are
elements; `Garbage` is what an unwritten slot, or one beyond the array, yields.

**RingQueue** is one such queue in one thread: `Add` and `Take` (`remove`) in any order.
`Fifo` is the abstract queue, and `FifoSpec` its specification with the
elements of the ring for its state. `FifoUnlessWrappedGrowth` says that each
step is one of `Fifo` except a growth at a head that has moved.

**MessageQueue** puts that ring under a lock: it is `push` and `pop` by several
threads, one action for each call on the lock or the queue: `PushLock`, `PushAdd`, `PushNotify`,
`PushUnlock`; `Pop` (which locks), `PopTest` (`while (size_ == 0)`), `PopWait`,
`SpuriousWakeup`, `PopRelock`, `PopRemove` or `PopAbort`, `PopUnlock`.
`owner` is the holder of `mtx_`, `pc` the next call of each thread.

**Node** is all nodes, the network between them and the application threads.
`qs[n]` is the message queue of node n, `key_arr_[n]` and `val_arr_[n]` its store,
`loop[n]` and `cur[n]` the place of its thread in `run()`. The actions of a node
are `Register`, one `Recv...` for each kind of message, `NotifyAll` (apart from
`RecvReply`, because a client may act between the assignment of `reply_` and the
notification), and `PutServed` or `SendReply` at the end of what it serves. The
actions of a client are `AddHere`/`AddThere`, `GetHere`/`GetThere`,
`WaitAndGetHere`/`WaitAndGetThere` (by the home of the key), `SendKill`, and
inside a call `Wait`, `Relock` and `Read`, or `AddReturns` and `ReturnHere`.
`mtx_[n]` is kept because `lock_.wait()` returns with the mutex locked and only
the next wait unlocks it. A step after which nothing defined follows (failed
assertion, uncaught exception, bad pointer) sets `fault` and ends the behaviour.

Nothing locks a store, which the thread of its node and the clients on it use at
once. An operation of it is therefore several steps of its thread t, where it is
in `step[t]`: the assertion (`Check`), the search of `add` for a slot
(`FindSlot`), the writes of the key and the value in either order (`WriteFirst`,
`WriteSecond`); the polling of `waitAndGet` (`PollStore`), the search of `get`
(`Look`), the read of the value (`ReadValue`). A search is one step. A slot that
has a key keeps one, so a search that finds its slot is as good as one at its
last read, a search that finds nothing as good as one at its first; `SharedStore`
has each of their reads. `size_` and the growth it leads to are left out, and
`NoGrowthAssumption` bounds the calls so that there is none.

**NodeService** maps `Node` to **KVService**, one shared store: `put` is applied
later, `get` answers with the store at a moment between its call and its return
and after the caller's own puts of that key, `waitAndGet` once there is a value;
but while the first put of a key is pending both may answer with what nobody put
(`Torn`), for `add` may show the key before its value.

**Probing** is where the loops of `Map` look for a key. Starting over, they set
the index to 0 and increment it before the next test, so slot 0 is met only by
keys whose hash leads to it. **HashMap** is one map in one thread, with growth
slot by slot, checked against **Dictionary**. **SharedStore** is one map of fixed
size under two threads, one action for each access to the shared arrays; `add`
may write key and value in either order, as nothing tells the compiler
otherwise. `known`, `sure` and `got` are history variables.

**SortedSets** has one operator, `Ascending`: the elements of a set of numbers in
their order, in which the entries of a bucket keep theirs when a map grows, and
in which the words of a text begin.

**JVMap** is the chained map: a bucket is two arrays, of keys and of values, that
abort when they are full. `Set` grows first, also for a key that is there; the
entries go to the buckets of twice the capacity. `Erase` shifts an array but
does not shorten it, and leaves null or a wild pointer (`NoKey`) at its end,
which a later `equals` or `hash` follows. `Count` is `Adder::visit`: a new word
ends in `SIMap::set`, which calls itself for ever. **Summer** walks over the
buckets of such a map: `MakeSummer` is its constructor, `SumNext` a round of
`done`, `visit`, `add_row`. `MapSpec` is **Dictionary** with `Erase`.

**FastArray** has the pure operations of the chunked array; **DataFrame** builds columns,
schemas, rows and frames from them, with one action per operation of the class.
What a cell holds that nobody set is `Garbage`; a failed assertion, a null or
wild pointer, and `exit` end the program. It is the build with assertions, as the
Makefile makes it: without them a wrong index reads and writes elsewhere.
`TableSpec` maps the frame to **Table**, rows of typed cells that stay as they were
put.
**EncodedFrame** is `Value`: the frame as a sequence of units, and back.

**FileReader** is round by round what the loops of the class do with `buf_`, `i_`,
`end_` and `wStart`. `fillBuffer` is the refill, which moves the rest to the
front; both loops read the character at `end_` after a refill that brought
nothing, and `Stale` is what is there. A loop that leaves the buffer reads what
lies behind it, `Behind` characters of anything and then `Unmapped`, which
crashes; it ends the word at the first blank it takes for one, and that write
outside the buffer is where the model ends (`"overrun"`). **FromVisitor** composes it
with a frame and a store: `Begin`, `Read` and `Loop` are `fromVisitor` with a
reader for its writer, `FromArray` the other two. The variable `user` chooses at
the start between that loop and any client of a frame.

**SoRFields** has the pure part of the parser: `parseFields` as a fold over the
symbols of a line, in which a word is one symbol, `cellType`, `findColType`, and
the conversions, of which only matters how much of a word they take or what they
throw. **SoRParser** is the object: `Fill` is `fillCache`, `Met` and `loadCache`
find a window, and the stream keeps its end and fail bits, since `tellg` and
`seekg` depend on them. A position in the file counts a line and its newline as
one each. **Options** is `getOpt` and the loops of its two callers, of which
that of eau2 keeps a pointer into the last option. **SorMain** composes parser
and options as `main` does: `Option`, `Open`, `MakeSchema`, `ReadCell`. `main`
writes the types into an array without an end; what lies behind is read as types
too, so `MakeSchema` makes a frame of the types found, or a wider one with columns
whose fields nobody sets, or ends the program at a letter that is no type. Again
`user` chooses: `sor-main`, `eau2`, or any client of the parser.

How they fit together: `Node` takes a queue for a sequence, which `MessageQueue`
justifies for up to 16 messages at a time (16 is the first size of the array),
and the loop of a store for one step. `SharedStore` takes that loop apart and says
what remains true in it: with one thread that adds, later readers see what earlier
ones saw. `HashMap` adds growth, in one thread. The thread map of the network is a `Map` too: at most 8 nodes. `FromVisitor`
puts frames into a store taken as a function, and `SorMain` takes a frame for
the sequence of its rows, which `DataFrame` justifies by `TableSpec`; `Summer`
takes the loop of `fromVisitor` as `FromVisitor` has it.

## 3. Runs

Passing runs:

- `ring` (RingQueue): arrays of 2, 4 and 8 slots, up to 6 elements, two items,
  both builds. Every position of the head meets every fill level, and both
  growths happen with the head at 0 and elsewhere. *RingTypeOK*, *CloneEquals*,
  *FifoUnlessWrappedGrowth*.
- `mq` (MessageQueue): two producers that push for ever and the popper, an
  array of 3, which those pushes fill but never outgrow, and around which the
  head moves again and again (growth is checked in `ring`). Two
  producers are enough for one to notify while the other holds or wants the
  mutex. *NoLostWakeup*, *FifoSpec*, *PopNeverReturns* (with assertions), and
  under fairness *Delivered* and *PushReturns*.
- `node_service` (MCNode): two nodes with a client and a key each, two values.
  The client on node 0 makes three calls, puts and gets of both keys; the one on
  node 1 waits once for either, or sends a `Kill`. `get` is used on node 0 only (the
  sender of a `Get` is the literal 0), and one thread adds to each store: at node 0
  the client, at node 1 the thread of the node. Wakeups without notification occur;
  a call that reads `reply_` before there is a reply ends the behaviour. Three
  calls are enough for a put, a second put or a get that meets it, and a call that
  meets the answer of an earlier one, while the other thread of the node looks
  into the store between any two steps of these. *StoredAtHome*, *AnswerIsStored*,
  *FirstValueStays*, *ServiceSpec*. What needs no discipline, *StoredAtHome* and
  *TypeOK*, is proved without it.
- `node_live` (MCNode): the clients of `node_service` with three calls and two,
  one value, no wakeups without notification, fair. *WaitingReturns*: a
  client that sleeps before its reply is served is woken and returns;
  *PutIsStored*. Both except where a node is blocked in a `waitAndGet` for a key
  nobody stores, or an assertion ends the program.
- `map_dict` (MCHashMap): five keys with hashes 0, 1, 1, 8, 7 in an array of 2
  that grows to 4, 8 and 16: collisions, probes that start over, keys that move
  when the array grows. *DictionarySpec*, *FindsRoom*. Growths that crash end
  the behaviour.
- `store` (MCSharedStore): four slots, keys with hashes 0, 1 and 7, a thread
  that adds and gets, and one that gets and waits, two calls each, fair.
  *Settled*, *SizeCounts*, *TornOnlyInAdd*, *WaitEnds*.
- `counts` (MCSummer): three keys under every hash function to 0..3, buckets of
  2, a capacity of 2 that becomes 4: every way keys can share buckets before and
  after growth, full buckets, erased keys, empty buckets at the beginning, in
  the middle and at the end. *MapSpec*; *RowsAreEntries*: a `Summer` writes every
  entry once, but for the last when the first bucket is empty.
- `frame` (MCFromVisitor): chunks of 2 in a table of 1, so that both grow, up to
  4 cells, seven schemas (empty, one of each type, two columns, an unknown
  letter), strings with and without a separator, and null; a buffer of 3 and
  every text of up to 6 letters and blanks, so that the ends of the buffer fall
  at every place in words and in the space between them. *Rectangular*,
  *TableSpec*, *RoundTrip*, *WordsInOrder*, *StaysInBuffer*, and under fairness
  *VisitorEnds*. The last three speak of texts with a blank at the end and no run
  of letters or of blanks as long as the buffer; others are in the run, and are
  what the reader is not made for: a last word without white space gets a
  character of what was in the buffer, a run of blanks as long as the buffer stops
  at an assertion, and a run of letters as long as the buffer takes the reader
  behind it, up to 2 characters in the run, where it writes or crashes.
- `sor` (MCSorMain): a window of 3 rows and a sample of 2, files of up to 7
  lines, which take 3 windows, with a newline at the end or without, two-line
  files out of eight kinds of lines (quotes, spaces, empty cells, numbers of
  every kind, an invalid line); ranges at the positions 0, 1, 2, 5, 8 and 14,
  rows asked for in any order up to 7; all command lines of up to four
  arguments. *FieldsAsWritten*, *CellOfLine*, *RowFound*, *FrameIsFile*,
  *SampleIsRead*, *OnlySampleIsRead*, *OptionsAsGiven*. `RangeAnytime` is FALSE:
  ranges are set before a row beyond the first window is read and are only
  narrowed, for `setDataStart` and `setDataSize` leave `cacheOffset` alone and a
  widened range is not reloaded. Nothing in the repository sets a range.

Some properties that hold name a case in which the code fails; the run then shows
that this is the only one. These are findings as well:

- *FifoUnlessWrappedGrowth*: a full queue whose head has moved loses elements when
  it grows.
- *TornOnlyInAdd*: a `waitAndGet` whose `has` was true between the two writes of an
  `add` returns what the unwritten slot holds.
- *WaitingReturns*: a reply served before the caller sleeps wakes nobody.
- *DictionarySpec*: a map whose keys are not all in its first slots takes the
  hash of `nullptr` when it grows (at the ninth key in the code, whose array has
  16); what is left of it is a dictionary.
- *RowsAreEntries*: the entry that `Summer` loses.
- *RoundTrip*: nothing escapes a separator in a string, and null strings, which a
  comment allows, crash `encode` and `fill_row` (*RoundTrip* leaves frames with
  one out, and the run has the crash of `FillRow`).
- *OnlySampleIsRead*, *SampleIsRead*: `fillCache` drops the last line of a file
  that has no newline at its end, and `main` counts a line behind the last
  newline, so that a file longer than the sample always ends in an exception;
  so does an empty cell of a numeric column. A column has the largest of the
  types of its cells, not the most common one.
- *OptionsAsGiven*: the file name that eau2 keeps points into freed memory.

Runs that end in a violation:

- `node_wrong`: a `get` on a node other than 0 has its answer sent to node 0,
  where it is returned for another key.
- `node_race`: the thread of a node and the client on it add to its store and
  both find the same empty slot; the value stored first is replaced.
- `node_locked`: two clients of a node are woken by one reply. The first returns
  with the mutex locked, and the second waits for it for ever; fairness of any
  kind does not help, for nobody unlocks it.

`node_service` uses the symmetry of the values, which no action and no property
tells apart; it checks no liveness. Stores have 6 slots in the runs of nodes, twice
as many as `NoGrowthAssumption` lets puts take.

The bounds are `Limit`, `MaxCalls`, `MaxAdds`, `MaxCells`, `MaxRow`, `Behind`, the sets
`Position` and `Schemas`, and the sizes of the other sets. The code sets none of
them; each stands in a guard or a quantifier. `CacheSize`, `SchemaLines`,
`BUFSIZE`, `ArrSize`, `BucketSize` and the like are parameters of the code, made
small so that their limits are met. Deadlock is not checked where clients have a
bounded number of calls, or the program may end: when it is done, at an
assertion, or by an exception (an aborted program has no next step).

**Fairness.** Nobody has to push, put or begin a call. In `MessageQueue` each
thread inside a call, and the popper, has strong fairness: lock and relock are
disabled whenever another thread holds the mutex, so weak fairness would let a
thread lose every race for it; the assumption is that the system's mutex does
not starve a thread for ever. A wakeup without notification is never fair. In
`Node` and `SharedStore` weak fairness of each thread suffices: no step of a
thread but `Relock` is disabled by another, and where a node has one client the
mutex is free when `Relock` wants it. With two clients (`node_locked`) it is not,
and stays locked. The assumption says only that the scheduler runs every thread that can run, which std::thread relies on.
`VisitorSpec` has one thread in a loop without waits, and weak fairness of it.

## 4. Proofs

Assumptions are the ones named in the modules: a queue has at least one slot;
special values differ from proper ones; a home is a node, and there are at most 8
nodes; the first array of a map has an even size of 2 or more (16 in the code),
for `MustGrow` compares with the half of it; files are lines of symbols, a word is no
bracket, quote or blank, and what `stof` refuses, `stoi` refuses; schemas are
sequences of letters, and texts and whatever memory holds are characters; the
separator of encoded strings, a tab, is white space to the reader, so that no
word has one. All theorems hold for any sets of items, keys, values, hashes,
producers, clients, files and command lines, and for any bound on calls.

- **SequenceFacts** has what several proofs need of sequences: what `Append`,
  `SubSeq`, `\o` and `FlattenSeq` return, element by element, and of *Ascending*
  that it lists a set of numbers upwards (*AscendingIs*). Induction is used in
  the form that a set of numbers without a counterexample has no least one
  (*AllNumbers*, *LeastNumber*); and a fold is followed one element at a time.
- **QueueProofs**, about `Queue`, `RingQueue` and `MessageQueue`.
  - Operations: lemmas about `add`, `remove`, `MakeRoom` and `Contents`, where the
    arithmetic of indices modulo the size is done once. `clone` is a fold of `add`
    over the elements (*CloneSteps*).
  - One thread: *RingTypeCorrect*, *ClonesAreEqual*; *FifoUntilWrappedGrowth*: each
    step is one of the abstract queue unless it grows at a moved head;
    *RingRefinesFifo*: with `Limit <= InitialMemory` the queue implements `Fifo`.
  - Several threads: *NoLostWakeup* is not inductive alone. *IInv* adds which calls a
    thread can be at (*Places*), that a producer inside `push` has its message
    (*HasMessage*), that the threads between lock and unlock are exactly the
    owner of the mutex (*Mutex*), and that the queue stays as the popper has
    tested it until its next call (*Tested*), which is what the mutex is for.
    *WakeupsKept*, *TypeCorrect*; *PopsNothing*: with assertions no pop returns; and
    *RefinesFifo*: if the array is never full with its head moved (*FullWrapped*),
    the interleaved pushes and pops are the abstract queue.
    *RefinesFifoWithRoom* has a condition on the constants instead, the one that
    the run `mq` meets: `Limit - 1 + Cardinality(Producers) <= InitialMemory`. For
    the messages and the producers about to add one are together never more
    (*Reserved*), and so the array never grows.
- **NodeProofs.** For any clients, with spurious wakeups and kill messages:
  *StoredAtHomeAlways* and *TypeCorrect*. The invariant *IInv* adds that messages
  about a key are in the queue of its home (*WellSent*), that a thread is in an
  operation of a store exactly where its loop or call says so (*Placed*), that the
  key of the operation is at home there, and a thread that adds is one of *Adders*
  (*Jobs*), and that keys are in slots at home only (*KeysAtHome*).

  *FirstValueStaysAlways* needs *OneAdder*, one thread that adds to each store: either
  clients on its node, and then one, or the thread of the node for clients
  elsewhere. Any number of threads may read meanwhile. *FInv* says that every
  key is behind taken slots in the order its loop meets them (*Chained*), that
  where a slot has no key it has no value but of the add under way (*Blanks*), and
  what `slot[t]` is between the steps of an operation: the first free one, which
  nobody else writes (*Slotted*), or that of the key (*Found*). A write then
  changes no slot that `get` finds a value in (*WriteKeeps*). Two threads that
  add can replace a value, as `node_race` shows.
- **HashMapProofs.** *AddFindsRoom*, *TypeCorrect* and *RefinesDictionary*: every step,
  also of a growth, is one of *Dictionary*, until a growth crashes. The invariant
  *HInv*: every key lies behind taken slots in the order its own loop meets them
  (*Chained*), so that a loop finds the first slot of its key; `size_` counts
  the taken slots (*Counted*) and is at most half the array, exactly half when
  it grows (*Sizes*); and inside a growth the new arrays hold the keys of the
  slots copied, each with the value of its first slot (*Copying*). A growth gets
  to its end only if the keys are in the first slots, where the order of the
  slots is that of every probe, so the value kept is the value that `get`
  gave; without assertions keys may be there twice, and this is what makes
  the first win again.
- **SharedStoreProofs.** With *OneAdder*, one thread that adds and any number that
  look up: *OneAdderSettles*, what one call has seen stays true for every later
  one, and *OneAdderCounts*. A taken slot never changes; keys lie behind taken
  slots (*Chained*); what is known of a key is in the first slot with it
  (*KnownThere*); a lookup that must find its key has not passed it (*LookupOf*);
  only the slot of the add under way holds a key that nobody knows (*Shown*),
  and `size_` lags by that one. With two
  threads that add, both are false, and the code has no lock against it.
  *TypeCorrect* and *TornReadsInAdds* need no hypothesis: a slot that has a key and
  no value is that of an add between its writes, also when another add has
  replaced the key that a lookup has seen there (*Torn*).
- **SummerProofs**, about `JVMap` and `Summer`, for buckets of any size.
  - The map. *MapInductive*: while the program goes on, a bucket has keys that belong
    there, none twice, a number with each, and besides them what erased keys
    leave; and `size_` counts the keys (*MapInv*). A search that meets no wild
    pointer then ends at the one place of its key. *MapIsDictionary*: with a growth
    each bucket is split in two (*SplitBucket*), in each of which the entries
    that belong there keep their order, and every key its value; `erase_`
    shifts the others by one.
  - The walk. *SummerWritesEntries*: *RowsAreEntries* speaks of the end. *SummerInv*
    adds that at each step the rows are the entries before the cursor, which is
    at the next entry or behind the last one, and that `seen` counts them and the
    one that the constructor has counted if the first bucket is empty
    (*Walk*, *Skipped*). An entry has a number: the lengths of the
    buckets before it, and its place in its own (*Positions*).
- **FromVisitorProofs**, about `FromVisitor` and the modules it is made of, for
  chunks and buffers of any size. The invariant *VisitorInv* has a part for each:
  *ClientInv* (the frame and the row), *ReaderInv*, *Characters* (what is in the
  buffer and in a word) and *CallInv* (a frame of `fromVisitor` has one column of strings).
  - Arrays. `push_back`, with the growth of the chunks and of their table, builds the
    one layout of its elements (*Chunks*, *ArrayHolds*), whatever the order of
    growths; so `get`, `set` and `copy` are those of a sequence (*ArrayGet*,
    *ArraySet*, *ArrayCopy*). *PlaceOf* has the arithmetic: `div` and `%` of an
    index by `ArrSize` say its chunk and its place in it.
  - Frames. A frame is what its types and the sequences of its cells make it
    (*FrameOf*), as long as they fit (*Good*). `add_column`, `add_row` and `set`
    lead from one such frame to another, and its rows (*Grid*) change by one column,
    one row or one cell: *FramesAreRectangular*, *FramesAreTables*. The last needs
    that only characters reach a string (*Characters*), since `FrameCell` says so.
  - Encoding. *FramesAreEncoded*: *Laid* says where in the buffer the columns are,
    and within one its strings. A column is read where it is, or before it if a
    string further up held a separator (*ColumnRead*): so reading never runs out of
    separators, and what is read has none in its strings (*Plain*), which is why
    only frames that have none come back.
  - Reader. *ReaderStaysInBuffer*, for the files the reader is made for
    (*Regular*): no loop leaves the buffer or stops at an assertion, although
    behind the last character of the file both loops go on. *Filled* is the
    reason: the buffer is full up to the end of the file, so a word
    that is shorter ends in it; and when white space is skipped behind the
    end, a letter that an earlier refill has left stops the loop, for among the last
    `BUFSIZE` characters of the file there is one (*LetterAtEnd*). For a word as long
    as the buffer the theorem is false, and the run `frame` has the behaviours.
  - Words. *WordsAreInOrder*: in the loop of `fromVisitor` the rows of the frame are
    the words of the file, in order, and the stored value has all of them. The
    buffer is a window on the text, up to the position of the file (*Shows*), and
    stays one when a refill moves it; so the reader has a position in the text
    (*Pos*), which a refill leaves alone. Between two words the first `c`
    words begin up to there, and the others behind it (*Between*, *Skipping*);
    within one, all from where it began are letters (*Scanning*). *OrderInv* joins
    this to the rows: `c` is their number, and one more while the word read
    last is not yet added. At the end all are passed (*AllPassed*), and the stored
    value is decoded as it was, for a word has no separator.
- **SorMainProofs**, about `SorMain` and the modules it is made of.
  - Options. *CommandLineAsGiven*, for command lines of any length, and
    *OptionsOfMain*, the same while the rest of `main` runs. *OInv* says of the
    arguments read so far what the property says of all: they are flags with
    their values (*Places*), the last of each is kept (*Kept*), and the name of
    eau2 lives while its option is the last one (*Alive*). The lemma
    *OneFlagMore* adds one flag and its value.
  - Fields. *ReadAsWritten*: `parseFields` gives back the cells of the lines of one
    or two cells (*WrittenLines*), of any length, with quotes and spaces or
    without; *AfterOneMore* follows the fold over the symbols.
  - Parser. With `~RangeAnytime` (see the run `sor`; without it *CellOfLine* and
    *RowFound* are false): *CellsOfTheirLines*, *RowsAreFound* and *TypeCorrect*,
    for windows and samples of any size.
    The invariant *ParserInv* has of the window that it began at a multiple of
    `CacheSize` lines from the first line of the range, no later than the last
    newline, as did the earlier ones that `seenCaches` remembers (*Reached*); and
    that it shows consecutive lines from there, as many as there is room for
    or up to the end of the range (*Shown*). *LoadGood* and *SeekGood* are
    `loadCache` moving on and going back, *Answered* the row found in the window.
  - `main`. *FrameOfFile*: the rows of the frame are the lines of the file, each
    cell its text in the type of its column; *SampleFits* and *OnlySamplesAreRead*,
    which say for which files it ends. *MainInv* adds that the types are those of
    the sample (*AsSampled*) and that the frame has the first `i` lines and the
    row its first `j` cells (*Filling*), in a wide frame as well. The cells of a file no longer than the
    sample convert without exception (*Conforms*), since their types come from
    those same cells.

Only model-checked is what is stated under fairness: *Delivered*, *PushReturns*,
*WaitingReturns*, *PutIsStored*, *WaitEnds* and *VisitorEnds*. The prover treats
neither fairness nor ENABLED. Only model-checked as well are *AnswerIsStored* and
*ServiceSpec*, for two nodes and the calls of `node_service`: their invariant
follows a request from its caller through queues, stores and `reply_`. The three
runs that end in a violation show one execution each, for which there is nothing
to prove.

## 5. Not modelled

- **WordCount and `main`.** No execution of them gets far enough to have states of
  interest. `FileReader` opens a name in freed memory (*OptionsAsGiven*); nobody
  sets `kv` of a node, which its first message uses (`network/node.h:19`);
  `KeyBuff::get` writes into the buffer that its previous line took away
  (`kv-store/key.h:66`, `:67`); `SIMap::set` calls itself (`utils/map.h:338`); and
  the destructor of `DataFrame` applies `delete[]` to what `new` gave
  (`dataframe/dataframe.h:249`). Their parts are modelled up to these points.
- **Key, KeyBuff, String, StrBuff.** Keys are model values with a home and a hash,
  strings sequences of characters. `KeyBuff::get` has the one outcome above.
- **StrConverter.** A pure conversion that nothing uses.
- **Of `Value`:** the encoding of keys, which nothing uses and whose `decode_keys`
  neither returns nor gets past a separator; `clone` and `equals`, which take the
  buffer for a string that ends at its first zero byte.
- **Elsewhere:** destructors, printing, `hash_me` of containers, the copy
  constructor of `Map` (used nowhere), the old `jv-map.h` (included nowhere),
  `Object`, `Sys`.
