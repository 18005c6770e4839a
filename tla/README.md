# A verification project for VerdictFS

VerdictFS stores files on n servers of which f may be Byzantine, after the
AVID-FP protocol: a client cuts a file into chunks, encodes each chunk into n
fragments of which any m give the chunk back, and sends every server its
fragment with a fingerprinted cross-checksum (FPCC). The servers verify their
fragment, agree by ECHO and READY messages, and store. A client that gets a file
asks all servers, trusts the FPCC that f + 1 of them answer, verifies each
fragment against it and decodes m of them.

This directory has TLA+ modules that model the servers, the client and the
coding, TLC configurations that check them on small instances, and theorems that
TLAPS proves for every size. Paths are relative to the repository.

    cd tla
    tlc -config AvidHandlers.cfg MCAvidSlot.tla     # runs: see the tables below
    tlapm AvidServerProofs.tla                      # proofs

## 1. The system

| part | source | state | operations |
|---|---|---|---|
| server | `server/routes.py`, `server/state.py`, `server/main.py` | one `KeyState` per key: fragment, fpcc, digest, verified / echoed / ready_sent / stored, echo_set, ready_set, a lock | `/disperse`, `/echo`, `/ready`, `/retrieve`, `/status`, `/health`, `/metrics`, and the debug endpoints `/lie`, `/corrupt`, `/reset` |
| object store | `fs/object_store.py` | a JSON file per key | put, get, delete, exists |
| messages | `protocol/messages.py` | none | encodings |
| cross-checksum | `protocol/avid_fp.py`, `core/fpcc.py`, `core/fingerprint.py` | none | build_fpcc, verify_fragment, expected_fingerprint |
| erasure code | `core/rs.py`, `core/gf.py` | generator cache, field tables | encode, decode, generator, matrix inverse |
| client | `client/client.py` | none between calls | put, get, discover_chunk_count, wait_for_status |
| command line | `client/cli.py` | none | put, get, status |
| chunker | `fs/chunker.py` | none | split, join, chunk_key, parse_chunk_key |
| fault injection | `corrupt_server.py` | none | calls the debug endpoints |
| metrics, metadata store | `server/metrics.py`, `fs/metadata.py` | counters; a dictionary nobody creates | none that the rest reads |

How they interact. A client calls `/disperse` on all servers at once and waits
for all answers. A server that verified its fragment creates a task that posts
ECHO to its peers (all servers but itself); `/echo` and `/ready` count senders
and create the task that posts READY; `/ready` also writes the file. Peers
answer "ok" whatever happens. Calls that fail are logged and never repeated.
`/retrieve` serves memory when the key is stored there, and the file otherwise.
A server that restarts has its files and no memory.

What is hard here: the order in which `/disperse`, ECHOs and READYs of n servers
reach a server; two puts under one key; a crash that loses the memory and not
the file, or tears the file; Byzantine senders; a get whose n answers are taken
at n different moments; chunks that are written, counted and read one after the
other while other clients do the same; elimination with zero pivots; and the
arithmetic by which fingerprints of parity fragments are checked. `PROJECT.json`
lists each hazard at its line with the properties that cover it.

A handler is atomic in the model, and why that is right: each key has an
`asyncio.Lock`, there is one event loop and one worker process, and no handler
awaits anything that suspends between its first and last change of state
(broadcasts are tasks that it only creates; uncontended locks do not suspend).
`/lie`, `/corrupt` and `/reset` take no lock, and do not suspend either.

## 2. The modules

| module | models | extends |
|---|---|---|
| `AvidServer` | one key on the whole cluster: handlers, messages, losses, crashes, Byzantine peers, debug endpoints | |
| `Slot` | abstract specification: one key on one server, without the protocol | |
| `AvidSlot` | the refinement mapping of `AvidServer` to `Slot` | `AvidServer` |
| `Metrics` | the counter of stored objects that `/metrics` shows | `AvidServer` |
| `Vote` | the client's choice of an FPCC among the answers | |
| `Retrieval` | a client's get of one chunk, over `AvidServer` | `AvidServer` |
| `ChunkGet` | abstract specification: a client's get of one chunk, over slots | `Slot`, `Vote` |
| `RetrievalSlot` | the refinement mapping of `Retrieval` to `ChunkGet` | `Retrieval`, `AvidSlot` |
| `GF256` | the field of `core/gf.py`; a byte is the set of its bits | |
| `ReedSolomon` | generator, elimination, encode, decode | `GF256` |
| `Fpcc` | cross-checksum and its verification | `ReedSolomon` |
| `Damage` | what `/lie` and `/corrupt` do to the bytes of a fragment | `Fpcc` |
| `Objects` | files of several chunks: put, the poll of its status, chunk discovery, get, over slots | `Slot`, `Vote` |
| `MCAvidServer`, `MCAvidSlot` (of `Metrics` too), `MCRetrieval`, `MCFpcc`, `MCObjects` | instances for TLC | |
| `AvidServerProofs`, `AvidStallProofs`, `MetricsProofs`, `RetrievalProofs`, `ObjectsProofs` | theorems about the module of that name; `AvidStallProofs` has those about what servers never reach or reach together | |
| `RefinementProofs` | the theorems of `AvidSlot` and `RetrievalSlot` | |
| `GF256Proofs`, `CodingProofs` | the field axioms and polynomials; the theorems of `ReedSolomon`, `Fpcc` and `Damage` | |

A definition `Name_Suffix` is `Name` with a plausible mistake. No specification
uses it; it documents, for a property, a bug that the property would catch.

### AvidServer

`ks[s]` is the `KeyState` of server s, field by field; `disk[s]` is its file,
`None` or `Torn`. `requests`, `echoes` and `readys` are the calls on their way.
`Disperse`, `ReceiveEcho`, `ReceiveReady`, `Lie`, `Corrupt` and `Reset` are the
handlers, whole; `Retrieve` is what `/retrieve` answers. `_maybe_send_ready` and
`Commits` are the helpers of the same purpose. `Put` is a client's call to all
servers. `Lose` removes a call: within the bound on losses (a timeout), or
freely when an end of it is down. `Crash` empties the `KeyState`; `CrashInStore`
does so inside `write_text` and leaves a torn file. Servers outside `Correct` run
something else: those in `Byzantine` deliver any ECHO or READY at any time and
under any name, the receiver's own included, because nothing checks the
`sender_id` of a message; the others are silent. `accepted` and `disturbed` are
history variables that no handler reads.

One key is enough: no handler touches two keys. The clients' contents are the
set `Version`; a content stands for its fragments, FPCC and digest at once, which
takes SHA-256 to have no collisions. `Valid[v]` says which servers get a fragment
of v that verifies, so that a client that sends a bad fragment is a constant.

What the model takes on trust: an honest client gives server i fragment i, and
correct servers put their own `sender_id` into what they send (`SERVER_ID` is
configuration). Two equal messages on their way are one (sets of senders make no
difference of them), and a `sender_id` that is no server's is left out (it would
be one more name of a Byzantine server, which has all others).

`Metrics` adds `stored_objects_total` of each server: `_try_store` increments it,
a restart loses it. The other metrics count calls or time them.

### Slot and AvidSlot

`Slot` says what is left of a server's key when the protocol is forgotten: it
holds the last content sent to it, may commit what it holds, then refuses other
contents until its memory is gone or a debug endpoint is called. `SlotOf` maps
the fpcc, the stored flag and the file of `AvidServer` to it. When a commit is
possible is left open in `Slot`: any time or never. That makes `Objects`, which
builds on it, an over-approximation of the cluster: what it shows holds for any
protocol below.

### Retrieval

`Get` starts the gather; `Answer`, `AnswerByzantine` and `NoAnswer` complete one
of its calls each, while `ServerStep` (a step of `AvidServer`) goes on in
between; `Decode` is everything after the gather: the vote (`Chosen`), the
verification (`Verified`), the m fragments taken (`Used`), the length
(`Cut`), and the two ways to fail: `Failed` (RuntimeError) and `Raised`
(ValueError of a singular matrix). The order of `SERVER_URLS` is left open: any m
verified fragments may be the first. A correct server answers its own index; a
debug endpoint drops `original_len` from the fragment (`LengthsOf`, which also
allows that for a server that only crashed).

### Vote, ChunkGet and RetrievalSlot

`ChunkGet` is a get without the protocol: correct servers keep a slot, the others
answer what they like; an answer (`Offer`) is a content and whether its fragment
verifies; the client elects a content (`Vote`) and returns it if m answers are
sound. A correct server answers the content of its memory or of its file, and of
soundness nothing is said, because a debug endpoint may have damaged the bytes.
`RetrievalSlot` maps `Retrieval` to it: `Slots` for the servers, `ReplyOf` for the
answers, `ResultOf` for the result (the length is dropped: nothing vouches for
it). `Objects` uses the same `Vote` and `Served`, with servers whose fragments
are sound.

### GF256, ReedSolomon, Fpcc, Damage

Pure functions, except that `_gf_matrix_inverse` is a state machine with one
step (`Column`) per column, so that a property can be stated of the elimination
while it runs. It runs twice: to make the generator, then on the rows of m
received fragments (`Receive` takes any m of the n, in any order, repetitions
included). `Fpcc` keeps the fragment itself as its hash; the evaluation points,
which the code derives from the hashes, are the constant `Points`. `Damage` adds
the two XOR masks of the debug endpoints; `AvidServer` keeps of them only which
are applied, and `DamageIsToggled` is what justifies that.

### Objects

A key is a sequence: `<<"a">>` is a name and `<<"a", 0>>` its chunk 0.

`put` is a client that disperses chunk after chunk: `Disperse` and
`DisperseRaises` per server, `ChunkDispersed` when all have answered, which goes
on, fails, or turns to the poll. A call that raised stays in `late`: the server
may handle it at any moment from then on (`HandleLate`), or never. The poll asks
every server for the status of chunk 0, each at its own time (`Status`,
`StatusRaises`); `ShowStatus` is the report. `/status` looks at memory only.

`get` is a client that counts chunks (`GetBegin`, `Probed`) or is told how many
(`GetCounted`, for `--chunk-count`), then retrieves them (`Retrieved`,
`RetrieveFails`), an answer at a time (`Reply`, `ReplyRaises`).

Servers `Store`, `Crash` and restart, crash inside a write (`CrashInStore`; a
server that forgot a stored key and is sent it again truncates a good file), and
have a key reset by `corrupt_server.py`, which completes a bare name to chunk 0
(`Reset`). All keys of a server are in its one memory, so a crash takes them
together. Names that parse as chunk keys are excluded (`ObjectAssumption`): `put`
uses such a name as it is and `get` strips it, so nothing can be got back under
it.

## 3. The runs

Every cfg has `CHECK_DEADLOCK FALSE`: the system stops when no call is on its way
and the bounds are spent.

| run | module | states | checks |
|---|---|---|---|
| `AvidLive` | MCAvidServer | 365 000 | `PutsAreStored`, `PutIsStored` |
| `AvidQuorum` | MCAvidServer | 21 000 | `CommittedIsRecoverable`, `AllOrNothing` |
| `AvidHandlers` | MCAvidSlot | 234 000 | `TypeOK`, `MemoryMatchesDisk`, `StoredIsCounted`, `CommittedFileIsFinal`, `ImplementsSlot` |
| `GetAndPut` | MCRetrieval | 365 000 | `GetTypeOK`, `GetSucceeds`, `StoredIsReturned`, `ImplementsChunkGet` |
| `GetIntegrity` | MCRetrieval | 78 000 | `ReturnedWasPut` |
| `CodeAndFpcc` | MCFpcc | 2 100 | `EliminationInvariant`, `AnyDistinctSuffice`, `Systematic`, `RoundTrip`, `HonestVerifies`, `VerifiedAreConsistent`, `DamageIsToggled` |
| `ObjectWhole` | MCObjects | 685 000 | `StoredIsReturnedWhole`, `ChunksInPlace`, `ReportedIsRetrievable` |
| `AvidSilentPeer` | MCAvidServer | | violates `PutIsStored` |
| `AvidForged` | MCAvidServer | | violates `CommittedIsRecoverable` |
| `AvidBadFragment` | MCAvidServer | | violates `StoredIsVerified` |
| `GetLength` | MCRetrieval | | violates `ReturnedWhole` |
| `ObjectTruncated` | MCObjects | | violates `ReturnedIsObject` |

Bounds, and why they are enough.

- `AvidLive`: n = 4, f = 1, four correct servers, one put, nothing lost. All
  orders of 4 requests, 12 ECHOs and 12 READYs. With n = 4 each server needs all
  three ECHOs of its peers, so no slack hides a missing one.
- `AvidQuorum`: n = 4, f = 1, four correct servers, one put, from the beginning
  or from the end of the ECHO phase (`InitEchoed`), where ECHOs were lost: each
  server has heard all others or none (`AllOrNone`; with n = 4 one that misses
  some sends no READY on its ECHOs either). Without these losses `AllOrNothing`
  would say nothing that `PutsAreStored` does not. One crash, lost READY or debug
  call may come between the first commit and the last of a put that lost no ECHO
  (the action constraint `OneLateFault`; faults at any time, and several, multiply
  the states by more than fifty, and the theorems cover them).
- `AvidHandlers`: n = 4, one correct server; its three peers send anything under
  any name, so its handlers are driven by every sequence of messages that any
  cluster could send. Two puts, of which one has a fragment for this server that
  does not verify, one crash, inside a commit too, one lost call, two debug
  calls. Properties of one server need no second correct one, and hold whatever
  is forged.
- `AvidForged`: n = 5, m = 3, f = 1 as deployed, one Byzantine server, one put.
- `GetAndPut`: n = 4, m = 2, all store v1; one each of: a put of v2, a crash, a
  lost call, a debug call, before or between the answers.
- `GetIntegrity`: n = 4, m = 1, one Byzantine server that answers any fragment,
  FPCC, index and length and votes under any name, two lost calls (crashes and
  debug calls are in `GetAndPut`). m = 1 is the case where only the vote on the FPCC protects the client.
- `CodeAndFpcc`: shapes (5, 3), (4, 2), (7, 3), (3, 1); contents of 0 to 5 bytes,
  so every padding occurs. The code is linear and works byte by byte, so longer
  contents are more of the same. Fingerprints of four-byte fragments at two
  points, fewer than there are bytes, as in the code (16 points, fragments of any
  length): of the errors that are tried some have one of the points as a root, at
  every place, and one, which spans three bytes, has both and is accepted.
  `TablesAssumption` is evaluated in full, over all 256 bytes and all pairs of
  them: it has no bound. Damage is checked for every sequence of up to three calls: the masks undo
  themselves, so more calls repeat these.
- `ObjectWhole`: n = 3, m = 2, one name, contents of one and of two chunks, one
  get, and two of: a call that raises (and may be handled late), a crash, a torn
  write, a reset. It starts in the three situations that its properties are about,
  because the way to them multiplies the states and adds nothing: the long
  content stored everywhere, with one more put of either content to come; the
  short one on any subset of the servers, with the client about to poll; the
  short one reported as stored everywhere, with another put of it to come. With
  m = 2 of 3 servers one trouble is survived and two are not, so both sides of
  each property's condition occur.
- `ObjectTruncated`: the same servers, empty at the start, a put of two chunks and
  a get that counts chunks itself. What a user gets who asks for fewer chunks
  with `--chunk-count` is not reported against the property.

Symmetry sets permute correct servers among themselves and the others among
themselves. `AvidLive` and `AvidHandlers` use none. `GetAndPut` does, although
`ImplementsChunkGet` is an action property: TLC checks `[][A]_v` on each step it
generates, and the mapping treats all servers of a run alike.

Fairness: only `FairSpec` of `AvidServer` states any, `WF_vars(Deliver)`: as long
as calls are on their way some handler runs. The event loop runs every task that
it was given, and each delivery uses up a call, so no stronger assumption is
needed. Losses, crashes, puts and debug calls are never fair.

### What the passing runs show

- `PutIsStored`: with every server up and correct, a put ends stored everywhere.
  `PutsAreStored` is its safety half: whatever the order of calls, a cluster in
  which nothing is on its way any more has finished the put. The order that is
  hard to test is votes that overtake the `/disperse`: they must count.
- `CommittedIsRecoverable`: with no Byzantine server, when a server has a file,
  more than n - f servers verified a fragment of that content and still hold it,
  unless they crashed or were tampered with: enough to decode after f more fail.
  A server that counted its own vote would break it.
- `AllOrNothing`: from the end of the ECHO phase, whichever ECHOs were lost, the
  servers store together or not at all: those that got too few ECHOs are pulled
  in by f + 1 READYs.
- `MemoryMatchesDisk`, `CommittedFileIsFinal`, `ImplementsSlot`: see section 2;
  a late READY after `/corrupt` writes the corrupted fragment over the file, and
  even then memory and file agree.
  Nothing of it depends on the names in votes, so Byzantine peers that forge them
  change nothing.
- `StoredIsCounted`: `/metrics` shows 1 for a key that a server stored, and not
  more, however often its READYs arrive, if it was left alone.
- `ImplementsChunkGet`: what the client does with the protocol's servers is what
  it may do with slots, so `Objects` can be built on slots.
- `GetSucceeds`, `StoredIsReturned`: a get survives what the erasure code should
  survive, although the answers are of different moments and a restarted server
  accepts a second content and serves the first one from its file.
- `ReturnedWasPut`: what a get returns was put, although the client takes its f
  from n and m.
- `EliminationInvariant`, `AnyDistinctSuffice`, `Systematic`, `RoundTrip`: the
  elimination keeps "left = right x input", fails only on repeated indices, and
  what is decoded is what was encoded.
- `HonestVerifies`, `VerifiedAreConsistent`: fingerprinting commutes with the
  code, so honest fragments verify, and an FPCC pins one content down up to
  errors whose bytes are farther apart than there are points. That such an error
  exists TLC shows: without the exception (`FarApart`) it finds a fragment that
  verifies and is of no content. In the code the points are drawn from a hash of
  the fragments, so to hit one is a matter of chance.
- `DamageIsToggled`: `/lie` and `/corrupt` in any mix leave a fragment that
  verifies exactly when each was undone or had no byte to change.
- `StoredIsReturnedWhole`, `ChunksInPlace`: a file that was stored everywhere
  when the get began is returned whole despite a later put, crashes, torn writes,
  resets, failed and late calls, as long as enough servers are left; no chunk is
  ever returned in another's place.
- `ReportedIsRetrievable`: "Successfully stored on k/n servers (need any m to
  reconstruct)" is true for a file of one chunk: the poll reads each server at
  another moment and undercounts after restarts, but never counts a server that
  has no file.

### What the violations show

- `AvidSilentPeer`: README.md:206 says a disperse needs n - f = 4 honest
  servers. A server's own ECHO does not count, so with one silent server of five
  the others get three ECHOs and wait for a fourth.
- `AvidForged`: README.md:264 says that one Byzantine server is tolerated with
  f = 1. `sender_id` is an int in the body of ECHO and READY (messages.py:92,107)
  and goes into the sets as it is (routes.py:186,206), so one server votes for
  all. It sends three READYs to a server that has its fragment, which commits
  alone: `/status` says stored, and of an object with m = 3 one fragment exists.
  What still holds with a Byzantine server is what depends on no vote: each
  server's own state (`AvidHandlers`), and what a get returns, because the client
  counts one answer of each server that it asked (`ReturnedWasPut`).
- `AvidBadFragment`: a second `/disperse` with a bad fragment replaces the good
  one before it is verified, `verified` stays TRUE, and the READYs store it.
- `GetLength`: `original_len` of a Byzantine server's answer is believed.
- `ObjectTruncated`: chunks are counted by what is stored now; a get that runs
  before the last chunk is committed returns a prefix, and the CLI calls the
  file stored as soon as its first chunk is.

### Other behaviour the models have that a reader should know

These follow from the same definitions; no run states them.

- A server whose fragment arrives after 2f + 1 READYs of its peers, which takes
  f >= 2, a restart or a Byzantine peer, stores only if another READY comes
  (only `/ready` calls `_try_store`; routes.py:200 says "Store once 2f+1 readys
  received").
- `echo_set` and `ready_set` ignore the digest: two concurrent puts under one
  key can leave different contents on different servers.
- `/corrupt` does not take a server out of retrieval, as routes.py:280 says it
  does: `/retrieve` falls back to the file. `/reset` answers 404 for a key that is
  on disk only, after it deleted the file.
- The docstring of tests/test_byzantine.py:180-216 says that the client never
  verifies fragments on retrieval. client.py:263-291 does, since. The test decodes
  by itself and passes either way.
- A put does not look at status codes (client.py:186): a chunk that every server
  refused with 400 counts as dispersed. No honest client meets it
  (`HonestVerifies`).
- A restart loses the counter of stored objects, and `/lie` loads a file without
  counting it: `StoredIsCounted` is about servers that were left alone.
- A Byzantine server that answers another server's fragment and index can make a
  get raise ValueError (`Raised`), so `GetSucceeds` is checked without one.
- A put of a longer file under a stored name is refused on the old chunks and
  stored on the new ones; a get returns both joined. `StoredIsReturnedWhole`
  excludes it.
- A put of another content of the same length under a stored name is reported as
  "Successfully stored": every server answers already_stored and the status that
  is polled is the old content's. `ReportedIsRetrievable` is about names that one
  content was put under.
- After a restart `/status` answers 404 for a key that `/retrieve` serves, so a
  report may say "Only stored on k/n servers" of a file that all have.
- A server that was restarted and is sent its file again writes it again, and a
  crash inside that write destroys the only copy it had.
- `corrupt_server --reset` with a bare name resets chunk 0 only. The other chunks
  stay, and answer already_stored to the next put.
- A Byzantine server that answers every probe makes `discover_chunk_count`
  overshoot, for ever if it never stops, and the get then fails at a chunk that
  does not exist. `Objects` has servers that run this code only.
- `get --chunk-count k` is a prefix for a k too small; for 0 it writes an empty
  file and says so as a success.
- `client.cli status name` asks for the bare name, which no server knows.

## 4. The theorems

Each holds for every value of the constants that the modules' assumptions allow:
any finite set of servers, n >= 3f + 1, m <= n - 2f (`Objects`: 1 <= m <= n; the
code: 1 <= m <= n <= 255), any contents, any bounds. A theorem about `SpecEchoed` or `SpecStored` holds from the
states that the runs of the same property start in; the others from an empty
cluster.

| theorem | states | further assumption |
|---|---|---|
| `TypeCorrect` | `TypeOK` always | |
| `MemoryMatchesDiskCorrect` | `MemoryMatchesDisk` always | |
| `CommittedFileIsFinalCorrect` | `CommittedFileIsFinal` | |
| `ReadyCorrect` | once a server sent READY or has a file, more than n - f servers verified a fragment | no Byzantine server |
| `CommittedIsRecoverableCorrect` | `CommittedIsRecoverable` always | no Byzantine server, one content |
| `AllOrNothingCorrect` | `AllOrNothing` always, from the end of the ECHO phase (`SpecEchoed`), whichever ECHOs were lost | no Byzantine server, at least 2f + 2 correct |
| `PutsAreStoredCorrect` | `PutsAreStored` always | f = 1, every server up and correct, every fragment verifies, nothing lost, no debug call |
| `StoredIsCountedCorrect` | `StoredIsCounted` always | |
| `ReturnedWasPutCorrect` | `ReturnedWasPut` always | at most f faulty |
| `GetTypeCorrect` | `GetTypeOK` always | |
| `GetSucceedsCorrect`, `StoredIsReturnedCorrect` | `GetSucceeds`, `StoredIsReturned` always, from where v1 is stored (`SpecStored`) | all servers correct, fragments of v1 verify, fewer than n - f crashes and debug calls |
| `AvidImplementsSlot` | `AvidServer` implements `Slot` | |
| `SilentServersStall` | no server ever sends READY or has a file | at least f servers are silent, none Byzantine |
| `GetImplementsChunkGet` | `Retrieval` implements `ChunkGet` | |
| `ChunksInPlaceCorrect` | `ChunksInPlace` always, for `Objects` | |
| `StoredIsReturnedWholeCorrect` | `StoredIsReturnedWhole` always | |
| `ReportedIsRetrievableCorrect` | `ReportedIsRetrievable` always | |
| `EliminationCorrect` | `EliminationInvariant` always | |
| `AnyDistinctSufficeCorrect` | `AnyDistinctSuffice` always | |
| `SystematicCorrect` | `Systematic` always | |
| `RoundTripCorrect` | `RoundTrip` always, for contents of any length | |
| `HonestVerifiesCorrect` | `HonestVerifies` always | |
| `VerifiedAreConsistentCorrect` | `VerifiedAreConsistent` always, for fragments of any length | |
| `DamageIsToggledCorrect` | `DamageIsToggled` always, for fragments of any length | |

The arguments.

- `TypeInv` is `TypeOK` with `HeldTogether`: a server that has a fragment has its
  FPCC. Without it a commit could write a file without one.
- `MemoryInv` adds that a stored key has a fragment, so that `/retrieve`, `/lie`
  and `/corrupt` take the branch that serves memory, and `MemoryMatchesDisk`.
- `FinalInv` adds `CommittedInMemory`: a server that has a file and was not
  disturbed says stored, so the guards of `/disperse` and of the commit protect
  the file.
- `QuorumInv` adds what votes mean when no server forges them, although digests in
  them are ignored: `EchoInv` (an ECHO means its sender verified some fragment,
  and no server hears its own) and `ReadyInv`. The first READY rests on n - f
  ECHOs of others and the sender's own fragment, so more than n - f servers
  verified theirs; every later READY and every commit rests on one before it
  (`ReadySeen`). Crashes, losses and debug calls take nothing from that.
- `RecoverableInv` adds that with one content a server that verified it still
  holds it. With two contents the statement fails (section 3), so the theorem
  assumes one.
- `OfferedInv`: every FPCC in a request, a memory, a file or a correct server's
  answer was put by a client; f + 1 equal digests include a correct server's
  because (n - m) div 2 >= f.
- `AvidImplementsSlot`: one lemma per handler maps its step to a step of `Slot`
  or a stutter; `MemoryInv` is needed for `/lie`, which must not load a file over
  a served fragment, and for the commit.
- `StallInv`: as long as no server has sent READY, ECHOs come from servers that are
  not silent. These are fewer than n - f, because a server hears all of them but
  itself. So no threshold is reached and nothing changes that. It is what
  `AvidSilentPeer` shows on one cluster, and says that f = 0 never works. A
  Byzantine server could make up the missing votes.
- `TotalInv`, for `AllOrNothing`, holds until a call is lost or a server fails
  (`UntilDisturbed`; the property speaks of no state after that): a READY that a server
  sent is on its way or was heard (`Announced`, `ReadyReaches`), and every server
  acts on the votes it has as soon as they are enough (`VotesActedOn`). A server
  that stored heard 2f + 1 READYs; with nothing on its way every correct server
  heard all of them but its own, f + 1 at least, and sent READY itself. Of
  2f + 2 correct servers each then hears 2f + 1 others: the one more than 2f + 1 is
  the server's own vote, which it does not count. Which ECHOs were lost before
  does not matter.
- `PutInv`, for `PutsAreStored`: with f = 1 the n - f ECHOs are those of all peers,
  so nobody sends READY before every server has verified its fragment
  (`WhoeverSends`), and from then on nothing can be missed but one thing: the last
  server to verify may have heard every ECHO before, and `/disperse` sends no
  READY. It owes one (`Owes`). At most one server owes, because any other then has
  its ECHO still to hear, and the READYs of the others make it pay. `FaultlessStep`
  says which steps are left when nothing fails; `TotalInv` uses it too. The theorem
  cannot go beyond f = 1: with f >= 2 the others may store before the last
  fragment arrives, and a server that gets its fragment after their READYs keeps
  it in memory only, because only a READY that comes later calls `_try_store`. The
  others have stored, more than enough to decode, but `PutsAreStored` is false.
- `CountedInv`, for `StoredIsCounted`: `FinalInv` and that a server that is down is
  disturbed. A commit and the counter go together because the file of an
  undisturbed server is written once.
- `StoredGetInv`, for `GetSucceeds` and `StoredIsReturned`. `SettledInv`: no READY
  is ever on its way, because a READY needs n - f ECHOs and only servers that
  lost v1 from memory echo another content. So no file changes, and a server that
  took up another content in memory still answers from its file. `FewTampered`:
  the servers that a debug call touched are at most as many as the calls; all
  others answer v1, whole. The theorems start where v1 is stored and no READY is
  on its way, and that is not only convenience: the digest in a READY is ignored,
  so with old READYs in flight a server that crashed, came back and accepted
  another content could commit that one over its file.
- `GetImplementsChunkGet`: the step of the servers is `AvidImplementsSlot`, one
  lemma per step of the client does the rest. `Decode` needs that answers of
  correct servers carry their own index, so that only a Byzantine answer can
  make decode raise. No bound on the number of faulty servers is needed.
- `ObjectsInv`: every piece that is anywhere, in a slot, in a late call, in the
  running put or in the getter's answers, is a piece of a content put under the
  name in its key, at the index in its key. A chunk key determines its name and
  index, and the name that the CLI strips a key to is a name.
- `WholeInv`, for `StoredIsReturnedWhole`: there is a set of at most as many
  servers as there were troubles, outside of which every server has stored
  whatever it has on disk, so nothing is written over it, and the get has from
  them nothing but pieces of the content (`Track`). A trouble adds one server to
  the set: `ServersChange` and `PutChange` sum up every step of servers and put as
  either `Calm` (entries are held anew or commit) or `Hurt` (one server). The
  piece asked for outvotes whatever the others answer, and after the last piece
  nobody answers, because nothing longer was put.
- `ReportInv`, for `ReportedIsRetrievable`: the same with a set of harmed servers
  that starts when the poll begins and goes with the report from the put to the
  CLI and to the get. A crash adds nobody: a server that restarts is not settled,
  but with one content under the name whatever it is sent again is the same piece
  (`OnlyPiece`), so a commit leaves the file as it was. Here all that is answered
  is that piece, so no majority is needed, only enough of them.

- The field axioms rest on `TablesAssumption` of `GF256`: the tables are inverse
  to each other, they start at 1 and the generator, the generator distributes over
  XOR, and the 256 byte literals differ. These are finite facts about definitions
  without parameters; the provers cannot compute 256 rounds of the loop of gf.py,
  so TLC evaluates them in full in `CodeAndFpcc`. Everything above them is proved:
  every nonzero byte is a power of the generator, so multiplication is addition of
  exponents, hence associative and commutative with inverses, and it distributes
  because each factor is a repeated multiplication by the generator.
- Recursive functions are proved about without the library's induction theorems:
  `SetInduction` says that a set with 0 and each successor holds every number (the
  least number outside it would have a predecessor), and each lemma applies it to
  the set of numbers for which it holds. `GfSum`, `gf_eval` and `After` are
  functions that their equation determines, so they are what is shown to satisfy
  it.
- `CodeInv`, for the four theorems of the elimination: the augmented matrix has the
  same solutions as at the start (`Reduced`), because swapping, scaling and adding
  rows can each be undone; columns done are those of the identity. So when the
  elimination ends the right half is an inverse from both sides. A column without
  a pivot gives a nonzero vector that the input maps to 0. For the generator it is
  a polynomial with m coefficients and m different roots, which
  cannot be (`RootsVanish`); for received fragments the same polynomial has the
  points of these fragments as roots, so two of them are one. That is where
  n <= 255 is needed: the points are the bytes 1 to n.
- `RoundTripCorrect`: the inverse times the received bytes is the padded input, by
  associativity; the rest is the arithmetic of cutting a content into m chunks.
- `HonestVerifiesCorrect`: `gf_eval` by Horner is the polynomial that `GfSum`
  writes out, and that is linear in its coefficients, so the value of a parity
  fragment is the row of the generator times the values of the chunks.
- `VerifiedAreConsistentCorrect`: the same linearity leaves of a fragment that
  verifies an error whose polynomial is 0 at all points. If its wrong bytes lie
  within as many places as there are points, it is 0: bytes after them are cut off
  (`CutLast`), bytes before them too, because a power of a nonzero point can be
  divided out (`CutFirst`), and what is left has no more coefficients than roots
  (`ShortVanishes`). The length of the fragment is induction in `NarrowVanishes`.
- `DamageIsToggledCorrect`: a call toggles its mask (`CallToggles`), so after any
  number of calls, not three only, the masks called an odd number of times are
  applied (`AfterIsApplied`); the first byte tells the four combinations apart
  (`MasksDiffer`), as 170, 255 and 0 differ.

The action lemmas (`DisperseStep`, `EchoStep`, `ReadyStep`, `TakesAway`) say once
what a step leaves alone, and the invariants cite them.

## 5. Only model-checked, and not modelled

Liveness (`PutIsStored`) is out of the prover's reach, and is checked only. It is
the one property of a passing run that no theorem states. `TablesAssumption`,
about 256 bytes, is evaluated and not proved (section 4). How unlikely it is
that an error spread over more bytes than there are points verifies (`FarApart`)
is a matter of probability, and neither checked nor proved.

Not modelled: the metrics that count or time calls (nothing reads them),
`MetadataStore` (nothing creates one), `/health`, the CLI's tables and its
`status` command, base64 and JSON, file names in the store (a hash of the key),
Docker, deployment and demo scripts, argument parsing of `corrupt_server.py`. An
FPCC with too few hashes (IndexError in `verify_fragment`, with the effect of
`DisperseInvalid`), an answer of a server that is not JSON (`put` raises, which
is a failed put), and names that a URL would have to quote have no property.

## 6. Plan

Done: the server (`AvidServer`), its abstract specification and refinement, the
client's get, the coding, and files of several chunks, in this order because the
later ones build on the earlier ones; then the get over slots and its refinement,
the poll of a put's status, late calls, torn writes and resets in `Objects`, the
counter of stored objects, the damage of the debug endpoints; the theorems of
section 4, by which every invariant and action property of a passing run is proved.

Next, to model: Byzantine servers in `Objects`, with a bound on what they answer
to probes; two names at once; more shapes and more points for the fingerprints
where TLC allows.

Next, to prove: `CommittedIsRecoverable` with several contents, for a server that
verified the content it committed; `PutsAreStored` for f >= 2, in the form that
holds there (a server that has not stored got its fragment after READYs).
