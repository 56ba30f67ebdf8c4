# Verification of the PWS client

TLA+ models of the Personal Web Storage client in `src/` (package
`@interop/was-client`), model-checked with TLC on small instances, with theorems
checked by TLAPS for every value of the constants.

The client is a TypeScript library without a server of its own. Its hard part is
what happens *between* HTTP requests: calls are `async` functions, a handle is
shared by calls that overlap, several clients edit one stored object, any request
can fail or lose its answer, and a process can stop after any of them. The models
keep that control structure and abstract payloads, keys and URLs to the little the
properties tell apart.

Contents: [the system](#the-system) · [modules](#modules) · [from code to
model](#from-code-to-model) · [runs](#runs) · [bounds](#bounds) ·
[fairness](#fairness) · [theorems](#theorems) · [findings](#findings) ·
[departures](#departures) · [what is left out](#what-is-left-out) ·
[not modelled](#not-modelled) · [plan](#plan)

## The system

Paths are under `src/src/`.

| Component | State it keeps | Operations | Hard behaviour | What makes it correct |
|---|---|---|---|---|
| Collection metadata (`Collection.ts`, `internal/meta.ts`, `describe.ts`, `indexSchema.ts`) | per handle: the remembered read `#recentRead`, the codec memo `#codecHolder` | `describe`, `meta`, `configure`, `replaceDescription`, `setMeta`, `setName`, `setTags`, `declareIndexes`, `delete` | one stored object for configuration and annotations, written whole; baselines of three origins; overlapping calls share one handle | no write merges over a version it did not see; every interleaving is a sequence of whole read-modify-writes; the codec follows the description |
| Conditional writes (`internal/cas.ts`, `conditional.ts`) | none | `compareAndSwap`, `composeAndSwap`, the preconditions | a lost race is retried, a lost answer must not be | bounded attempts, one application per call |
| Codec resolution (`internal/codec.ts`, `memo.ts`) | a single-flight promise, a one-shot snapshot | `resolve`, `reset` | callers share one resolution; a reset can come while it runs | no caller waits for ever; no codec older than the handle's own configuration write |
| Resource writes (`Resource.ts`, `internal/write.ts`, `content.ts`, `blob.ts`) | none | `put`, `get`, `delete`, `add` | the pre-read and the write are two requests | the caller's precondition is enforced by the server, not only by the pre-read |
| EDV codec and transport (`edv/EdvCodec.ts`, `edv/PwsTransport.ts`) | `lastDocumentWrite` per write | chunked insert and update, compensation, reaping, chunked reads; sealing and opening | one payload, many requests: partial failure, lost answers, stopped processes, other writers; envelopes that are moved | a completed document has exactly its writer's chunks; errors say what is stored; an envelope opens where it was sealed |
| Key epochs and recipients (`edv/recipients.ts`, `descriptorStore.ts`, `epochKeys.ts`) | a store's `described`; a reader's unwrapped keys | `ensureFirstEpoch`, `initRecipients`, `addRecipient`, `removeRecipient`, `replaceRecipient` | several clients edit the descriptor; a removal has two halves | current readers reach the whole history; removed ones stay out |
| Document ciphers and refresh (`edv/docCipher.ts`, `refreshingDocCipher.ts`, `acquire.ts`, `refresh.ts`) | the inner cipher, a single-flight refresh, cached descriptors | `encrypt`, `decrypt` with one refresh, `applyMeta`, `reset` | the inner cipher is swapped under running operations; the source fails, refuses or is stale | one refresh, never spent in vain; nothing unverified is adopted where verification was asked for |
| Log-governed descriptors (`edv/logGovernedDescriptorStore.ts`, `log/`) | the head, bytes and description last read | create, read, replace, sweep over a hash-chained log | the projection lags the log; an append must extend the verified head | the log only grows at its head; a stale projection never decides and is no tampering |
| Sync port (`sync/port.ts`) | none; checkpoints are the caller's | `query`, `get`, conditional writes | content and metadata are separate requests; denials are masked; answers are lost | no reported edit is lost; no change falls behind a checkpoint |
| Provisioning (`sync/provisioning.ts`) | none | ensure the Space and the Collection | two apps create the same thing; a run stops halfway | what stands is kept; a repeated run gets there |
| Space handles (`Space.ts`) | none | `configure`, `delete`, `createCollection`, replica registrations | merges over masked or stale reads | only the stated members change |
| Client handle (`PwsClient.ts`, `internal/service.ts`, `internal/pagination.ts`) | the memoized service description, the visited links of a walk | `service`, `createSpace`, `listSpaces`, page walks | calls share one discovery; links are whatever the server sends | one fresh, checked description; a walk ends, is whole or fails, and stays on its server |
| Requests and errors (`internal/request.ts`, `mapError.ts`, `errors.ts`) | none | sending, and mapping an answer to an error | one status means several things | the callers' branches take the right class |
| Addresses and delegation (`internal/paths.ts`, `layout.ts`, `reserved.ts`, `grant.ts`, `rootCapability.ts`) | none; handles carry a capability | opening a handle from a URL, an id or a capability; `grant` | one URL has many forms and several parsers | a URL names what its handle means; a capability reaches no further than its handle |

The parts meet in four places. A **Collection handle** resolves a codec from the
Collection Metadata object, and drops it when a configuration write of its own is
acknowledged. A **Resource** borrows that codec, whose transport turns one `put`
into one request or several. The **recipient operations** edit the `encryption`
member of the very object that `configure` writes, through a `DescriptorStore`,
plain or log-governed; a **document cipher** is built from that descriptor and built
again when an envelope names an epoch it does not list. And every signed request
waits on the client's one **service description**. All of them end in conditional
requests, so a stored object's ETag is the only thing that orders writers.

`PROJECT.json` lists every component with its status, every hazard at its line, and
the source lines each definition stands for.

## Modules

| Module | Kind | What it is |
|---|---|---|
| `MetadataBodies` | operators | the stored Collection object and the bodies composed over it; the server's own admission rule |
| `MetadataRegister` | abstract spec | one atomic register of that object |
| `CollectionMetadata` | state machine | handles, codec resolutions, calls and the server; implements `MetadataRegister` |
| `ChunkedWrite` | state machine | one encrypted resource: document, chunks and the calls on them |
| `KeyRoster` | operators | the encryption descriptor and its edits, without state |
| `KeyCustody` | abstract spec | who can unwrap which key: found once, granted by holders, taken away by new keys |
| `KeyEpochs` | state machine | the recipient operations over a descriptor store; implements `KeyCustody` |
| `EdvEnvelopes` | operators | unwrapping, building a codec from a descriptor, sealing, opening; over `KeyRoster` |
| `DocCipher` | state machine | one client's document cipher through a session, over `EdvEnvelopes` |
| `HistoryLog` | abstract spec | a log that is only extended at its head, under views that never go back |
| `GovernedLog` | state machine | descriptor stores over a log and its projection; implements `HistoryLog` |
| `Requests` | operators | the error class an answer becomes |
| `ChangeFeed` | state machine | the feed of a Collection, its replicas and readers; over `Requests` |
| `SyncPort` | composition | pushers that read and write one Resource through the port, beside `ChangeFeed` |
| `Spaces` | state machine | a Space, its Collection, its replica registration, and their owners |
| `Provisioning` | composition | apps that provision the Collection, beside the owners of `Spaces` |
| `Discovery` | state machine | the service description and the memo that shares it |
| `Listings` | composition | page walks and other calls of one client that wait on `Discovery` |
| `Addresses` | state machine | URLs, handles and capabilities |
| `CollectionMetadata_proofs`, `ChunkedWrite_proofs`, `KeyEpochs_proofs`, `DocCipher_proofs`, `GovernedLog_proofs`, `SyncPort_proofs`, `Provisioning_proofs`, `Listings_proofs` | proofs | see [theorems](#theorems) |
| `MC*` | instances | constants for TLC |

## From code to model

**Requests and steps.** JavaScript runs one continuation at a time and switches
only at an `await`. So an action is what happens between two awaits, or one request
at the server. Where the order of *answers* matters, a request is two actions: the
server applies it, and later the caller handles the answer (`CollectionMetadata`,
`GovernedLog`, `SyncPort`, `DocCipher`, reads in `KeyEpochs`). Where a call keeps
nothing that another can see in between, one action does both (`ChunkedWrite`,
`Spaces`, `Provisioning`, writes in `KeyEpochs`). A lost answer is then a disjunct:
applied, and yet the caller sees an error.

**The server** is external: it is modelled from how the client uses it and from the
in-memory server of the tests (`src/test/helpers/memoryServer.ts`). It stores
objects under fresh ETags, enforces `If-Match` and `If-None-Match`, answers 404 for
what a capability may not read, and deletes the chunks with a document. An ETag is
a version number. In `CollectionMetadata` and `KeyEpochs`, `hist` holds every
object ever stored and a version is an index into it.

**`CollectionMetadata`.** `recent[h]` is `#recentRead`: the version, and the codec
its `custom` was opened through. `memo[h]` is the memoized resolution, an index into
`codecs`; one entry of `codecs` is one run of `resolveCodec`, with its one-shot
snapshot. `call[c]` holds the locals of `#writeStored`, `setMeta`, `declareIndexes`
and `meta`. A write passes through `resolve`, `resolving`, `baseline` (the caller's
`current`, the remembered read, or a fresh `get`), `put`, then `acked` or
`conflict`. `conflict` rebases until `DEFAULT_CAS_ATTEMPTS`. `Overlapping` says
whether one handle may have two calls under way.

**`ChunkedWrite`.** `doc` is the stored document: absent, inline, a pending stub, or
complete with a sealed chunk count. `chunks[i]` names the call that stored chunk
`i`, which stands for its bytes and its ETag, since no call stores one index twice.
`call[c]` holds the pre-read, the transport's `lastDocumentWrite` (`written`), the
next chunk and the listed chunks still to reap. Reap workers go on after the put
they belong to has thrown, so `ReapChunk` is enabled at `thrown` too. Two variables
record history for the properties only: `overlapped` (another call wrote while this
one ran) and `unsure` (an applied request's answer was lost).

**`KeyEpochs`.** `described[s]` is the field a `collectionDescriptorStore` keeps.
A call reads, composes with the operators of `KeyRoster`, and writes on the read's
ETag. A removal then revokes its capabilities (`Pull`), all in flight at once. A
recipient is its kid. Wrapping a secret is membership in a roster: whoever is in it
can unwrap the secret and wrap it for others. A call mints at most one epoch, so the
call names it. `host` chooses between the two descriptor stores. Another client's
`configure` is one step, which is what the refinement of `MetadataRegister` allows.

**`EdvEnvelopes` and `DocCipher`.** An epoch id stands for its key. An envelope keeps
apart what is authenticated (its binding: version, resource, Collection, epoch) and
what is not (the recipient headers, `kids`), so that a moved or relabelled envelope
can be told from an honest one; `Authentic` asks that it is intact under a
binding version the client knows, `Placed` that it is read where its binding says, so
that another Collection's metadata envelope is refused. `BuildEdvCodec` is `resolveEpochKeys` and
`resolveHmacKey` with every way they refuse; `OpenEnvelope` is `decrypt` followed by
the slot and binding checks. In `DocCipher` a *build* is one run of
`acquireDescriptor` and `createEdvDocCipher`: `Boot` at session start, then one for
each refresh, named after the read that asked for it. `Served` is the history of
descriptors the Collection serves, `build[b].got` the one a build holds. `inner` is the
build in use, `keys[b]` what its lazily unwrapped read keys have become. `mode` chooses who drives
the refresh: `refreshingDocCipher`, a scanning store under
`DescriptorRefreshPolicy`, or nobody.

**`GovernedLog`.** `held`, `body`, `described` and `pin` are what one store keeps
between calls: the verified log and its view, `lastReadBody`, the description, and
the reader's pinned head. `log`/`tag` and `client`/`dtag` are the two objects the
Collection serves; a put of the log changes both validators, since the description
is then a projection of its head. An entry is its id, its predecessor's id, a type,
a state and a controller view; the library behind the store is what `Verdict` says.

**`ChangeFeed` and `SyncPort`.** The server numbers writes with `clock`; an entry of
the feed is a Resource at its last write of content or metadata, or another record of
the Collection. A page is a snapshot answer with what may be wrong with it. Replicas
and pushers are the port's callers: they do what `sync/types.ts` asks of a caller
(store the checkpoint a page brings, pin writes to the state known, read again on a
conflict). `get` is two requests, served and answered in either order.

**`Spaces` and `Provisioning`.** Each owner makes one call of a Space handle; each
app repeats `ensureSpaceAndCollection` until it ends well, and may stop after any of
its requests. `since` counts deletions, so that a property can tell a provisioned
Collection that was deleted from one that never was.

**`Discovery` and `Listings`.** `service.reads` holds every discovery ever begun, and
`service.memo` the one the memo holds. A walk of `Listings` signs each page and so
waits on `service` again for each. An operation on the Spaces Repository (`createSpace`,
`listSpaces`) waits on it twice, for the Repository's URL and then for its request.
`listSpaces` fails when the Repository's listing is not there, where a Collection's walk
reads the absence as a hidden listing. A URL is where it leads, its path and its cursor;
a relative link is resolved against the page that gave it.

**`Addresses`.** A URL is an origin, path segments, a trailing slash and a mark for
whatever a container may not have. `Encoded` and `Decoded` give the encoding where it
is not the identity. `ServerReads` is the server's own reading of a URL, written from
the routes the client is documented to use; `ValidTarget` is the zcap library's.

## Runs

Every initial state is one an earlier call could have left.

| Run | Expect | What it asks | Instance |
|---|---|---|---|
| `metadata` | pass | types, `CodecNotOlderThanConfiguration`, `AppliedOnce`, `NoLostUpdate` | two clients, one of which can neither read the object nor build the codec; three overlapping calls, two on one handle; every origin of a baseline, creation, deletion, encryption declared late |
| `meta_indexing` | pass | `IndexesHold` (declared attributes are searchable, their uniqueness settled), `SchemaOnlyGrows`, and the refinement `AtomicRegister` of the register | two clients encrypt a plain or an already encrypted Collection and declare indexes, also contradictory ones, among renames, `setMeta` and a configure; one call at a time per handle |
| `chunk_writes` | pass | `WholeDocument`, `UndisturbedRead`, `NoLostUpdate`, `CleanUpSparesOthers`, `OutcomeMatchesStore`, `ReplacedChunksReaped` | two writers or deleters and a reader; payloads of 0, 1 and 2 chunks; two reap workers; any request may fail, be lost or be the last |
| `key_epochs` | pass | `HistoryReachable`, `RemovalsHold`, `FirstEpochAdopted` and the refinement `KeysInCustody` | three readers, three overlapping operations with a store each, two capabilities, both hosts |
| `key_stale_conf` | violation | `ConfigurationKept`, operations sharing a store | two escrows and a rename |
| `descriptor_refresh` | pass | `OpensWhereSealed`, `RefreshesAreSound`, `KeepsIndexSchema`, `KeepsUp` | three calls (reads of honest, moved and relabelled envelopes and of another Collection's metadata, a seal, an application of metadata, a reset), one rotation by which the reader loses the current epoch, a corrupt wrap, an unreliable keystore; sources that answer, fail, hide or refuse |
| `governed_log` | pass | `NoUpdateLost`, `NoFalseAlarm`, `ForeignUntouched` and the refinement `ExtendsTheLog` of `HistoryLog` | three calls through two stores, from no descriptor, a client's, or a log; a lost answer, a new controller view, a lagging resolver, a foreign entry |
| `sync_port` | pass | `EditsKept`, `CaughtUpIsCurrent`, `Converges`, `RevokedSurfaces` | two pushers of one note, or one beside a replica or a reader; a picture and a record between the documents; a faulty page, a lost answer, a restored server, a revocation |
| `provisioning` | pass | `CreatorStands`, `Provisioned`, `NothingOverwritten`, `OnlyTheStated`, `Heals` | an encrypting and a plain app, an encrypting and a governed one, an app and an owner, or two owners; crashes, lost answers, renames, epochs, a log, policies and deletions by others |
| `policy_overwritten` | violation | `PolicyKept` | as `provisioning` |
| `addresses` | pass | `NamesWhatItMeans`, `CapabilitiesStayInPlace` | a Space hosted by id and one at an origin root; reserved, empty, dotted and encoded ids; targets in every form |
| `client` | pass | `WalksAreTrue`, `StaysOnItsServer`, `DescriptionIsShared`, `EveryCallEnds` | one walk beside a refresh or a create and a `service` call; three items in pages of one; one misleading answer or failure, one change of the list or the description |

Some properties are conjunctions of named parts, each with its own comment in its
module: `IndexesHold`, `RemovalsHold`, `OpensWhereSealed`, `RefreshesAreSound`,
`CapabilitiesStayInPlace`, `WalksAreTrue`, `DescriptionIsShared`.

Deadlock is checked in every run. A `Quiet` action stutters when every call has
ended, so a call that could take no step and had not ended would be reported: a
read that waits for a refresh nobody runs, a pusher that waits for no answer.
(`Addresses` has calls of one step only and can always let go of what it holds.)

Every property of a passing run has a mutant in `PROJECT.json`: a definition with a
plausible bug (a dropped precondition, a retry of a lost answer, a memo cleared by
the wrong failure, a target taken as given) under which TLC finds that property
violated. The faulty variants stand next to the definitions they replace, marked
*Faulty variant*.

## Bounds

All runs use two or three calls. Two writers and one more party (a reader, a third
writer, another client) are enough for each hazard: the stale party, the one that
made it stale, and the one that observes or repeats it.

- *Attempts* is 2 in `metadata`, `meta_indexing` and `key_epochs` where the code has
  3, and `MaxTries` 1 in `governed_log`. One retry reaches every branch of the loop
  (win, retry, give up); a further one repeats it. The theorems hold for any number.
- *Chunks* is at most 2: one index is shared and one left over when a two-chunk
  payload replaces a one-chunk one, or the reverse. *Reap workers* is 2, so that one
  can fail while another is under way.
- *Confs*, *Texts*, *Attrs* have one or two values: enough to tell an old value from
  a new one. An attribute declared unique and not unique gives the conflict.
- `DocCipher`: one rotation between two descriptors of two and four epochs, the last
  without the reader. A second rotation would repeat the first for the one refresh a
  session has.
- `GovernedLog`: *MaxViews* 2 and a resolver that answers the earlier one, *Losses* 1.
- `ChangeFeed` and `SyncPort`: *Limit* 1, so that every document falls on a page of
  its own and a page can hold only a skipped entry; *MaxPages* 4, one more than the
  entries; one fault, one write by others, one lost answer. `MCCasts` names who takes
  part together.
- `Provisioning`: *MaxFaults* 2 (a crash and a lost answer, or two of either) and
  *MaxOthers* 2 (a declaration and its log, a policy and its removal).
- `Listings`: three items, *MaxPages* 3, one fault and one change. `Discovery` starts
  with a good server, and may be given a description beforehand.
- `Addresses`: *MaxGrants* 2: a grant, and one re-delegated from what it opens.

`hist`, `codecs`, `service.reads` and the log need no bound of their own: they grow
only with the requests of the calls, which are finitely many.

No symmetry is declared: the calls have different roles, and the runs finish without.

## Fairness

`fetch` settles, with an answer or a rejection, and a JavaScript runtime runs a ready
continuation. That a request *succeeds* is never assumed, unless its faults are
bounded; and that a call *starts* is assumed only of the external parties named here.

- `SyncPort`: `WF(Poll(w))` for each replica. A replica polls for as long as it
  lives, and its requests are answered. Faulty pages are at most *MaxFaults*; without
  that bound a server could return nothing for ever and no replica would converge.
- `Provisioning`: `WF(AppStep(p))` for each app: one that failed runs the operation
  again. Stopping (`Crash`) is not fair, and spends a fault. Every fault and every write
  of others is bounded, so that `Heals` speaks of an app that is left alone in the end.
- `Listings`: `WF` of the discoveries and of the answers to each call. A call that is
  never made is not owed an end.

`CollectionMetadata`, `ChunkedWrite`, `KeyEpochs`, `DocCipher`, `GovernedLog` and
`Addresses` state safety only and assume nothing. A process that stops is a call that
takes no further step.

## Theorems

Checked by TLAPS, for every value of the constants that the modules' `ASSUME`s allow:
any set of calls, handles, stores, readers, owners and apps, any requests and scripts,
any number of attempts, chunks, reap workers, pages and items.

| Theorem | Says | Assumes |
|---|---|---|
| `CollectionMetadata_proofs!TypeCorrect` | `Spec => []TypeOK` | — |
| `CollectionMetadata_proofs!Inductive` | `Spec => [](TypeOK /\ PinnedWrites)` | — |
| `CollectionMetadata_proofs!NoLostUpdates` | `Spec => NoLostUpdate` | — |
| `CollectionMetadata_proofs!AppliesOnce` | `Spec => []AppliedOnce` | — |
| `CollectionMetadata_proofs!CodecFollows` | `Spec => []CodecNotOlderThanConfiguration` | — |
| `CollectionMetadata_proofs!SchemaGrows` | `Spec => SchemaOnlyGrows` | `~Overlapping` |
| `CollectionMetadata_proofs!SchemaSettled` | `Spec => []UniquenessSettled` | `~Overlapping` |
| `CollectionMetadata_proofs!IndexesStay` | `Spec => []IndexesHold` | `~Overlapping`, no call deletes |
| `CollectionMetadata_proofs!ImplementsRegister` | `Spec => AtomicRegister` | `~Overlapping` |
| `ChunkedWrite_proofs!TypeCorrect` | `Spec => []TypeOK` | — |
| `ChunkedWrite_proofs!NoUpdateLost` | `Spec => NoLostUpdate` | `ServesEtag` |
| `ChunkedWrite_proofs!CleanUpSpares` | `Spec => CleanUpSparesOthers` | `ServesEtag` |
| `ChunkedWrite_proofs!StoredWhole` | `Spec => []WholeDocument` | `ListsEtags` |
| `ChunkedWrite_proofs!ReadsWhole` | `Spec => []UndisturbedRead` | `ListsEtags` |
| `ChunkedWrite_proofs!ReportsWhatIsStored` | `Spec => OutcomeMatchesStore` | `ListsEtags` |
| `ChunkedWrite_proofs!NothingLeftOver` | `Spec => ReplacedChunksReaped` | `ListsEtags` |
| `KeyEpochs_proofs!TypeCorrect` | `Spec => []TypeOK` | — |
| `KeyEpochs_proofs!WholeHistory` | `Spec => []HistoryReachable` | — |
| `KeyEpochs_proofs!KeysStayInCustody` | `Spec => KeysInCustody` | — |
| `KeyEpochs_proofs!OneFirstEpoch` | `Spec => []FirstEpochAdopted` | — |
| `KeyEpochs_proofs!RemovalsAreWhole` | `Spec => []RemovalsHold` | — |
| `KeyEpochs_proofs!CustodyKeepsHistory` | `KeysInCustody => []Custody!Nested` | — |
| `DocCipher_proofs!Inductive` | `Spec => []IInv` | — |
| `DocCipher_proofs!OpenedWhereSealed` | `Spec => []OpensWhereSealed` | — |
| `DocCipher_proofs!RefreshedSoundly` | `Spec => []RefreshesAreSound` | — |
| `DocCipher_proofs!IndexSchemaKept` | `Spec => []KeepsIndexSchema` | `~Overlapping` |
| `DocCipher_proofs!ReadsKeepUp` | `Spec => KeepsUp` | — |
| `GovernedLog_proofs!TypeCorrect` | `Spec => []TypeOK` | — |
| `GovernedLog_proofs!UpdatesKept` | `Spec => []NoUpdateLost` | — |
| `GovernedLog_proofs!ForeignKept` | `Spec => ForeignUntouched` | — |
| `GovernedLog_proofs!NeverAccused` | `Spec => []NoFalseAlarm` | `~Sharing` |
| `GovernedLog_proofs!LogExtends` | `Spec => ExtendsTheLog` | `~Sharing` |
| `SyncPort_proofs!ReportsAreTrue` | `Spec => []EditsKept` | — |
| `SyncPort_proofs!EndsAreCurrent` | `Spec => CaughtUpIsCurrent` | — |
| `Provisioning_proofs!InvariantHolds` | `Spec => []IInv` | `StartsTyped` |
| `Provisioning_proofs!OthersUndisturbed` | `Spec => OnlyTheStated` | `StartsTyped` |
| `Provisioning_proofs!StandingKept` | `Spec => NothingOverwritten` | `StartsTyped` |
| `Provisioning_proofs!RunsEndWell` | `Spec => Provisioned` | `StartsTyped` |
| `Provisioning_proofs!CreatorKnown` | `Spec => []CreatorStands` | `StartsTyped` |
| `Listings_proofs!SharedAsRead` | `Spec => []DescriptionIsShared` | — |
| `Listings_proofs!NeverLedAway` | `Spec => []StaysOnItsServer` | — |
| `Listings_proofs!ListsWhole` | `Spec => []CompleteListing` | — |
| `Listings_proofs!WalksTellTrue` | `Spec => []WalksAreTrue` | `Cardinality(Items) <= MaxPages` |

*Collection metadata.* A `PUT` quotes either the caller's `ifMatch` or the ETag of
its baseline. `NoLostUpdate` is not inductive, because at the moment of the `PUT`
the two may differ: the caller may have quoted one version and passed an object
composed over another. What is invariant (`PinnedWrite`) is that the quoted ETag is
the baseline's, *or is no longer the stored one*, and a version that is gone never
comes back. So a `PUT` the server admits was composed over exactly what it
replaces. For a read-modify-write the quoted version is also the one `meta()` read.

`WrittenOnce` carries the next two. No two stored objects have one writer, a call that
has applied a write has ended or is about to, and it knows the version it stored
(`Accounted`): `AppliedOnce`. A configuration write that ended left the memo empty, and
what the handle has resolved since then read a version no older (`NotOlder`):
`CodecFollows`. Both hold with overlapping calls.

The last four say what the compositions preserve, and there calls that overlap on one
handle can interfere (see [departures](#departures)); different handles and clients
overlap at will. In `Orderly`, every object ever stored is `Sound`: its annotations are
sealed as the description says or are plain, a schema is declared only under
encryption, and no attribute is both unique and not. A handle's remembered read, if it
is still what is stored, was opened with the codec the handle works with
(`Remembering`). A call at work has captured that codec and no other (`Coded`), a
read-modify-write sends through the scheme it read through (`Lensed`), and the
remembered read is dropped before a `PUT` goes out (`Forgotten`). So every write the
server admits is one of three whole compositions over what is stored (`Recomposed`: a
configuration, a relabelling, a declaration). Each keeps the object sound and its schema
no smaller, which gives `SchemaGrows` and `SchemaSettled`, and each is a step of the
register: `ImplementsRegister`. `Searchable` then follows one declaration from the call
that sent it into every version its handle reads or resolves. It assumes that nobody
deletes: after a deletion and a new create there is no schema to be searched by.

*Chunked writes.* The later requests of a put name the version in `lastDocumentWrite`.
The invariant (`Anchored`) is that, while the call is storing chunks, finishing or
cleaning up, that version is the call's own pending stub or is no longer stored.
Other calls keep it, since the versions they create are new. The theorems need
`ServesEtag`: with a server that sends no validators the code falls back to
unconditional requests, and both properties fail. The invariant also carries what
types alone do not give: the next chunk to store or fetch is within the payload
(`InPayload`), and there is no document exactly at version 0 (`Versioned`).

`StoredWhole` and `ReadsWhole` rest on `WInv`. A put that nobody overlapped stored each
chunk below its next one (`Storing`); a document it has written is still its own or one
that an overlapping call put there (`Claimed`); and a chunk listed for reaping, named by
its ETag, was stored by a put whose document is no longer stored, or that others
overlapped (`Spared`). The ETag is what `ListsEtags` is for: without it a worker deletes
whatever stands at the index by then. A read that nobody disturbed has fetched, at each
index so far, the chunk of the document it was answered (`Fetching`). Each of the many
actions is first shown to be a `Deed` (what it changes on the server, how far it brings
the call, what it lists and answers), and the invariant is shown to survive a deed.

`ReportsWhatIsStored` and `NothingLeftOver` add what an undisturbed call has stored so far
(`Stands`): its own stub under the version it names, until it is unsure of an answer; then
its own document; and while it reaps, past the document's chunks, only the chunks it listed
or nothing. Each request of a call is then shown to tell the truth if it ends the call
(`Tells`).

*Key epochs.* What `HistoryReachable` says of the stored descriptor is inductive only
with three more facts. Every object ever stored is coherent, and it has no key only
if it is the seed (`Sound`): a call composes over the version it read, which may be
an old one. A call that has not written yet minted none of the stored epochs
(`Unminted`), so the epoch its rotation appends has a name of its own and the one
called current is the newest. And a call about to write composed over a descriptor
that did not make its mutate throw (`Composable`). Under these, each edit of
`KeyRoster` gives a coherent descriptor (`FirstSound`, `EscrowSound`,
`RotationSound`). `KeysStayInCustody` uses the same invariant. A write is applied
only over the version its call read, so it edits the stored rosters, and each edit is
one step of `KeyCustody` (`RevisedChange`); all other steps leave the rosters alone.
The assumption `ObjectsCoherent` says the same of what earlier callers left.

`RInv` adds what history says. Every version after the first has a writer, and the
first epoch, once there, is in every later version (`Grown`), so two clients that both
mint one never both keep theirs, and each is told whose was kept (`Adopts`):
`OneFirstEpoch`. Whoever holds keys in a later version
and did not in an earlier one was named by a call in between. Every revoked capability was
revoked for a rotation whose roster left the retired reader out (`Durable`), and a removal
that returned has nothing pending (`Resolved`). So a reader whose removal returned gets
back only when somebody adds it: `RemovalsAreWhole`.

`CustodyKeepsHistory` speaks of `KeyCustody` alone. Every behaviour that keeps its promise
keeps the rosters nested, since a grant goes to every key there is and a new key only to
holders of the newest: whoever opens what is sealed next opens everything before it. With
`KeysStayInCustody`, the code inherits that from the promise.

*Document ciphers.* The invariant follows a build from its answer to its use. What it holds
was served before, and verified where the host or the descriptor asks for it (`Acquired`).
A finished build has a codec, and a read key it remembers is what unwrapping gives when the
keystore answers, for an epoch its descriptor lists (`Usable`). The build in use is a
finished one (`Serving`). From there each property takes its own part:

- `Counted`: the refreshes under way or done are at most the resets, and one more once the
  guard has left `armed`. With `Acquired` this is `RefreshesAreSound`.
- `Told`: a read that ended was told what its envelope deserves under the descriptor it
  was opened with, or that the keystore was out of reach; one that waits found no epoch of
  its envelope listed. For what a client sealed itself, `WhatIsSealedOpens` has to be
  carried along, over every later descriptor: a rotation takes no epoch away. Together they
  are `OpensWhereSealed`.
- `Indexed`: the metadata applied last is in force, or a call or a replay is about to put
  it in force. With overlapping calls this is false (see [departures](#departures)).
- `Solo` and `Newer`: a cipher that refreshes itself has one build under way, serves reads
  from the build in use, and never holds a descriptor newer than its cache. Hence
  `KeepsUp`, an action property: a read refused for an unknown epoch was opened under the
  descriptor that is then in use, and a swap goes forward only.

*Governed log.* `IInv` holds with stores shared by any calls: while the validator a call
quotes is the current one, the descriptor it is about to write contains all that is in
force (`Pinned`), and a change that was made is in force before its call returns
(`Reported`). That gives `UpdatesKept` and `ForeignKept`. The other two need `Exact`,
and that needs one call at a time for each store. The log is a chain under views that
never go back (`Chained`); a pin, and the head of whatever was sent and not yet
confirmed, are entries of it (`StoreKeeps`, `Continues`); and while the validator a call
quotes is the current one, what its store holds, both as verified entries and as bytes,
is the log itself, so that a put the server admits adds one entry at the head
(`Builds`). No comparison can then end in an accusation (`Unaccused`).

*Sync port.* A pusher's report must be true of a Resource whose content and metadata
others write in between. Content or annotations still stored under an ETag that a pusher
holds are those it read under it (`Pinned`, for its base, for both answers of a `get`, and
for the state it takes from an acknowledgement), and an edit that was once in the Resource
is still there, or was deleted by one who saw it (`Held`). Every step of the feed and of
any pusher moves the Resource by one relation (`Evolves`), under which all of this lasts.

`EndsAreCurrent` is about the feed. Up to its checkpoint, or the point its walk is at, a
replica has every JSON document as it is stored (`Copied`), and a reader has exactly the
live ones (`Collected`). Writes cannot spoil this: a write puts its Resource ahead of every
point given out so far (`Advances`). A page that names a next checkpoint holds all there is
up to it, except what has moved on since (`TellsMore`); one that names none says that
nothing was after the point (`TellsEnd`), and the replica or reader was current when it was
served. A refused or malformed page tells nothing, and moves nothing. The module's `ASSUME`s
are that a Collection has finitely many Resources and records, that no write is numbered
after the clock at the start, and that replicas and readers are different parties.

*Provisioning.* Both the owners' calls and the apps' runs write over what they read a
while ago. The invariant says what such a read is worth (`Current`): if the record
stands under the revision that was read, it is the record that was read, since no two
writes get the same revision. So a conditional `PUT` that is admitted merges over what
is stored, which gives `OnlyTheStated`, and a late declaration changes the declaration
alone, over none. A run checks each part once and does not look again, so what it may
rely on later is conditional (`AppHolds`): the Space, the Collection and its
declaration still stand *unless something was deleted since the run began*. No write
takes a declaration away (`CollKept`), so this survives every step of the others; the
proof shows it of each kind of write once (`ServerMoves`), and not for each pair of
actors. `CreatorStands` follows from two facts: a Collection made by a run is born at
a revision never given before, and only a deletion and a new create change its birth.
`StartsTyped` asks of the initial server no more than that its revisions were given out
before and that a Space has a controller.

*Client.* The memo holds the one discovery under way since the last refresh, or one that
has ended well; never one that began before the refresh, and none that rests on a
description the refresh dropped (`Shares`). A call holds the discovery it waited on last,
as fresh as it asked for and never one that had failed when the call began (`Promised`).
That gives `SharedAsRead`. A walk never leaves its
server, and what it has met so far is everything that stood throughout, up to its cursor
(`Walked`, `Local`): `NeverLedAway`, `ListsWhole`. `WalksTellTrue` says in addition that a
bad end is the server's fault: an honest server leads each walk strictly onward
(`Onward`), and never to more pages than the listing has items. That is where
`Cardinality(Items) <= MaxPages` is used; in the code the limit is 10,000 pages
(`internal/pagination.ts:41`), and a longer listing does fail.

*Model-checked only.* Liveness (`Converges`, `RevokedSurfaces`, `Heals`,
`EveryCallEnds`) is beyond the prover, and so is what the folds over a URL's path compute
in `Addresses` (`NamesWhatItMeans`, `CapabilitiesStayInPlace`): both need induction over the
path. Every other property of a passing run is stated by a theorem.

## Findings

Each is a run that TLC refutes; `PROJECT.json` quotes the line that says otherwise.

1. `key_stale_conf` — two operations share a descriptor store and their reads settle
   out of order. The write pinned to the newer version carries the older
   configuration, and undoes a rename (`edv/descriptorStore.ts:142`, against `:115`).
2. `policy_overwritten` — the world-readable grant of a provisioning run is an
   unconditional `PUT`. A policy of another type, set before the run or while it is
   under way, is replaced (`sync/provisioning.ts:347`, against `:9`).

## Departures

Behaviours that differ from what a comment or document says, met while modelling and
kept out of the runs. Where a property states the promise, it stands in the module,
commented as a promise that does not hold; the switch or property named here shows it.

- *Overlapping `declareIndex`.* Two calls on one handle each apply the schema they
  sent when their answer is handled; the older answer, handled last, leaves the older
  schema, and `find()` refuses a declared attribute (`Collection.ts:1126`, `:1470`).
  `ARCHITECTURE.md:498`: "`declareIndex` updates the persisted copy and this handle's
  codec together". Seen with `IndexesHold` and `Overlapping = TRUE`.
- *A rename beside a `configure`.* `setName` reads through one codec and writes through
  another (`Collection.ts:1090`); when the `configure` declares encryption in between,
  the tags are erased. `Collection.ts:1153`: "preserving any existing `tags`".
  `PatchKeepsTheRest`. The same interleaving can lose a schema: while a patch retries
  through a plain codec, another client encrypts the Collection and declares an index, a
  `configure` on the patch's handle resets the memo, and the patch's body carries no
  schema over (`Collection.ts:1108`). `SchemaOnlyGrows` and `AtomicRegister`, with
  `Overlapping = TRUE`; this is why both are checked and proved with one call at a time
  per handle.
- *Reaping.* The chunks a put reaps are listed after its document write
  (`edv/EdvCodec.ts:1127`); what a later put stored before the listing is deleted, and
  its finished document cannot be read. `EdvCodec.ts:1104`: "state already makes these
  chunks unreachable, so a failure here loses no" data. `ReapedAreUnreachable`.
- *Mixed chunks.* Chunks are stored without a precondition (`edv/PwsTransport.ts:576`);
  a writer that has lost its stub still overwrites the winner's chunks.
  `ARCHITECTURE.md:592`: "the document's conditional write is what proves no other
  writer intervened". `NoWriterIntervened`.
- *A false report.* When the answer to a create's final update is lost, the 412 its own
  update caused is taken for another writer's (`EdvCodec.ts:1270`), and a stored document
  is reported as replaced (`:1272`). `ReplacedByAnother`.
- *Metadata applied during a refresh.* What `applyMeta` installs while a refresh replays
  the metadata before it is lost with the old cipher (`edv/refreshingDocCipher.ts:207`).
  `:50`: "re-applied to the rebuilt cipher, so a refresh keeps the index schema". Seen
  with `KeepsIndexSchema` and `Overlapping = TRUE`.
- *Two calls on one governed store.* The store keeps the bytes of whichever read settled
  last (`log/logStore.ts:168`), and an append may fork the log. `:144`: "the append is
  pinned to the same read's ETag". Seen with `ExtendsTheLog` and `Sharing = TRUE`.
- *A pair of two revisions.* `get` puts content together with a later metadata stamp
  (`sync/port.ts:522`). `sync/types.ts:88`: "`updatedAt`, `updatedAtCounter` and
  `originId` are the content record's". `StampOfItsContent`. Writes pinned to such a
  state still replace only what they saw: that is `EditsKept`.
- *No validators.* `ARCHITECTURE.md:981` describes an unconditional write where the
  server serves no validator; `internal/cas.ts:181` refuses there, and so do the models.

Smaller observations, as a reader of the code may wonder about them:

- *Ciphers.* A failed fetch that the cache answers still spends the one refresh. When
  two acquisitions overlap, the cache may go back to the older descriptor
  (`edv/acquire.ts:204`). A scan that began before another read's refresh keeps its
  first answer (`edv/refresh.ts:66`). A keystore out of reach while the cipher is built
  leaves a non-holder without the index key until the next build.
- *Governed log.* A `replace` seeded with a newer validator over an older held head forks
  the log as well (excluded where `Sharing` is FALSE). A write whose confirmation meets an
  entry under a newer view is done and yet reports `Behind`.
- *Sync.* The 404 of a revoked capability makes `get` answer null, though `sync/types.ts`
  says null is an absence. A JSON Resource retyped to binary is skipped by pulls, and a
  replica keeps its last JSON copy.
- *Provisioning.* A create whose answer is lost reports `created: false`, though it made
  the Collection. A governed run's Collection may be declared client-written by an
  encrypting run before its log is created.

## What is left out

Of the modelled components:

- *Collection metadata*: codecs fixed at construction (a keyless client, a per-handle
  override), an explicit `current: null`, governed descriptors, `find()` itself, backend
  and quota reads.
- *Resource writes*: `add()`, renames of a Resource, and the size, media-type and
  unique-attribute checks, which can only make a request fail.
- *EDV and recipients*: encryption and key wrapping themselves. A sealed value opens with
  the right key and no other.
- *Ciphers*: two applications of metadata at once; the bodies' conversion.
- *Governed log*: stores without a signer, terminal logs, requests lost before the
  server, the checks on the log's method and URL.
- *Sync*: acknowledgements without a validator, writer ids, key-epoch headers, content
  ids. Replicas and pushers are external.
- *Provisioning*: runs with a delegated capability; a description whose id is another's.
- *Listings*: the syntax of links, keyset cursors and page sizes other than one (the
  server's), an out-of-range capability answered with null.
- *Addresses*: chains rooted elsewhere than in a Space (a bare `pws.grant`) are read as
  that Space, as documented; re-delegation to an explicit target is the zcap library's.
- *Delayed requests*: the server applies a request before the caller gives up on it.
  A request that arrives after its caller reported a timeout is not modelled.

## Not modelled

Import and export, backends and quotas (`Space.ts`), policies and revocation as
operations of their own (`internal/policy.ts`, `revoke.ts`), identities and key
resolution (`identity/`), blobs and content negotiation (`internal/blob.ts`,
`content.ts`), and the formats of envelopes and content ids (`sync/envelope.ts`,
`cid.ts`): each is one request or a pure conversion, and holds no state that another
call sees. The cryptography is the libraries'.

## Plan

The model covers the parts with state that outlives a request, and every safety property
of a passing run but the two of `Addresses` is proved. What would come next:

1. Governed declarations in `CollectionMetadata`, over the atomic log that `HistoryLog`
   promises.
2. The path lemmas of `Addresses` (encoding, joining, prefixes), for a prover with
   induction.
