# A TLA+ model of vAuth

vAuth is a virtual FIDO2 authenticator: a daemon that answers CTAP requests of
browsers over a UHID device, keeps its credentials in an encrypted file guarded
by a TPM counter, and asks the user for presence or verification through an
agent on D-Bus and a PAM broker. This directory holds TLA+ modules for the parts
of it that are stateful and concurrent, TLC configurations that check them on
small instances, and TLAPS proofs for all instances. Paths below are relative
to the repository.

## The system and its parts

    host(s) --frames--> event loop --request--> CTAP worker thread
                          ^                        |   |      |
                          |  completion            |   |      +-- credential store -- file, TPM counter
                          +------------------------+   |                               ^
                                                       |                  vauthctl ----+
                    D-Bus thread -- registries -- ceremony (presence, verification)
                        ^                              |
                        |                              +-- verifier client == broker == PAM child
                     agent (vauth-ui)

- **Event loop** (`src/event.cpp`). One thread polls the device, assembles
  frames (`src/frame_processor.cpp`), starts at most one worker, sends
  keepalives and answers, and handles CANCEL and INIT while a worker runs.
- **CTAP worker** (`src/ctap_command_handler.cpp`, `src/authentication/`,
  `src/registration/`). Executes one request; keeps the continuation state of
  GetNextAssertion between requests.
- **Credential store** (`src/credentials/credential.cpp`). A map in memory,
  replaced on disk by an atomic rename, with its generation in a TPM NV counter.
  `vauthctl` uses the same class under the same lock.
- **Agents and interactions** (`src/dbus/`, `src/uv/src/auth.cpp`, client in
  `client/`). The D-Bus thread and the worker share two registries and a queue,
  each with a mutex of its own.
- **PAM verification** (`src/uv/src/`). The worker's client, a root broker and a
  PAM child, connected by two sequenced-packet sockets.
- **Provisioning** (`vauthctl/src/provisioning.cpp`,
  `src/cryptography/store_security.cpp`). Creates the authorization, the NV
  counter and the sealed key.
- **Daemon start-up and TPM keys** (`src/vauth.cpp`, `src/cryptography/tpm.cpp`).
  Unseals the database key, from which the store file and the authorization of
  every credential's TPM key are derived.
- **CBOR and verifier codecs** (`src/cbor_operations/`,
  `src/uv/src/verifier_protocol.cpp`, `src/dbus/secret_pipe.cpp`). Functions from
  one input to one result, with limits and numeric boundaries.

`PROJECT.json` lists every part, also the ones that are not modelled, the source
lines behind each definition (`map`), and the hazards the properties aim at.

## Modules

| Module | Models | State and actions |
|---|---|---|
| `Storage` | the credential map | pure operators: put, erase, clear, signature counter, their preconditions |
| `DurableStore` | what the store promises | abstract: one value, one `Commit` per operation |
| `CredentialStore` | `CredentialStore`, `CredentialStoreLock` | visible and durable file, counter, lock, per-process memory; one action per system call of `save_storage` and `load`, each with its failure; `Exit`, `PowerFailure`, `Writeback` |
| `FrameProcessor` | `CTAPHIDFrameProcessor`, `CTAPPacket::stringify` | operators for `process`, `expire` and fragmentation |
| `FrameAssembly` | hosts writing to one processor | `Write`, `Deliver`, `TimeOut`, `Finish` |
| `CommandHandler` | `CTAPCommandHandler`, assertion sequence | worker steps from `Begin` to `Publish`, split where the stop token, the agent or the store is consulted |
| `EventLoop` | `run()` | composes `FrameProcessor`, `CommandHandler` and `Storage`: `HandleFrame`, `Expire`, `PickUp`, `Keepalive`, `Shutdown`, `Joined` |
| `RequestParsing` | `parseRequest` of GetAssertion and MakeCredential, `cbor_utils` | functions from a payload of decoded items and the reused request object to a request or an error |
| `CborResponses` | `cbor.cpp`, `validate_credential` | sizes, entry counts and key order of the responses; which accepted requests can be stored and answered |
| `InteractionRegistry` | the pending interaction | one operator per method: begin, transition, answers, waits, end |
| `InteractionFlow` | what agents are promised to see | abstract: the order of published states |
| `AgentService` | D-Bus handlers, the ceremony | D-Bus thread and worker as two processes; one step per mutex section |
| `AgentUi` | `vauth-ui`: `AgentClient`, `InteractionTracker`, `main.cpp` | extends `AgentService` by the client's D-Bus thread and UI thread: signals in flight, start-up buffer, posted callbacks, blocking calls, the hide timer |
| `VerifierConversation` | `advance_verifier_conversation` | the protocol's state table |
| `VerifierProtocol` | `verifier_protocol.cpp`, `secret_pipe.cpp` | encoder, decoder and UTF-8 check over bytes, the pipe's read loop, beside reference definitions |
| `Verifier` | client, broker, PAM child | one step per system call or check of each process, and the deaths of each |
| `Provisioning` | `vauthctl provision` | per-invocation steps, each of which may fail; `Killed`, `Writeback`, `PowerFailure` |
| `Daemon` | `main()`, `CredentialKeyProvider`, commands that open the store | composes openers with `Provisioning`: `Start`, `Lock`, `Unseal`, `Provide`, `Load`, then `Register`, `LoadKey`, `Sign`, `Erase`; `Exit` at any point |
| `*Invariants` | | the inductive invariants of the agent service and the client |
| `*Proofs` | | theorems about the modules they extend |
| `MC*` | | constants and sampled inputs for TLC |

### How the models abstract the code

- *Data.* Credentials keep the fields that the store's rules read (owner, relying
  party, user, discoverable, creation order, signature counter). Keys, signatures
  and encryption are outside; the file either holds what was written or is absent.
  Credential IDs are 32 random bytes and are taken not to repeat.
- *Frames* keep channel, command, length, sequence number and bytes; in
  `FrameAssembly` a byte says which message and position it comes from, so a
  mix-up is visible. The sizes 57, 59 and 7609 are constants of the module.
- *CBOR.* To `CommandHandler` a request is its command byte, with a choice whether
  decoding succeeds. What decoding does is in `RequestParsing`, where a payload is
  a tree of items with a kind, a value and a length; TinyCBOR, which makes items of
  bytes, is external. Integers are read as TinyCBOR reads them, with the wrap-around
  of a signed value of `Int64Bits` bits. `CborResponses` counts bytes, so that a
  response that does not fit, a map with another number of entries than announced
  and a wrong key order are visible. The response-too-large branch of the handler is
  left out because the encoder enforces the same limit before.
- *Verifier packets.* `Verifier` exchanges message kinds; the bytes of each are in
  `VerifierProtocol`.
- *The TPM.* An object is the authorization it was created with. The database key
  is the number of the seal that holds it, and a credential's key is the database
  key that its authorization comes from.
- *Time.* A deadline is an event that may occur at any moment after it was armed.
- *D-Bus.* Agents may make any call at any time. Calls that `registered_caller`
  rejects change nothing and are omitted.
- *Broker.* When the broker ends a verification it kills and reaps its child in
  the same step; the Cancel it sends to the child first can have no reader.
- *Crashes.* A process may be killed between any two steps of `CredentialStore`,
  `Verifier`, `Provisioning` and `Daemon`, and `vauth-ui` may end and be started
  again in `AgentUi`. A power failure replaces the visible store file, or the
  installed authorization, by the durable one.
- *The window.* In `AgentUi` the session stays active and the bus loop does not
  fail; both are in `AgentService`, and the client sees only a refused call.

### The assumption about recovery

`load()` finishes an interrupted commit by advancing the TPM counter. It does not
first sync the directory of the renamed file. `SettledBeforeRecovery` is the
environment assumption that the kernel has written that rename back by then. The
store's theorems assume it, `MCCredentialStore.cfg` sets it, and
`MCCredentialStoreUnsettled.cfg` shows what happens without it (below).

## Model checking

Passing runs:

| Run | Instance | Checks |
|---|---|---|
| `credential_store` | daemon and one vauthctl, 3 credential IDs, capacity 2, 4 generations, counter up to 1 | `Recoverable`, `MemoryIsCommitted`, `CredentialsDistinct`, refinement of `DurableStore` |
| `frame_assembly` | 2 channels, frames of 2 and 1 bytes, messages up to 4 (hosts also try 5), 3 messages | `RoundTrip`, `NoSilentLoss`, `ActiveExcludesIncoming` |
| `event_loop` | 2 channels, 5 frames, 3 requests, 2 agent contexts, empty or two-account store; 183 sampled payloads | `AnsweredOnce`, `HandlerOwned`, `ContinuationFollowsAssertion`, `CounterIsCommitted`, `CountersIncrease`, `SameContext`, `RequestEnds`; `RequestReadAlone`, `AcceptedIsServed` |
| `agent_service` | 1 agent, 2 registrations, 1 interaction, 2 prompts | `ApprovedByUser`, `NeverInvalidTransition`, `SecretForPrompt`, `NothingPending`, refinement of `InteractionFlow`, `CeremonyEnds` |
| `agent_ui` | vauth-ui, 2 interactions, 1 prompt, 1 start-up event, 2 signals on the way | `AllowedOnScreen`, `ControlsAreCurrent`, `ClientClosesRequest`, `WindowCloses`, refinement of `InteractionFlow` by what is displayed |
| `verifier` | 3 PAM messages; limits of 2, 4 and 3 bytes for session ID, text and secret | `OnlyPamDecides`, `SessionStillActive`, `NoConversationError`, `WorkerEnds`, `BrokerFollowsClient`, `VerificationEnds`; `CodecExact`, `SecretUnchanged` |
| `lifecycle` | 2 administrators, 4 authorizations, 2 openers, 2 credentials, 2 database keys, 2 transient objects | `InstalledOpensObjects`, `SavedOpensObjects`, `AllOrNothing`, `CredentialsUsable`, `InUseKept` |

The comment above a property says what it means for the code.

*Functions.* `RequestReadAlone`, `AcceptedIsServed`, `CodecExact` and
`SecretUnchanged` are about functions, not about steps. Each compares the code's
function with a reference definition on every sampled input; the samples are in
the `MC` modules and put each member at, and one past, its limit, absent, repeated
or of a wrong kind. They are stated as `Init => ...`, so that TLC evaluates them once
per initial state. `RequestReadAlone` parses every payload into a new request
object and into one that another payload, complete or refused midway, was parsed
into, and also with its members reordered, damaged or accompanied by unknown ones.
`AcceptedIsServed` says that a request the parser accepts can be stored and answered
within 7609 bytes for every combination of options. One case is excepted by name: a
user with an empty ID is accepted by `parse_user` and refused by
`validate_credential`, after the user has approved and the TPM has made a key.

*Why the bounds are enough for the questions asked.* Four generations allow a
commit, an interrupted commit, its recovery and another update, and reach the
generation limit. Five frames allow two channel allocations, an assertion, its
continuation and an INIT or CANCEL in between; a counter can rise twice. Two
registrations are what it takes for a stale one; two interactions (`agent_ui`)
for an answer to arrive in the wrong one; two prompts for a secret to. The second
agent that `agent_service` leaves out is covered by the theorems, which hold for any
set of agents; its liveness is not, but the worker's waits do not depend on who
else is registered. `agent_service` publishes no informational PAM messages
(`MaxQueued = 0`); `agent_ui` does. Three PAM messages allow a status, a prompt and
another message after the secret. In `lifecycle` one administrator can win, lose or
come later beside another, a lost authorization can be replaced, and two transient
objects are the least with which the TPM can sign, so a single leaked handle shows.

*Symmetry* is used for channels in `frame_assembly` and for administrators,
openers, credentials and authorizations in `lifecycle`, which check only safety.
Deadlock is checked for the store and for the lifecycle, which can always go on. The
other models stop when their bounded inputs are used up or the process has ended.

*Fairness.* `EventLoop`: the loop picks up a completion, the worker takes its
steps, and `join` returns. The loop polls with a timeout while a request is
active, and the worker's waits end with an answer, a timeout or the stop token.
A frame that is handled leaves the iteration by `continue`, before the
completion is looked at; `RequestEnds` therefore speaks of hosts that pause, which
the bound on frames provides. `AgentService`: the worker runs, and its deadline
passes; the fairness of the deadline is strong because time also passes while
the worker is between two waits. Nothing is assumed of agents. `Verifier`: each
process is scheduled, the client's deadline comes, an interrupted child ends.
Nothing is assumed of PAM, which may never return.

### Where code and documentation disagree

Five runs are expected to find a violation.

1. `store_recovery_unsettled`. A process ends between `rename` and the directory
   `fsync`; the next one loads the renamed file and advances the counter; a power
   failure undoes the rename. The old file is behind the counter and is rejected
   as a rollback. `ARCHITECTURE.md` says that the file is committed before the
   counter.
2. `registration_kept`. `current_context` finds its agent's session inactive and
   unregisters by bus name; the same connection has registered again meanwhile,
   and loses the new registration.
3. `cancelled_published`. A CancelInteraction that is accepted after the ceremony
   has its outcome suppresses the terminal state, and no `cancelled` is published.
4. `verifier_decision`. The PAM child sends its completion and exits after the
   broker's last read and before its `waitpid`; the broker reports that the
   verifier exited without a completion message.
5. `ui_duplicate`. After a submission the window disables its buttons but not the
   password field: Return submits again, the daemon refuses, and the error path
   cancels the interaction. `docs/agent-api.md` says "Disable controls after the
   first response so duplicate callbacks cannot reply."

## Proofs

All theorems are checked by TLAPS from the named `ASSUME`s of the modules, which
state types of the constants and relations between the frame sizes. The store's
theorems have `SettledBeforeRecovery` as a hypothesis besides.

| Module | Theorems | For every |
|---|---|---|
| `DeviceProofs`, about `CredentialStore` | `TypeCorrect`, `AlwaysRecoverable`, `NeverTakenForRollback`, `AnswersCommitted`, `Implements`, `MapWellFormed` | set of processes, credentials, accounts; generation and counter limits; given `SettledBeforeRecovery` |
| `DeviceProofs`, about `FrameAssembly` | `FrameTypes`, `ReassemblyExact`, `NothingAssembledWhileActive`, `SequenceNeverWraps`, `EveryMessageSettled` | set of channels, frame sizes and message lengths that fit 128 continuation frames |
| `EventLoopProofs` | `EventLoopTypes`, `RequestsAnsweredOnce`, `ContinuationOfAssertion`, `SignedCounterCommitted`, `AssertionsOfOneContext`, `HandlerOwnedByOne`, `CountersGrow` | set of channels, user contexts and credentials (finite), loaded stores; number of frames, requests and signatures; frame sizes |
| `VerifierProofs` | `TypeCorrect`, `ReportsPam`, `SuccessVouched`, `ConversationsSound` | number of PAM messages |
| `VerifierProtocolProofs` | `EveryPacketExact`, `EverySecretUnchanged` | limit of each field; set of messages, byte strings and secrets of any length |
| `DaemonProofs`, about `Provisioning` | `TypeCorrect`, `OneAuthorization`, `RecoveryPossible`, `CleansUp`, `NeverReprovisioned` | set of invocations, other lock holders and authorizations |
| `DaemonProofs`, about `Daemon` | `ImplementsProvisioning`, `StoredKeysUsable`, `InUseNeverReplaced` | set of openers, credentials and database keys; at least 2 transient objects |
| `AgentServiceProofs` | `BeginNeverRefused`, `OnlyTheUserApproves`, `SecretReachesItsPrompt`, `TransitionsValid`, `AgentsSeeTheFlow` | set of agents; number of registrations, interactions, prompts and queued events |
| `AgentUiProofs`, on the lemmas of `AgentClientProofs` | `ClientRunsTheService`, `ApprovedOnScreen`, `ControlsCurrent`, `ClientReleasesRequest`, `WindowIsClosed`, `ScreenRefinesFlow` | number of registrations, interactions, prompts, start-up events and signals on the way; restarts of the client |

*Credential store.* `IInv` adds to `Recoverable` that only the lock holder is up
and, per program point, what the process knows (`Knows`): in the middle of a
commit its candidate is one operation ahead of what is committed, after the
rename the visible file is that candidate, after the directory sync the durable
one is too. Without it, nothing says that the counter increment commits the file
that is there. `Implements` uses the same invariant: the increment is the abstract
`Commit`, every other step stutters. `MapWellFormed` is an invariant of the
abstract store carried over by the refinement.

*Frames.* `FrameInv` relates three places a message is in: what the host has still to
write is the rest of its message (`RestOfMessage`), what was assembled is its
beginning (`BeginningOfMessage`), and the sequence number counts the
continuation frames so far (`Counted`). Lemmas about `Stringify`, prefixes and the
ceiling division that counts frames are stated once.

*Event loop.* `EInv` relates three owners of a request. Between loop and worker: a
worker runs exactly while a task is active and works on that task (`TaskIsActive`),
what it publishes is that task's result (`ResultOfTask`), and a discarded task was
cancelled (`DiscardCancels`); with `AnsweredOnce` itself and `KeepaliveIsActive` this
is inductive. Between worker and later requests: a continuation belongs to a channel
whose last answer was, or is about to be, an assertion (`SequenceOfAsserted`), and to
the context of the last GetAssertion (`SequenceOfContext`). Between copies and store:
`CopiesCurrent` says that the copies a sequence keeps are of different credentials and
agree with the store. It is why a counter computed from an old copy is still right:
the only writer between two assertions of a sequence is the sequence itself, because
every other command that writes the store drops it first. `ReleasedBehind` bounds the counters hosts have
seen. `released` is history: the last counter sent for a credential, 0 for a newly
created one. The proof uses that any set of credential IDs has a natural number of members
(`FiniteStore`), for the enumeration of the store, that a sequence's origin can be told from no origin
(`OriginIsChannel`), and the types of the constants. The loop's many early returns are
reduced by one lemma to five effects: it replies, cancels, resets an idle handler,
aborts or accepts (`LoopStep`).

*Verifier.* A decision travels from PAM through two queues and the broker.
`IInv` says of every result in either queue, and of the broker's stored
completion, that it is PAM's decision, and of every success on the way to the
client that a session check succeeded after PAM had decided. `ConversationsSound` has
an invariant of its own, `Conversing`: on each of the two connections packets are
under way in one direction only, and once they have arrived both ends are in the same
state (`InStep`); at each program point the state is the one that point needs. It holds
only while both ends live, so every death is a separate case.

*Verifier packets.* The codec functions are loops over bytes. Without induction over
data they are proved by least counterexample: if the validator and the reference
differ on a text, there is a first position at which they differ, and the loop's
equation at that position contradicts it (`LoopExists`, `LoopUnique`, `TextsAgree`; the
well-foundedness of the naturals comes from the library). The same argument shows that
the pipe reader's loop has exactly one outcome, whatever sizes `read()` returns
(`OutcomeTurns`, `OutcomeUnique`).
`most`, how much one `read()` may return, ranges over everything from one byte to the
whole buffer. What is encoded, decoded and read are the constants `Messages`, `Packets`
and `Secrets`, of which only the types are assumed (`InputsTyped`); `MCVerifier` gives
TLC small ones.

*Provisioning.* `IInv` adds who holds the lock, that a unit works with the
installed authorization, that what is installed or in a unit's hands was saved, and
what each clean-up step knows about the objects it is about to delete. A power
failure may undo the installation; what remains then is that the objects open with
a saved authorization (`RecoveryPossible`).

*Daemon.* An opener is one of the lock holders that `Provisioning` already allows, so
the composition implements `Provisioning` (`ImplementsProvisioning`) and its invariant
carries over. `DInv` adds that the lock is held by exactly the opener that is past
`CredentialStoreLock`, that such an opener has the database key of the present seal,
that the transient objects are a parent and at most one key, and that once the store
has been loaded no run is left that could create or delete an object. The last part
is the heart: provisioning and openers exclude each other by the lock, and a unit
that finds the objects of a store in use fails before it has created anything it
would clean up.

*Agents.* The worker owns the pending interaction from `begin()` to the end of its
scope, but the D-Bus thread may answer or drop it at any moment. `IInv` therefore has
two kinds of conjuncts: what the registry guarantees of a pending interaction
(`Owned`, `Answers`, `SecretPending`), and what its state may be where the worker
stands, as long as the worker's agent is registered (`Plan`, `Stage`, `SecretTaken`,
`Granted`). The second needs that a registration never comes back, which holds because
generations only grow. `AgentsSeeTheFlow` shows that sending a queued event is a step
of `InteractionFlow` and every other step is silent; its invariant says that the
queued events of a request, in order, continue the flow from the last one sent.

*The window.* The client is first shown to be one of the agents the service is proved
against: every step of the composition is a step of `AgentService` or leaves the daemon
alone (`ClientRunsTheService`), so the service's invariant is available. `Base` adds who
is registered and connected and that every consent was clicked. `ScreenInv` follows a
request from the tracker over the hand-over to the window: what was handed over or is on
the screen is still the tracker's, or its end was handed over behind it. `Cancellation`
and `ClosingInv` do the same from the daemon's queue over the bus to the tracker: a
request is pending, cancelled, or its end follows. A cancellation is excepted because of
disagreement 3. `DisplayInv` says of every place a state passes (queue, bus, hand-over,
window) that it follows the state before it of the same request and that requests come
in order; what the tracker drops is a repeated prompt, which the flow allows to be
dropped, or a request it never began. `ScreenRefinesFlow` follows, with a stutter for
every step that does not change the window.

## Only model-checked

- Liveness (`RequestEnds`, `CeremonyEnds`, `WorkerEnds`, `BrokerFollowsClient`,
  `VerificationEnds`) is outside what the prover does.
- `RequestReadAlone` and `AcceptedIsServed`: `RequestParsing` reads nested items with
  recursive operators, and a statement about every payload needs an induction over
  them that the prover cannot do. The samples are described above.
- The environment assumption `SettledBeforeRecovery` is a hypothesis of the store's
  theorems, not proved; the code does not guarantee it (disagreement 1).

Every other property of the passing runs is also a theorem.

## Not modelled

- Cryptography, logging, hex encoding, option parsing, listing and the debug agent's
  terminal loop: functions of one input or pure output.
- TinyCBOR, logind, the kernel's UHID events, OpenSSL and the TPM's own structures:
  external; they appear as the outcomes the code distinguishes.
- In `tpm.cpp`, the key templates and the checks of what the TPM returns.
- CBOR integers beyond 64 bits: `cbor_value_get_int64` wraps them without an error.
  `RequestParsing` wraps too, but the reference reading is defined only inside the
  range, and so are the samples.
- After a cancellation that was accepted late (disagreement 3) the tracker of the
  client keeps the request open. `ClientClosesRequest` and `WindowCloses` except
  cancelled requests for this reason.
