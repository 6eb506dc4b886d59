# Verification of indie

TLA+ models of the program in `src/` (paths below are relative to it), the TLC
runs that check them on small instances, and theorems about them that TLAPS
checks for every value of the constants. `PROJECT.json` maps every definition
to the lines it stands for.

    tlc -workers 2 -config EntityManager.cfg EntityManager      # a run
    tlapm EntityManagerProofs.tla                               # proofs

## 1. Inventory

The repository's own code is about 2700 lines; the rest is `3rdParty/`.

| Part | State | Operations | What makes it correct |
|---|---|---|---|
| `SparseSet` (`ecs/.../details/SparseSet.hpp`) | two vectors, size, capacity | Insert, Erase by value and by iterator, Clear, Reserve, Has, IndexOf, iteration | Has, iteration and Size describe one set, whatever stale cells there are; stores stay in the vectors |
| `Pool` (`ecs/.../Pool.hpp`) | a SparseSet of owners, a vector of components and its capacity | Assign, Replace, AssignOrReplace, Delete, Get, Reset, Reserve, ForEach | an owner finds the component it was given; references stay valid as long as there is room; ForEach visits each owner once |
| `EntityManager` (`ecs/.../EntityManager.hpp`) | live ids, free ids, the static counter of `Create`, the pools | Create, Destroy, Destroy<C...>, Assign, Replace, AssignOrReplace, Delete, Reset, Reset<C>, Reserve | created ids are new, also to other managers; only live ids own components; destroying while iterating is exact; no id is lost |
| `Filter`, `ForEach` (same file) | two iterators held across callbacks | ForEach<C...> with callbacks that call the manager | each owner is visited once; the iterators stay valid |
| `System`, `SystemManager` (`ecs/.../System.hpp`) | a map from type ids to systems, one flag each | Add, Update, Activate, Deactivate | a pass updates each active system once; none starves |
| `Game`, `Window` (`bomberman/`) | `_is_running`, the device | the loop around `Update` | it ends when the window is closed |
| `Server`, `Session` (`server/src/Main.cpp`) | acceptor, sessions held by their pending handlers, signal set | StartAccept, HandleAccept, Session::Start, HandleRead, signal | one accept on its way; sessions end; the signal stops it |
| `EventManager`, `Observer` (`event/`) | none: the bodies are stubs | - | not modelled: nothing happens (`event/tests/EventManager.cpp:28` expects otherwise) |
| `Logger`, `StringFormat` (`log/`) | the level; in a call, the text and the number of the next argument | Log, FormatMsg | in a call that uses each number once and skips none, each place `{n}` becomes argument `n` and nothing else changes; nothing is written below the level |
| `OS` (`log/`) | none | the text of the time | not modelled |
| `TypeList`, `Tuple` (`meta/`) | none | evaluated by the compiler | not modelled |
| `Packets.hpp`, empty server headers | none | - | not modelled |

How they interact: a `Pool` is a `SparseSet` by inheritance and a manager has
one `SparseSet` for the live ids, one for the free ids and a `Pool` for each
component type that was used. `ForEach` calls back into the code that owns the
manager; `SystemManager::Update` calls systems, which hold a pointer to the
manager and may add systems; `Game` loops over `Update`. The server is a
program of its own, driven by `boost::asio`.

What is hard: nothing runs in parallel (one thread in each program), so the
hazards are of another kind. Data structures leave stale cells behind and read
them; lists are erased from and added to while somebody iterates over them;
callbacks reenter; legal calls in a long sequence leave two structures out of
step; references outlive what they refer to; a text is searched again after something was
put into it; unsigned numbers wrap; loops have to end. In the server completions,
signals, clients and the limit of descriptors interleave. `PROJECT.json` lists
the hazards line by line.

## 2. Modules

| Module | Models | Used by |
|---|---|---|
| `SparseSet` | the set as a record, one operator per member function; no variables | everything in `ecs/` |
| `SparseSetClient` | one set and an arbitrary client, one action per member function | |
| `Pool` | a pool as a record of a set and a sequence | `PoolClient`, `EntityManager` |
| `PoolClient` | one pool, the capacity of its vector, and a client that keeps to the `@warning` paragraphs and keeps one reference | `PoolForEach` |
| `PoolForEach` | a running `Pool::ForEach` step by step, with callbacks that call the pool | |
| `ComponentMap` | what a pool promises: a partial map | `PoolClient` implements it up to a Delete, and again from the next Reset on |
| `EntityManager` | the manager and a caller that respects the documented preconditions | `EntityForEach` |
| `Registry` | what a manager promises: live entities and owners | `EntityManager` implements it for the tidy caller |
| `EntityForEach` | a running `ForEach<C...>` step by step, with callbacks that make any call of the manager, a step at a time | |
| `SystemManager`, `Game` | the update loop; the program around it | `Game` extends it |
| `Server` | the server, its sessions, the clients and the reactor | |
| `Reception` | what the server promises: connections are served in their order, each by one session | `Server` implements it |
| `Logger` | one call of `Log`, argument by argument | `MCLogger`, which chooses the arguments for TLC |
| `StorageTheorems` | lemmas about the operators of `SparseSet` and `Pool` | the proofs in `ecs/` |
| `SparseSetProofs`, `PoolProofs`, `EntityManagerProofs`, `EntityForEachProofs`, `SystemManagerProofs`, `ServerProofs`, `LoggerProofs` | theorems about the module they are named after; `PoolProofs` is about `PoolForEach` too, `SystemManagerProofs` about `Game` | |

How state corresponds to the code:

* A set object keeps what the vectors hold beyond `size`, because `Has` reads
  it. `Limit` is the number of values of the unsigned type, so that `val + 1`
  wraps as in the code. `Reserve` keeps old cells and zeroes new ones.
  `Erase(it)` is modelled with its alias: `Erase(*it)` passes a reference into
  `_dense`, and the first store of `Erase` changes what the second one reads
  through it (`SparseEraseAt`).
* Undefined behaviour (a store outside a vector, a null pool, a dangling
  iterator) sets `ub`; after that nothing is modelled. An `ub` in a behaviour
  is a statement about the code, and the properties `CausesOf...` say exactly
  which calls lead to it.
* `Create` is two actions, one for each branch of its `if`. `Destroy(a, b)` is
  `Destroy(a)` and then `Destroy(b)`; `Delete<A, B>` and `Reset<A, B>` likewise.
  `Reset()` and `Destroy<C...>()` are modelled entity by entity
  (`StartDestroyAll`, `DestroyAllStep`, `DestroyAllEnd`, with no type for
  `Reset()`), because they erase from the list they iterate over; no other
  call comes in between, as in the code.
* A component carries the entity it was made for in place of data, so that
  "reads another entity's component" can be said.
* When `std::vector` moves is its implementation's choice: `Reserved` lets the
  capacity after `reserve` or `emplace_back` be any that is enough, and a
  reference survives exactly as long as the capacity stays (`Surviving`). A
  reference is kept as a place in `_components`, and `held` is obtained from
  `Get` or from `Assign`. In the two iterations `_dense` may or may not move when it
  grows.
* `Create` counts with a `static` that all managers of an `EntityType` share.
  `CreateElsewhere` is a `Create` of another manager, which in this one changes
  nothing but the counter; `elsewhere` remembers the ids. The counter wraps like
  the type, but `Insert` of the largest value is undefined before it does.
* `Pool::ForEach` takes `End()` anew at every turn and copies the component;
  `EntityManager::ForEach` takes `End()` once and hands out references. So the
  first visits what callbacks add, and steps over its end when they leave fewer
  owners than it has passed; the second reads stale cells instead.
  The references that `EntityManager::ForEach` hands out are not modelled, only
  the iteration that hands them out.
* The callbacks of `EntityForEach` take any step of `EntityManager` (`CallbackCall`): every
  call, `Reset()` and `Destroy<C...>()` entity by entity, and a `Create` of another manager. What
  a step does to the iteration is read off the list before and after it
  (`Track`), whichever call made it. A callback does not start another ForEach.
* `Logger`: a text is a sequence of characters. A format is put together from
  places and from the characters `Letters`, an argument has one of the `Texts`;
  both are parameters, and `MCLogger` takes the characters that mean something to
  `FormatMsg` and one that does not. A call chooses its format and arguments at the start; `Substitute` is one instance of the recursive
  template.
* In `SystemManager` a system object is its number in the order of `Add`, the
  map an ordinary function from ids to objects, the iterator of the range-for
  the id it is at: `std::map` keeps iterators valid and meets what is inserted
  behind them, which is what `Ahead` says. `Has`, `Remove`, `Activate<T>` and
  `Deactivate<T>` of the manager use `operator[]` on a const map and cannot be
  instantiated: no program contains them, and neither does the model.
* In `Server` the queue `ready` is asio's queue of completed operations, and
  a session exists as long as a handler that holds it is pending (`Open`).
  `accept(2)` looks for a free descriptor before it looks at the backlog, so at
  the limit a failed accept is queued at once, started again by `HandleAccept`,
  and fails again: `TryAccept` says so. Reading never fills the session's
  buffer, so `async_read` ends with the connection. The `async_read` of
  `Session::Start` may complete at once, without the reactor, if the client has left by then;
  the model completes reads by `PollRead` only. The handler is queued either
  way, a little later here, and no property tells the two apart.
* `Reception` sees of the server the connections without a session (`Waiting`: the
  client whose accept is completed, then the backlog), the clients with one
  (`Serving`: the read is pending, or completed and not handled), and whether it
  was asked to stop. Failed accepts, descriptors and the queue are stuttering to it.

## 3. Runs

| Run | Checks | Shows |
|---|---|---|
| `SparseSetByValue` | `TypeOK` `IterationExact` `NoOverrun` `CallsExact` | erased by value, the class is a set of integers; stale cells never count as elements; stores in bounds unless the largest value is used |
| `Pool` (module `PoolForEach`) | `TypeOK` `OwnersExact` `UnspoiledReadsBack` `VisitedAsListed` `MissedOnlyIfTakenBack` `ReferencesKept` `OnlyDeletedSlotsMislead` `ImplementsComponentMap` `CausesOfWalkUB` | up to a Delete, and again from the next Reset on, a pool is a map and references hold; owners are exact always; just two ways to lose a component, just three to break the memory; what callbacks may do in `Pool::ForEach`, and which owners it misses |
| `PoolGet` | `ReadsBack`, violated | after a Delete, Get returns somebody else's component |
| `EntityManager` | `TypeOK` `OwnersLive` `IdsAccounted` `IdsNotShared` `FreeIdsUnused` `DestroyAllExact` `CausesOfUB` `LostForGood` | what holds for every caller within the contract, and how and only how it goes wrong |
| `EntityManagerTidy` | `NoUB` `CreateIsNew` `ImplementsRegistry` | what a caller has to respect to get what the class promises (two component types) |
| `EntityManagerCreate` | `CreateIsNew`, violated | with two free ids Create returns a live id, for good |
| `EntityForEach` | `VisitedOnce` `CausesOfWalkUB` `CausesOfMisreads` | which of all callbacks keep ForEach exact, the four ways to break the memory, and the three in which an owner comes to find another's component |
| `EntityForEachOnce` | `EachOnce`, violated | a callback that destroys and then creates makes ForEach miss an owner |
| `SystemManager` | `TypeOK` `IdsApart` `OncePerUpdate` `SteadyUpdated` | a pass is exact whatever systems do to the manager; nobody starves |
| `Game` | `ExitsWhenClosed`, violated | the program never ends |
| `Server` | `TypeOK` `OneAccept` `ImplementsReception` `StopsWhenAsked` `DescriptorsFreed` `EveryoneServed` `ComesToRest` | the chain of accepts never breaks or doubles, also while accepts fail; no connection is lost, served twice or out of its turn |
| `Logger` (module `MCLogger`) | `FilledAtOnce` | which calls get the message they ask for, although each search runs over what the earlier ones have left |

Two callers appear in `EntityManager`. `Spec` is any caller within the
documented contract. `TidySpec` is the caller that the code as it is serves
well: it creates only while at most one id is free, and replaces only what is
owned. The gap between the two is `FreeIdsUnused`, `LostForGood` and
`CausesOfUB`: with two free ids, `Create` erases the first through an iterator,
the list keeps an id at its head that its index does not find, and from then on
every `Create` returns that id (`LostForGood`) and `Destroy` can overrun the
list's vectors. `CreateIsNew` is the run that shows it.

The violations found in the code that no run of their own demonstrates: Insert
of the largest value of a narrow `T` stores out of bounds (`NoOverrun` and the
`CausesOfWalkUB` of `PoolForEach` name it as the exception, and for `Create`, whose counter
gets there after `Limit - 1` entities, `CausesOfUB` and the `CausesOfWalkUB` of `EntityForEach`); `EntityManager::Assign` of an
owned component appends another one although its comment says it does nothing
(a cause in `CausesOfMisreads`), `Replace` of a missing one writes to a stale
place or through a null pointer (a cause in `CausesOfUB` and in the
`CausesOfWalkUB` of `EntityForEach`); `Pool::ForEach` "iterates through each entities
holding a component" (`Pool.hpp:192`), but misses an owner when the callback deletes and that
owner moves into the cell just read (`MissedOnlyIfTakenBack` says that it misses no other); a
second `SystemManager::Add` of a type constructs and returns a system that is not
registered, though it says that it does "Construct a new system and register it"
(`System.hpp:129`): the `emplace` of line 146 finds the type taken.

`Plain` in `Logger` lists what a call of `Log` has to respect to get the message it
asks for, and dropping any of its conditions makes `FilledAtOnce` fail. Each number
of an argument is used once at most, as only the first `{0}` of a format is filled. None is
skipped, as the first argument without a place ends the formatting. Arguments can
be printed: a string literal is written as the name of its type (`StringFormat.hpp:11`). They have no
braces, as a text with braces may be taken for the place of a later argument, and nor
has the format outside of its places. Places have one digit, as those from `{10}` on leave a character
behind (`Logger.hpp:147`). No doc or test says what calls that are not plain
should give, so no run shows them as violations.

`UnspoiledReadsBack`, `ImplementsComponentMap` and `OnlyDeletedSlotsMislead` together say how
far the promise of `Pool` reaches: it holds while `_components` is as long as
the list of owners, a Delete ends that, and a Reset restores it. `ReferencesKept`
has the exception a reader would miss: `Assign` compares the place of the new
owner with the capacity (`Pool.hpp:42`) but appends behind all components, so
that after deletions the vector may grow, and move, although the owners fit.

### Bounds

* `Limit` 3 to 5 for the width, ids 0..2 (0..3 for a set alone and a pool, 0..1 with two
  component types): a set needs three
  elements for an erasure from the middle with an element that stays in place;
  losing the head of the free ids takes two free ids, and the overrun that
  follows two more calls. All theorems hold for every width and number of ids.
* `Countable` in `EntityManager` bounds the counter of `Create`: it hands out the ids
  below `MaxEntities`, and can be used at its largest value, which `EntityManager` and
  `EntityForEach` reach (`Limit` is `MaxEntities + 1` there). The tidy caller does not use it there.
* `MaxComponents` 2 to 5 bounds the length of `_components`, which otherwise
  grows for ever, as Delete never shortens it. `Pool` has
  room for three owners and a left-over component, and for each capacity up to four; `EntityForEach` for three
  owners; `EntityManager` for two owners or one and a left-over component. That is too little for each
  way to misread: an owner has to join after a double Assign or a component left over. So
  `CausesOfMisreads` is checked in `EntityForEach`, whose callbacks make any call, and which
  meets all three causes.
* Two component types in `EntityManagerTidy`, one elsewhere: pools do not see each
  other, and the calls that touch several (`Destroy`, `Has<A, B>`) are covered there.
* `EntityForEach`, `PoolForEach`: a behaviour has one ForEach (`over`); before it the
  caller leaves any stale cells it likes. Of the calls of `EntityManager` the caller of `EntityForEach`
  makes three kinds before it (`OutsideCall`): `Create` of a fresh id, `Destroy`, and `Assign` of what is not owned.
  `MaxCalls` bounds the calls that all callbacks of one ForEach make together (a `Reset()` with
  all its steps is one): five in `EntityForEach`, enough to reach each of the four
  ways to break the memory, and three in `EntityForEachOnce`. In `Pool` the entities are 1 to 3 of four
  values, so that the largest one is among them.
* `Logger`: the base of the digits is a parameter. With base two the third
  argument already has a place of four characters (`{10}`), so that formats of three
  pieces and calls of three arguments show what takes eleven arguments with base ten.
  Calls have every level, below, at and above the one of the logger.
* `SystemManager`: three types, four objects, so that a type is added twice and a
  system is inserted before, at and behind the iterator. A program has finitely
  many types; ids never wrap.
* `Server`: three clients and two descriptors, so that the limit is reached and
  left. A client connects once; the sessions of distinct connections are alike.

Mutants (operators whose comment begins with "Mutant") are plausible slips in the code; none is used by
a specification. Each property of a passing run is violated when one of them
takes the place of the definition it varies.

### Fairness

* `SystemManager`: weak fairness of each step of `Update` and of calling it
  again. One thread runs a loop without a condition that waits; a system whose
  `Update` never returns is excluded by `WF(SystemReturns)`, an assumption on
  the systems. `Add`, `Activate` and `Deactivate` are never forced to happen.
* `Game`: weak fairness of the loop of the one thread; the user need not act.
* `Server`: `io_service::run()` takes the first completion as long as there is
  one (weak fairness of `Handlers`; the queue is first in, first out, which
  makes weak fairness enough), and polls the reactor between handlers, so each
  descriptor that stays ready is found (one condition for each). Clients and
  signals are not fair. `EveryoneServed` assumes explicitly that the process
  is below its limit again and again, `ComesToRest` that it is for ever.

The sequential components (`ecs/` storage) have safety properties only.

## 4. Proofs

TLAPS proves, for every width, set of ids, set of component types and bound:

* `StorageTheorems`: what each operator of `SparseSet` and `Pool` does to a
  coherent set or pool - which members result, where each of them is placed,
  that the shape is kept - and what `SparseEraseAt` does to the first cell.
  The other modules cite these lemmas.
* `SparseSetProofs`: `TypeCorrect`, `IndexStays`, `IterationIsExact`,
  `NeverOverruns`, `CallsAreExact` and
  `OnlyIteratorErase`: an erasure through an iterator before the last element makes the
  index wrong, and no other call does. The invariant is the shape plus `Coherent`: `sparse`
  inverts `dense` on the listed elements. It is what makes a value that is
  no member and fits the capacity leave a free slot (a pigeon-hole argument, in
  `RoomLeft`), hence `NoOverrun`.
* `PoolProofs`: `TypeCorrect`, `OwnersAreExact`, `ReferencesAreKept`,
  `OnlyDeletedSlotsMisleadPool`, `UnspoiledReadsBackPool` and `Refinement` (of
  `ComponentMap`). The invariant adds that there are at least as many components
  as owners. A Delete removes an owner and no component, so that
  from then on the two lengths differ until a Reset: that is what makes "as many
  components as owners" mean "nothing was deleted", without a history variable.
  `VisitsAreExact` and `CausesOfWalkUBAreThree` are about `PoolForEach`: the
  invariant adds that entities that own nothing have not been visited, so that one
  that is added behind the iterator is visited for the first time. `MissesAreTakenBack`, where
  callbacks delete too, compares the places of the owners before and after each call: a Delete
  changes that of the last owner only (`DeletePlaces`).
* `EntityManagerProofs`: `TypeCorrect`, `OwnersExist`, `FreeIds`,
  `ManagersApart`, `IterationsAreExact`, `LostIsForGood`, `CausesOfUBAreThree`,
  `CausesOfMisreadsAreThree` for every caller
  within the contract, `TidyIsSafe`, `TidyCreateIsNew` and `TidyRefinement` (of
  `Registry`) for the tidy one. None of the checked properties is inductive. `IInv` adds: the set of live
  ids and those of all pools are coherent, though the list of free ids may not
  be; that list is either coherent and apart from the live ids, or has lost its head;
  and, during `Reset()` and `Destroy<...>()`, the entities in the cells ahead are
  distinct, alive, and not placed behind the cell they are read from. The last
  part is why erasing while iterating is exact: erasing moves the last entity
  into a cell at or before the current one and writes nothing ahead of it; the moved
  entity is still met in its old cell, before the end that was taken at the start,
  and its new cell has been passed. `CausesOfMisreadsAreThree` takes the calls one by
  one: a pool whose owners all read their own (`Reads`) still is one after the
  call, unless one of the causes is there.
* `EntityForEachProofs`: `StayingOwnersVisitedOnce`, `CausesOfForEachUBAreFour` and
  `CallbacksKeepManager` (only live entities own components, no id is lost or
  shared, also between two calls of a callback). The last rests on the fact that each call of a
  callback, a `Create` elsewhere included, is a step of `EntityManager`. The invariant of a tame iteration is that of
  `Reset()` with two additions. The entity at hand is in no cell ahead and has its
  place among the cells already read, so that destroying it writes there; and
  until something is destroyed the list ends at or behind the end of the
  iteration, so that creating writes there. The calls fall into four groups: those that
  leave the list alone (`SameListCall`), those that only add to it or reserve (`GrowthKeepsExact`),
  `Destroy`, and the steps of a nested `Reset()` or `Destroy<C...>()`, which
  destroy too (`DestroyKeepsExact`). A creation after a destruction breaks the second addition, the destruction of
  another entity the first, and `EntityForEachOnce` shows that it matters.
* `SystemManagerProofs`: `TypeCorrect`, `IdsAreApart`, `PassIsExact`.
  The invariant adds that the ids in use are 0 to n - 1 for n types,
  which is why the next id is that of no type, and that each system that has
  been steady so far and is behind the iterator has been updated. `Game` does
  nothing but call its manager (`GameCallsManager`), so this holds in the game as
  well (`GameUpdatesExactly`); and `NeverExits` says for every set of systems what the
  run of `Game` shows for one: `main()` does not reach its last line.
* `ServerProofs`: `TypeCorrect`, `ChainHolds` and `Refinement` (of `Reception`).
  `OneAccept` is stated with a cardinality; the invariant says it with the places of
  the queue: none holds an accept while one is pending, and exactly one does
  otherwise. The refinement needs more (`LaneInv`): each client is in one place only
  - the backlog, a completed accept, a session - and there once, and a completion is in the queue for a
  reason: a read is completed only for a client that has left, a signal was raised. With it each
  handler is a step of `Reception` or none: `HandleAccept` after a success is `Serve`,
  since the client whose accept is completed is ahead of the whole backlog, `HandleRead` is
  `EndSession`, `HandleSignal` is `Stop`, and a failed accept changes nothing.
* `LoggerProofs`: `CallsAreFilledAtOnce`. `FilledAtOnce` speaks of the end of a call;
  the invariant is about more calls than the plain ones (`Readable`): it says, after `k` arguments, that the text is the
  format with the first places of the first `k` numbers filled, that `k` is at most the number of arguments
  that have a place, and that it is that number when `FormatMsg` returns. One step
  needs that the next place found in this text is the first place of that number in
  the format: what stands for the characters before it has no place of its own,
  because an argument that has a place has no brace and a `{` that is left from the format begins
  a place (`FoundAreOpen`, `FirstFound`). That replacing three characters
  fills the place needs that places do not overlap (`PlacesApart`) and that a number below `Base` is
  written with one digit (`ToStringFacts`).
  For a plain call the first places are all places, and no number that has one is
  skipped, so that this is what `Expected` says (`PlainIsReadable`).
  The prover knows nothing of recursive functions, and the library's induction cannot be
  instantiated. `Induction` and `Smallest` say it for sets of numbers instead of
  predicates, from the well-foundedness of `<`; with them `to_string` and
  the library's `FlattenSeq` are shown to exist and to be the only functions that
  satisfy their definitions (`MadeExists`, `MadeAlike`, `BuiltExists`, `BuiltAlike`), which gives
  their equations, and from these what joining texts does (`FlattenConcat`,
  `CutText`, `Replacement`).

Assumptions: `Limit` is positive, the keys and ids are values of the type, and
the largest value of the type is no id (`MaxEntities < Limit`), as for that one
`Insert` is undefined.

`Logger` assumes a base of two to ten, any of the six levels, and that texts are sequences.

Every safety property of a passing run is proved, and so are the refinements. Liveness under
fairness is beyond the prover's reach, as is ENABLED, so `SteadyUpdated`,
`StopsWhenAsked`, `DescriptorsFreed`, `EveryoneServed` and `ComesToRest` are only
model-checked, and so are the four violations, of which `NeverExits` generalises one.
`CausesOfMisreads` is proved of the manager alone and checked under callbacks.
`IndexStays`, `OnlyIteratorErase`, `GameUpdatesExactly`, `NeverExits` and, for callbacks, the conjunction in
`CallbacksKeepManager` are proved only.

## 5. What is not modelled

* The order of destruction: a `Pool` is deleted through its base `SparseSet`,
  which has no virtual destructor (`EntityManager.hpp:105`). A question of types, not of the order
  of calls.
* `EventManager` and `Observer`: their members have empty bodies
  (`event/include/indie/event/EventManager.hpp`), so there is no behaviour to
  translate; what `event/tests/EventManager.cpp` expects is not there.
* `OS::GetCurrentTime`, and the time, level and name in front of a logged message.
* `meta/`: evaluated by the compiler. `Packets.hpp` and the empty headers of the
  server: nothing uses them.
* `Has`, `Remove`, `Activate<T>` and `Deactivate<T>` of `SystemManager`, which
  cannot be instantiated.
* The data of components, systems and messages; Irrlicht, `boost::asio` and the
  kernel beyond what the code sees of them; `3rdParty/` altogether, which is nearly all of the repository.

## 6. Plan

Done: `SparseSet`, `Pool`, `EntityManager` with their promises and proofs;
`EntityForEach`; `SystemManager` and `Game`; `Server`; the capacity of pools,
references and `Pool::ForEach`; the counter shared by managers and its largest value; `Logger`;
`Reception`; the proofs of all safety properties and refinements.

Proofs to come: the callers of the violated runs (which calls keep `ReadsBack`,
`EachOnce` and `CreateIsNew` true, beyond the tidy caller and tame callbacks), and what liveness
rests on: invariants that a step the fairness forces is possible whenever
it is needed.

To come, if the code goes there: event dispatch, once `EventManager` has bodies;
the parsing of packets, once the server reads them; an `EntityForEach` whose
callbacks keep the references they are handed, on top of `PoolClient`'s capacity (each
pool is checked alone so far).
