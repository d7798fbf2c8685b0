# Amalgamate in TLA+

Amalgamate reads the `.DS_Store` files that the macOS Finder leaves in every
directory. This directory is a verification development for its library,
`libamalgamate`, and for the command-line tool in `cli`: TLA+ models of the
code, configurations that check them with TLC, and theorems about them with
proofs for TLAPS. File and line references are to the repository.

The program is sequential. What is hard in it is not concurrency but *state that
outlives a step*: one `FILE *` that all activations of a recursion share, a
record that is filled again after a failed read, a property list cached beside
the bytes it was made from, a file that is written over while it is the only
copy, and error paths that leave at a dozen places with different things in
hand. The models aim at those.

## Inventory

A `.DS_Store` is a small database in one file: a header, the state of a buddy
allocator that maps block numbers to addresses, a header block, and a B-tree of
records whose nodes are blocks.

| Part | Code | State | Operations |
| --- | --- | --- | --- |
| Store I/O | `dsstore.cpp` 44-142, 337-627 | `ds_store_t`: header, allocator, header block, the `FILE *` | `ds_store_fread`, `ds_store_fwrite`, `ds_store_create`, `ds_store_free` |
| Block enumeration | `dsstore.cpp` 144-257 | C++ stack, stream position, the record in hand | `ds_store_enum_records` and its two sisters |
| Record | `dsrecord.cpp`, `dsrecord.mm` | filename, types, a union, blob, string, cached property list | setters, getters, `ds_record_fread`, destructor |
| Alias parsing | `alias.cpp` 89-176 | cursor, list of metadata entries | `alias_create_from_data` |
| Bookmark parsing | `dsrecord.cpp` 522-607 | cursor, tables of contents | `_ds_get_data_as_pBBk` |
| Dictionary conversion | `dsrecord.cpp` 55-383, `alias.cpp` 187-284, `cfutils.h` | Core Foundation objects and their owners | `ds_record_copy_dictionary` and what it calls |
| Commands | `cli/main.c`, `amgdump.c`, `amgconvert.cpp` | open file, store, array of dictionaries, status | `main`, `amg_dump_file`, `amg_convert_file` |
| Dump formatting | `dsstore.cpp` 259-328, `amgdump.m` | none | text on stdout |
| Application | `Amalgamate/` | none | a stub that throws "unimplemented" |

How they interact: a command opens a file and calls `ds_store_fread`, which keeps
the `FILE *` in the store; `ds_store_enum_records` walks the tree through that
same stream and calls `ds_record_fread` for each record; it hands each record to
a *record function*, which asks the record for a dictionary and prints or
collects it; the dictionary of a `pict` record needs the alias parser, that of a
`pBBk` record the bookmark parser. Nothing calls `ds_store_fwrite` yet, and it is
unfinished ("NOT YET IMPLEMENTED").

What makes each part correct, in a sentence:

* Store I/O: a store is loaded if and only if the file is whole, and is then the
  one in the file, also after any number of writes that were cut short.
* Enumeration: every record, in order, once; success only after the last.
* Record: what a successful read shows is what the file holds, whatever the
  record held before; the property list is that of the blob and is released once.
* Alias: all entries up to the sentinel, or nothing; never outside the data.
* Bookmark: what is returned is the whole chain of tables, with each entry's item.
* Conversion: the dictionaries nest as the data does; no Core Foundation object is
  released while something holds it, and what is left over is what the code is
  known never to release.
* Commands: no file left open, nothing used after its release; `--convert`
  prints all or nothing; the status tells which.

The hazards behind these sentences are listed in `PROJECT.json`, each at its line.

## Modules

`RecordStream` is the abstract specification of an enumeration: `Deliver` the
next record, `Finish` after the last one, `Fail` at any time. Two modules hang on
it: `BlockEnum` implements it and `Commands` is built on it. `Program` puts the two
together: the commands with the real walk in place of the stream, over the store
that each call finds, and its abstract specification is `Commands`.

`BlockEnum` is `ds_store_enum_blocks_core`. A store is a set of nodes, each a
sequence of cells in the order in which the code reads them; `stack` holds one
frame per activation with its local variables and the place it is at, `pos` is
the position of the shared stream, `record` the `ds_record_t` that is allocated,
`out` what the record function has seen. There is one action for each read, seek,
call and return. `IOError` and `ReadRecordFails` make any of them fail. The
constants are the stores; `FilesAssumption` says that each is a tree whose
records are numbered in order, and gives every node its level and the numbers of
the records before and up to it, which is what the invariant speaks about.

`StoreFile` is `ds_store_fread` and `ds_store_fwrite`. The file is a sequence of
cells, one for each value that is transferred; the structures in memory are a
function `mem` from *slots* to values; `at` is the slot that comes next. The
nested loops of the allocator's reader and writer are one walk `After` over the
slots, which they share; they differ in how many addresses they transfer, which
are the operators `PaddedCount` and `WrittenCount`. The client calls either
function, any number of times up to `MaxCalls`, on the same file or on a new one,
and each time from the start of the file, as a caller does who has just opened it. It
writes only a store that it has loaded (`owned`), never one from `ds_store_create`
alone; all that is said of the writer is said of loaded stores.

`StoreLayout` models no code. It says, without reading or writing, which cell of a
file is which field of a store (`IsLayout`): the header at the beginning, the
allocator at the offset that it names, the free lists one behind the other, the header
block at the address of the block called `DSDB`. What is proved of the reader and the
writer is said in these terms.

`Record` is one `ds_record_t`: setters, `ds_record_fread` in its ten steps, the
destructor. Core Foundation objects have numbers in the order of their creation,
and `live` holds those that are not released.

`Alias` is `alias_create_from_data`. The data behind the header is a sequence of
16-bit words; the cursor, the entry in hand and the list of entries are state.
`EntriesAreTheData` and `CompleteOrNothing` together say what is returned for any data:
the entries that stand there one behind the other, the sentinel and what follows it
not among them, and nothing at all only for a wrong header or for a next entry,
sentinel or not, that does not fit.

`Commands` is `main`, `amg_dump_file` and `amg_convert_file`. Each stage of
`ds_store_fread` may fail (`LoadFails`), with the set `Frees` of stages that free
the store. `open` and `live` are what the process owns, `file` and `store` the
local variables. A process runs `main` once, or is a client of the library that
calls several times, as `testReadableFiles` does.

`Program` is the composition. It has the variables of both modules; a call of a
command begins a new walk, wherever the one before has ended, a step of the walk
happens while the command waits for it, and the step with which the outermost
activation returns, or hands over a record, is one step of both. The refinement
mapping gives `Commands` the number of records of the tree as `total` and "running"
as `status` until the stack is empty.

`BookmarkData` says what a bookmark is: tables of contents and items at offsets.
`Bookmark` is `_ds_get_data_as_pBBk` with its local variables; `Overrun` is the write
behind one of the fixed arrays. The loop takes its condition from
`next_toc_offset` and reads at the header's offset, and so does the model.

`CoreFoundation` is the little of that library the code relies on, modelled from
its use: a heap of objects with counts and items, creation, retain, release, and
containers that retain what is put into them. An object whose count comes to 0 is
freed; what it held is released by `ReleaseItems`, one object at a time.

`Conversion` is what becomes of a record: the two record functions,
`ds_record_copy_dictionary` with each of its branches, and the recursions it enters
through bookmarks (`_pBBk_...`), aliases in aliases (`_alias_copy_dictionary`) and the
alias in an `icvp` list. One frame is one activation of a C function with the
objects in its local variables; its actions are named after the branch. A run of
setters without a branch is one key. It does not repeat the parsers: a bookmark is
handed over as `Bookmark` returns it, which by `ReturnedIsTheChain` and `EndsByTables`
is its one table (`OneTable`), and a bookmark with more is one of the outcomes that
stop the program (`RecordBookmarkOverrun`); an alias parses or does not, as `Alias`
says. One that does not stands also for data shorter than a header, at which the parser's
assertion fails. Of the header of one that does, the conversion has the lengths of the
two names: they are bytes of the file, no function compares them with the arrays, and
a longer name is read from behind its array (`AliasOverrun`). The step `FreeItems` is the inside of `CFRelease`: it is taken before anything
else happens as long as something freed still holds something, so that no function
sees a heap between two of its steps. `ConversionInvariant` holds the inductive
invariant of the objects and their owners. `ConversionStops` says which records are
sound: which activations a record leads to, level by level (`Reaches`), and what each
must be given (`Accepts`); with it comes the invariant about the levels. `ConversionData`
says what is to be shown as a graph of its own: a node is a kind of container and the
part of the record it shows (`Nodes`, `Contents`), so what is printed of the heap and what
should be printed of the record are the same function, `Tree`, of two graphs. `Tree` is a
function of the depth that is looked at (`Depth`), a number, so that nothing is
recursive over the data and theorems can be proved about it. The constants are the
records, and the aliases that there are, also inside of others (`Aliases`).

The `MC` modules hold the instances. `MCStoreFile` lays its files out from the
contents of a store, independently of the reader and the writer, so that reading
and laying out are checked against each other, and against `IsLayout`, which TLC
evaluates on each whole file (`LayoutAssumption`); `Trees` does so for the trees of
`MCBlockEnum` and `MCProgram`. The `Proofs` modules hold theorems.

A definition whose name has an underscore (`RestoreOffset_NoSeek`) is a mutant: a
plausible mistake in the definition that follows it. `PROJECT.json` names, for each
property of each run, a mutant with which the property fails.

## Runs

| Run | States | What it asks |
| --- | --- | --- |
| `block_enum` | 3028 | Is the walk right on every small tree, whatever fails? |
| `store_file` | 11232 | Are exactly the whole files loaded, and do writes leave them whole? |
| `record` | 301926 | Does a record that is used again show only what was read last? |
| `alias` | 31331 | Does the parser stay in the data, keep what is there and refuse only what does not fit? |
| `commands` | 6207 | What do the commands own, print and return at each exit? |
| `program` | 24489 | Do the commands with the real walk behave as with the stream, and return? |
| `bookmark` | 560 | Is what is read the chain of tables, and when does the loop end? |
| `conversion` | 34711 | Do dictionaries nest as the data, is every object released once, and does it end? |
| `dump_status` | violation | Is status 0 of a dump the sign of a readable file? |
| `written_list` | violation | Is the list of addresses written as it is read? |

Bounds, and why they are enough:

* `block_enum`: leaves of up to two records, up to three children, all shapes of
  height 0 and 1 and those of height 2 with up to two children and leaves of one
  record. Height 2 is where a frame waits for a frame that waits; three children
  give a first, a middle and a last child. The theorems cover all trees.
* `store_file`: the factor is 2 instead of 256 and there are two free lists
  instead of 32, so that one and two addresses are both padded cases and lists of
  length 0, 1 and 2 occur; the header block lies before or behind the allocator;
  the directory has one or two entries, also two of the name looked for. Each of
  the three whole files is also cut off at every cell and damaged in each field
  that is checked. Three calls are a write, a write over what it left, and a load.
* `written_list`: the same with three addresses, more than the factor.
* `record`: up to two records in the file, of each data type, with the second
  one also cut off or illegal; blobs with and without a property list; the bytes
  of a short read may or may not happen to hold one. Three
  operations (`MaxOps`) are a set, a read that fails and a read of the same
  record again, or two reads and the end of the record.
* `alias`: all chains of up to four words of 0, 1, 2, 3, an odd length and the
  sentinel, and up to six of fewer. `Word` is 20 instead of 2^16, even as that
  is: 19 as a length is padded to 0 as 0xFFFF is. Headers with a wrong size or
  version are included.
* `commands`: stores of up to two records, three calls, six command lines, one
  for each outcome of the dispatch.

* `program`: trees of height 0 and 1, one of height 2, one store whose root is out
  of range; two calls, so that a walk begins after one that ended anywhere, and
  `main` with each outcome of its dispatch.
* `bookmark`: no table, one with up to three entries, and two tables that name each
  other in every way; room for two entries and three tables, so that both arrays
  are filled exactly and overrun.
* `conversion`: one or two records. Pairs of all the plain ones; each special one
  alone and behind others: bookmarks whose arrays are nested, shared, cyclic, no list
  of offsets, too long or not UTF-8; aliases of up to two entries nested up to three
  deep, which parse or not, with dates that can be converted or not, and with names that
  fill their arrays or are a byte longer, at the top and within others; `icvp` lists
  that are dictionaries or not, with and without an alias. `MaxDepth` is 6, deeper
  than any sound record goes, so that only a cycle reaches it. `Depth` is 18, deeper
  than any of the records nests, so that nothing of the output is cut off.

Deadlock is not checked, because every one of these programs ends.

### Fairness

All liveness properties assume weak fairness of the steps of a running call: one
thread executes it, and every read, write and seek returns, with or without
success. A client is under no obligation to make another call, so the actions
that begin one (`CallFread`, `CallFwrite`, `LibraryCall`, `Call`, the setters) are not
fair. In `Commands` the enumeration is a stream that ends by assumption; that the
calls return also with the real walk is checked by `EveryCallReturns` in `program`,
and that the walk ends by itself by `Terminates` in `block_enum`. `EndsByTables` and
`Ends` are about loops and recursions that data controls: the first says when the
loop over tables ends, and when it does not; the second that a command whose records
are all `Sound` comes to its end, and that one with another record stops at it. `Sound`
is said of the data alone, so a recursion that goes deeper than the data, and exhausts
the stack, is no end of such a command.

### What the runs found

1. `amg_dump_file` (`amgdump.c:55`) does not look at what
   `ds_store_enum_records` returned. A store whose records can be read in part
   only is dumped in part and reported with status 0, and `testReadableFiles`,
   which is there to tell readable files, cannot see it. `amg_convert_file` does
   look. Run `dump_status`.
2. `dsstore_buddy_allocator_state_fwrite` (`dsstore.cpp:542`) writes 256 addresses
   where the reader, and the comment in it, want the next multiple of 256. A
   store with more than 256 addresses would be written with a list that is too
   short. Run `written_list`.

What no document of the repository speaks of is modelled as it is and is no
finding: `fclose(NULL)` after a failed `fopen` (`CloseNull`); the null dictionaries of a
date that cannot be converted, an alias in an alias that does not parse or an `icvp`
list that is no dictionary (`EnumNullDictionary`, `NullDictionary`, `AliasNull`,
`IcvpNotDictionary`); a string that is not UTF-8 (`ItemNotUTF8`); a name in an alias
longer than its array (`AliasOverrun`); the date in an alias
that shows an uninitialized variable if it cannot be converted (`ValuesOf`, a choice, of
which no property speaks: `PrintedMirrorsData` leaves records with such dates out);
the second table of a bookmark, which is never read (`TableDone`), and the arrays that
are then overrun; the items longer than their place (`ItemOverrun`); the objects and
the stores that are never released (`LeaksAreKnown`, `LoadFails`, `ReturnConvert`).

## Theorems

The proofs hold for all values of the constants that satisfy the assumptions
named below, and all of them rest on inductive invariants. The runs
check the properties themselves; `InOrder`, `RecursionBounded` and
`OneTableFits` are in no run, for their theorems say more.

**`BlockEnumProofs`**, from `FilesAssumption`. `InOrder` and `AlignedReads` are not
inductive: when a call returns, they say nothing of where its caller left the
stream, or of how many records the caller had seen. `IInv` adds that (`FramesOK`)
each frame has read what its node says and has saved the place where its caller
must go on, that (`CallChain`) each frame but the top one waits for the block of
the frame above, and that (`RankOK`) the number of records handed over is `Rank`
of the top frame: the number of records of the whole tree that come before the
place where it is. A step at the top then moves `pos` and `out` together. A call
and a return are the cases that need an argument: `Rank` of the caller at its
child is `before` of the child's first place, and `upto` of it when the child is
done. `StreamImplemented` maps each action to `Deliver`, `Finish`, `Fail` or a
stutter of `RecordStream`. `RecursionBounded` follows from the levels, which sink
along the chain.

**`CommandsProofs`**, from `TotalsAssumption` and `MaxCallsAssumption`. `IInv` says
what is owned at each step (`Ownership`), which function can be at it (`Control`)
and what has become of the records (`Output`); each property is then a case of it.
`ConvertIsAtomic` needs `Output`, for the array must equal the stream when the
stream ends.

**`ParserProofs`** is about both parsers, `Alias` and `Bookmark`. For `Alias`, from its
`SizesAssumption` and `AliasesAssumption`: the words can be read only at even offsets, so
`AliasInv` carries that the cursor is even and behind the header (`CursorEven`), and what
the entry in hand is (`EntryInHand`). That the header's size is even, and that padding
keeps a length even also where it wraps, are the lemmas on which this rests; `HandOnData`
turns the cursor's test of a value into what `CompleteOrNothing` says of the data. For
`Bookmark`, from `EntriesSizeAssumption` and `MarksAssumption`: every table in hand is the
header's, for the code reads no other; after one that names no other the loop is left, so
what is returned has one table or none and is the chain (`ChainCorrect`). `RoomEnough`:
one table that fits overruns nothing.

**`ProgramProofs`**, from `FilesAssumption` and `MaxCallsAssumption`. The invariant
`PInv` is the walk's own `IInv`, kept through all calls, and that there was no command
yet while `calls` is 0. With it each step of `Program` is a step of `Commands` or a
stutter (`CommandsImplemented`): the walk returns success only when the number of
records handed over is the tree's, and the record it hands over is the next one,
which is what `Rank` of `BlockEnumProofs` gives. `CommandsCorrect` then takes the
theorems about `Commands` over: both are instantiated, and `SafeInvariance` is the form
of the invariant that needs no fairness.

**`StoreFileProofs`**, from `FilesAssumption` and `SizesAssumption`. `AddressWasRead` and
`WritesWhatWasRead` are about what is in memory, so `IInv` says what is: while
`ds_store_fread` runs, all slots before the one at hand (`Passed`), each loop within the
count that was read before it (`OnWalk`); of a store in hand, all (`Owned`). The lemma
that carries this is `ReadOn`: the walk goes on to a slot before which everything was
read, or is over and has read everything. It is about `After` alone, for any counts.
`PaddedCountBounds` is the arithmetic: also where the subtraction wraps, the padded
count is no less than the count, and no less than the 256 addresses that are written,
if there is any block; and that there is one follows from the range check in
`FindDSDB`. That the first entry called DSDB exists needs the least element of a set of
numbers, which the proof takes from the well-foundedness of inclusion.

**The layout of a file**, also in `StoreFileProofs`, in two parts. The first holds *for
any file*, cut off, damaged or half written. Its invariant
`LayoutInv` says that all of memory stands in the file: while `ds_store_fread`
runs, each slot of the allocator that was read is at its `Place`, which is not
behind the position of the stream, and the slot at hand is at that position
(`ReadAllocator`); and the same of the two structures without loops. The places
depend on what was read before, so the argument is that nothing that a place depends
on changes any more when the slot is known (`Known`, `PlaceStays`). `NextPlace` is
the heart: the slot that follows in the walk is at the next cell, and a free
list begins where the last one ended; `lists`, which is quantified, collects where
they begin, so that no recursion over the layout is needed. From this follow

* `LoadedStoreStandsInFile`: what `ds_store_fread` returns is a store of which the
  file is a layout, checks and padding included;
* `SmallStoresAreRewrittenAsTheyAre`: for a store with at most 256 addresses, each
  `fwrite` into the file that it was read from puts back the value that is there,
  since the writer takes the reader's walk. With more addresses than 256 this is not
  so, for the places part after the list;
* `SmallListsArePadded`: the finding of `written_list` is about those only.

How many addresses the file has is said in `StoreLayout` without the code's sum, as the
next multiple of 256 (`NextMultiple`); `PaddedIsNextMultiple` shows that the sum, with
its subtraction of 32 bits, is that for every count, 0 included.

The second part is about `LoadedIsWhole`, `WholeIsLoaded` and `RewriteIsHarmless`, which
compare what is loaded with the store that the client's file stands for. It assumes with
`LayoutAssumption` that a whole file is a layout of its store. The three need to be told
what a file that is not whole is, and what the code needs but does not check; each
theorem names these as its hypotheses:

* `OnlyWholeFilesAreStores`: a file that is not whole is no layout of any store. Without
  it a "damaged" file could be another store's whole one. A store that TLC's reader
  finds in a file has a layout there by the first part, and a layout is loaded by the
  argument of `WholeIsLoaded`, so `LoadedIsWhole` in `store_file` shows it of the files there.
* `StoresAreSmall`: at most 256 addresses, as above.
* `HeaderBlocksAreApart`: the page size of the header block is not a cell of the header
  or the allocator. A new file that `ds_store_fwrite` has begun is told from a store
  only by the page size that is never written.

TLC evaluates the last two on the files of `store_file` (`FilesAreAsAsked`). The
invariant `WholeInv` says that the store in memory is the file's, slot by slot, that the
file is as it was found or else new, and that a new file agrees with the store as far as
it goes, with no gap but one before the allocator, and has no page size. The lemma
behind it is `SlotAgrees`: two memories that are read from the same file are led to the
same places, field by field, so that a file is a layout of one store only (`OneStore`).

**`RecordProofs`**, from `FilesAssumption` and `ValuesAssumption`. A file is records, each
whole and behind the other, and what follows is not one (`WellFormed`). The invariant
says where the stream is at each of the ten steps (`Place`), and that what is in the
fields so far is what the record in the file begins with (`Accepted`); so a read that
succeeds has read the next record as a whole, and one that is refused stood behind the
last one. `PlistsAreReleased` and `PlistFollowsTheBlob` hold for any number of
operations in any order.

**`ConversionProofs`**, from `InputsAssumption`, which says no more than that a record
has its fields and that the offsets in its bookmark lead to tables and items, and for
`StopsOnlyAtUnsound` from `AliasesAssumption` (the entries of an alias have lengths, and an
alias in an alias is one) and `SizesAssumption` (an item has room for whole offsets, and
the arrays of the names have sizes). The
theorems are about *any* such records: arrays of a bookmark that form any graph, aliases
nested to any depth, any number of entries, any depth of the stack.
`NothingFreedEarly` is not inductive: a count that is high enough for the containers
says nothing of who will release it next. `IInv` (`ConversionInvariant`) counts:

* `Balanced`: the count of each object is the number of places where it is held, freed
  containers included that have not yet released it, and one more if it is owned. The
  owners are the variables of the activations, the value that is returned, the
  record's list and the caller's array (`Owned`), and no two own the same object
  (`OwnersDistinct`). Only objects of kinds that the code never releases
  (`KnownLeaks`) may have a higher count; their sites are named one by one.
* `StackOK`, `ReturnOK`: what kind of object is in each variable at each place of each
  function, which function each place waits for and what kind of object it returns
  (`FrameOK`, `CallOK`). The kinds are what makes a release meet its object.
* `PlistApart`: nobody owns what the record's list holds, so that no step changes it.
* `Layered`: if no record leaves anything behind, containers hold only kinds of objects
  further down (`Level`).

The proof first shows what each operation of `CoreFoundation` does to the balance of a
heap (`NewFits`, `ReleaseFits`, `AddFits`, `ReplaceFits`, `CopyFits`; `SetFits`,
`NumberFits` and `MoveFits` combine them), for any heap and any set of owners. An action
is then a chain of these, with a set of owners before and after each link, and ends in
one of three forms: it goes on in its frame (`GotoStep`), calls (`CallStep`) or returns
(`ReturnStepOK`). `FreeItems` takes from the counts what it takes from the places. From
the invariant follow `NoObjectFreedEarly` and `CachedListUntouched` at once, and
`OnlyKnownLeaks` at the end of a command: nobody owns anything then, so a count can be
higher than the places only for a known kind, and if there is none, every live object
is held by a live one further up, of which there is none at the top.

`StopsAtUnsound` compares where the program stops with `Sound`, which follows the data of
a record down as far as the stack has room. It is said without recursion over the data:
`Reaches` is a function of the *level*, a number, so what it says can be proved
(`ReachesEquation`) by induction over numbers, which the proof takes from the
well-foundedness of inclusion (`NumbersInOrder`). Its invariant `SInv` says

* `LevelsOK`: the d-th activation is one that the record leads to at level d - 1, waits
  for the one above (`Pending`), was given what it needs if it has begun to work, and
  all that it has called before (`Past`) returns;
* `ResultOK`: what has just returned returns with everything below it, and a null
  pointer comes from a record that is not accepted.

A step then either stops at an activation that `Reaches` has and that is not accepted or
has no room, so the record is not sound; or goes on, calls what is in `Calls`, or returns
when `Past` is all of `Calls`: then `CompletesIf` puts the levels together, one deeper.

**`ConversionDataProofs`**, from `InputsAssumption`, `AliasesAssumption` and
`SizesAssumption`, is about what the commands print: `PrintedMirrorsData` for any records,
whatever in them nests or is shared, to any depth. A container is filled by several
functions in turn, so the property says too little of the moments between. Its
invariant `DInv` says

* `ContentsOK`: each activation has made the containers in its variables as far as it has
  come (`FrameFilled`): their first items show the first items of their nodes (`Begun`),
  and what was just returned is complete. Of records with a date that cannot be
  converted (`DatesValid`) nothing is said.
* that no container refers to one that is in the making (`InTheMaking`). This is what
  makes the rest inductive: filling a container changes the tree of everything above
  it, and there is nothing above it yet (`GrownTrees`).
* `CollectedOK`: the caller's array has the dictionaries of the records that are done.

`TreeEquation` says what `Tree` is at each depth, by the same induction over numbers;
`CompleteTree` that a container with all its items shows its node. Each operation of
`CoreFoundation` is then a `Grown` heap: which objects it changes and which it puts into
containers; an action is a chain of these (`Going`), and `GotoGoes`, `CallGoes` and
`ReturnGoes` take the invariant over at its end.

Model-checked only: liveness (`Terminates`, `EveryCallReturns`, `EndsByTables`, `Ends`),
which is out of this prover's reach. Every other property of the passing runs is stated
by a theorem.

## Not modelled

* Text: the dump functions, descriptions, the widths in which numbers are shown.
* Bytes: byte order, UTF-16, the contents of blobs other than whether they hold a
  property list. A value that is read or written is one step; a short read of a
  value is a failure at it.
* Damaged trees in `BlockEnum` (a child number out of range, a cycle) and sizes
  beyond the fixed arrays of the structures: the code does not check them, and
  what happens is undefined.
* Reads behind the end of the data of a bookmark, and the assertion that its header
  has 48 bytes.
* Names shorter than four bytes in the allocator's directory.
* `ds_store_fwrite` of a store from `ds_store_create` that was never loaded. Its padding
  and its whole allocator have no value and its list of addresses is empty
  (`dsstore.cpp:44`), so `WritesWhatWasRead` would not hold of it, and what the
  function does is undefined.
* Allocation that fails, in the library or in Core Foundation. `CFPropertyListCreateData`
  would return a null pointer also for an object of a type that no property list has;
  the conversion makes none of those, so `PrintRecords` and `Finish` always print.
* The application, which is a stub, and the build files.

## Plan

Done, in this order: `RecordStream` and `BlockEnum` (the heart of the program),
their proofs, `Commands` on top of the stream with its proofs, `StoreFile`, `Alias`
with its proofs, `Record`, `Bookmark` and its proofs, `Conversion`, `Program`, the
proofs of `Record`, `Program` and `StoreFile`, `StoreLayout` and its proofs, those of
`Conversion`, and those of `ConversionData`.

What could follow:

1. The record's read inside the walk: `BlockEnum` takes a record for one cell, where
   `Record` reads it in ten steps through the same stream. `WholeRecordIsRead` and the
   place that `RecordProofs` gives are what such a composition would rest on.
2. The writer's header block and the B-tree, when the code has them.
