# Verification of psx_mnd_sym

`psx_mnd_sym` reads the symbol files that Psy-Q tools wrote for PlayStation
programs (`.SYM`, signature `MND`), lists them, and translates them to C
headers and IDA scripts. This directory holds TLA+ modules of what the program
computes, TLC configurations that check them on small inputs, and TLAPS proofs
about them for all inputs.

The program is sequential. What makes it hard is not concurrency but a
*stream* interpreted by several loops that hand an index to each other, *objects
shared through pointers* that are made before they are defined and replaced
after they were used, *names* that have to stay distinct while they are changed
in the order of Go maps, and state (current line, overlay, block, names already
used) that is carried from symbol to symbol. Its inputs are arbitrary files, and
every step on the file system may fail, so the behaviours are those of every
stream, every map order and every failure, and the properties relate what was
recorded to the stream it was recorded from.

## Inventory

| Part | State | Operations | Talks to | What makes it correct |
|---|---|---|---|---|
| Reader, `file.go`, `symbol.go`, `kind.go` | the reader's place, `File.Syms` | `Parse`, `parseFileHeader`, `parseSymbol`, `parseSymbolBody` | gives `File.Syms` to the rest | whole symbols are kept, in order; a file cut inside a field is rejected, one cut between two fields is not |
| Listing, `File.String` | offset, line | one step per symbol | `BodySize` of each body | the offsets are those in the file |
| Type pass, `csym/parse_types.go` | `Structs`, `StructTags` and the like for unions and enums, `Types`, `Typedefs`, `enumMembers` | `initTaggedTypes`, `parseStructTag`, `parseUnionTag`, `parseEnumTag`, `parseTypedef`, `findStruct`, `findEmptyStruct`, `uniqueEnum` | makes the objects all later parts point to | every definition has an object, all uses of a tag agree, enum members are distinct |
| Declaration pass, `csym/parse_decls.go` | overlays with their symbols, lines, variables and functions; current overlay, line, function and block | `ParseDecls`, `parseLineNumbers`, `parseFunc`, `parseGlobalDecl`, `parseOverlay`, `findFunc` | reads the same stream again; its `parseType` may still make objects | each declaration is recorded once, in the active overlay, on the right function and block, bound to the type of the first pass |
| Fixups, `csym/parse_fixups.go` | the same objects; tags and names given | `RemoveDuplicateTypes`, `MakeNamesUnique` | after both passes | nothing refers to a dropped type, no duplicate is left, every use means what it meant, tags and names are distinct |
| Merge, `cmd/sym_dump/main.go` | a parser made of several, the texts seen so far | `pruneDuplicates`, `addUniqueStructs` and its copies | the parsers of all files | what is dropped reads the same as something kept; what is referred to is there |
| Driver and output, `cmd/sym_dump` | flags, position on the command line, output directory, open files | `main`, `dump`, `initOutputDir`, `dumpTypes`, `dumpDecls`, `dumpSourceFiles`, `dumpIDAScripts` | the file system | a directory holds the output of one dump; output is replaced only when there is something to replace it; a dump is complete |
| Modifiers, `type.go`, `parseMods`, `Var.String` | the loop indices, the C type | `Mods`, `parseMods`, `String` | the type code and dimensions of a symbol | the declaration reads in C as the type code means |
| Layout of C and IDA text, `csym/c`, `output.go` | none | `Def` | | not modelled, except where texts are compared (`Merge`) |

What is hard here, each item at its line, is under `hazards` in `PROJECT.json`:
panics that the authors hold to be unreachable, index arithmetic between nested
loops, one object found by a search that could find another, values (line 0, no
fields) that also stand for "none", integer widths, equality of cyclic graphs,
names made to be unique, loops over maps whose values change, recursion without
an end, failures between two steps on the output directory, and files that end
anywhere.

## Modules

| Module | Models | Runs |
|---|---|---|
| `SymFile` | reader and listing | `MCSymFile` |
| `TypePass` | `Parser.ParseTypes` | `MCTypePass` |
| `DeclPass` | `Parser.ParseDecls`, after `TypePass` on the same stream and heap | `MCDeclPass` |
| `Fixups` | `RemoveDuplicateTypes` and `MakeNamesUnique`, after `DeclPass` | `MCFixups` |
| `FreshTags` | what the renaming of tags promises; `Fixups` implements it | `MCFixups` |
| `Merge` | `pruneDuplicates` | `MCMerge` |
| `Driver` | `main`, `dump` and the output files | `MCDriver` |
| `TypeCode` | `Type.Mods`, `parseMods`, `Var.String` | `MCTypeCode` |
| `SymFileProofs`, `TypePassProofs`, `FixupsProofs`, `MergeProofs`, `DriverProofs`, `TypeCodeProofs` | proofs about the module of that name | |
| `DeclPassProofs` | the shape of `DeclPass`, its overlays, that nothing is lost | |
| `DeclScopeProofs` | `DeclPass`: line entries, blocks, bodies, acceptance, bindings | |

`TypePass`, `DeclPass` and `Fixups` extend each other and are one program on one
heap: `BothNext` takes the steps of the first pass until it is done and then
those of the second, `FixNext` those of the fixups after that. `Merge` and
`Driver` start where these end: a parser is a record of its types and
declarations, and what becomes of an input file is a choice in `Driver`.

The stream, file or command line is chosen in `Init` and never changes. An
action is one symbol handled, one call that does not loop, one step on the file
system, or one panic. A panic ends the program: `pc` (`mode` in the second pass,
`stage` in the fixups) takes its reason and nothing else changes, as what the
call had built is unreachable then.

### SymFile

A file is a header and a sequence of symbols, the last of which may be cut after
any number of its bytes; symbols are their kind, the lengths of their variable
fields, and the line numbers in them. `ReadSymbol`, `EndOfFile`, `Truncated` and
`Unsupported` are the ways `parseSymbol` returns to `Parse`. `struc.Unpack` (a
library, external) reads field by field with `io.ReadFull`: at a field boundary
it reports `io.EOF`, which `Parse` takes for the end of the file, so
`Cuts` are the places where a file may be cut without an error. `PrintSymbol`
and `NoLine` are one round of the loop of `File.String`; the offset it adds up
comes from `BodySize`, modelled with the `uint16` product of `Def2`. `starts`
records where a symbol was read and is there for the properties only.

### TypePass

Structs, unions and enums are three copies of one piece of code. The module has
one heap `types` of objects with a `kind`; their identity is a number in order
of creation. `initTaggedTypes` makes the scaffold of the tag definition at
position *j* of the stream under the number *j*, and later objects get `fresh`,
so that `Structs` and each list of `StructTags` are the ids of that kind (and
tag) in increasing order, and "the last of the list" is the largest id. A type
is what it is bound to: an object, a typedef (`BaseNull` is the `bool` of that
moment) or a C type. `TypeParses` says for which symbols `parseType` returns:
the base is supported and `parseMods` has a dimension for each array modifier.
Actions named after the functions begin with the guard `pc = "top"` (the loop of
`ParseTypes`) or `pc = "tag"` (the loop of `parse*Tag`, whose index is `n`).

### DeclPass

`overlays[1]` is the default overlay. Pointers are indices: `curOverlay` of an
overlay, `fn` of a function of that overlay, `curBlock` and `blocks` (the stack)
of that function's blocks. `mode` says which loop runs: `ParseDecls` (`top`),
`parseLineNumbers` (`lines`) or `parseFunc` (`func`). Each declaration keeps the
position of its symbol, which the properties compare with an independent reading
of the stream (`ActiveAt`, `OpenBlocks`, `InFunc`).

### Fixups and FreshTags

`stage` is the call that comes next. `RemoveDuplicates` is one call of
`removeStructsDuplicates` (the code calls it before and after that for unions):
`DeepEqual` is the largest relation on types and typedefs that no path of members
tells apart, as `reflect.DeepEqual` decides it on cyclic values; `ReplacedBy` is
`typeRemap`; `HeapAfter` and `OverlayAfter` are `ReplaceUsedTypes`. Dropped
objects stay in the heap, since typedefs still point to them, and are in
`dropped`. `UnionCycle` is where `replaceUsedSubtypesInType` recurses for ever,
which ends in the stage `overflow`.

`UniqueStructTag` and its copies take one action per lookup: `BeginRename`
chooses the list (a Go map has no order, but a list is gone through to its end),
`RetryTag` is a lookup that finds the tag, `AcceptTag` one that does not. The
maps keep the keys of the stream, so that `TagTaken` looks at `types`, never at
`renamed`. `FreshTags` knows none of this: types are given tags that nothing has,
in one step each, and when it is over all tags differ. The refinement mapping
`Fresh` pairs kind and tag and shows nothing until the duplicates are gone.

### Merge

One action per type, typedef, overlay and declaration, in the code's order; the
types of one kind in any order of the map's lists. The text that `Def` prints is
the tuple of what it depends on: names and, through `RefText`, the tags that the
types referred to have *at that moment*, since `addUniqueStructs` changes them
while it compares. `tag` is the Go loop variable that keeps its changed value
for the next type of a list. A tag is a sequence of parts, so that what reads
like a generated tag can be told from what is generated.

### Driver

`Calls` lists, for the flags, the files of each `dump*` function; a file is
written by one action, `Return` closes the files of a function (they are closed
by `defer`, all at its end), and `WriteFails`, `NoHandle`, `InitOutputDirFails`
are the failures in between. A directory entry remembers the dump that wrote it,
0 for an earlier run of the program. `Blocked` is a file where a directory is
needed. The text of a file is the set of declarations in it, with the names that
`dumpSourceFile` prints.

### TypeCode

The three loops have three directions: `Mods` decodes from the low bits,
`parseMods` wraps from the last modifier to the first with the dimensions in
order, `Var.String` peels from the outside and writes to the left or to the right
of the name. A declaration is the sequence of its tokens, and `Reading` is the
rule by which C reads it, written without regard to the code.

## Runs

| Run | Shows |
|---|---|
| `type_pass` | The assertion in `findEmpty*` never fails (`ScaffoldNeverMissing`), each definition with fields fills one object and no object that has fields is filled again (`DefinitionsComplete`, `DefinedIsFrozen`), uses agree (`UseBindsOneObject`), enum members are distinct, well-formed streams do not panic. |
| `sym_file` | What `Parse` keeps of every cut of a file, also of one without the signature (`WholeSymbolsParsed`: a file that is accepted gives all its whole symbols, one that is rejected those before the symbol it stops at, and no file cut inside a field is accepted), and that listing offsets are true (`OffsetsTrue`). |
| `decl_pass` | Each property compares what the second pass recorded with the stream: in which overlay (`DeclsInActiveOverlay`), each once and in its list (`EachDeclarationOnce`), on which function and block (`LocalsInScope`), with which line and path (`LinesFollowSLD`), bound to which type (`DeclsBindDefinitions`); one function per body, name and address (`OneBodyPerFunction`); well-formed streams do not panic (`WellFormedDeclsAccepted`). |
| `fixups` | Dropping duplicates leaves no use of a dropped type (`UsesAreListed`), no duplicate (`NoDuplicatesLeft`) and every meaning as it was (`MeaningKept`), with an equality of types that is defined apart from the model's; tags are distinct, the renaming implements `FreshTags`, names tell addresses, and the fixups end. |
| `merge` | Nothing is lost or kept twice, of the declarations that read the same the first is kept (`FirstIsKept`), tags of the result are distinct, references are defined, overlays are kept, in every order of the maps. |
| `driver` | What the output directory holds at every moment for all flags, inputs and failures; a dump without failure is complete; names in a source file are distinct; files held open are bounded by one function. |
| `type_code` | The declaration reads as the type code means at every step of the printing, and `parseMods` panics for want of dimensions only. |
| `lines_end`, `block_lines`, `fixups_union`, `ida_int64`, `merge_fakes` | Disagreements between the code and what it says of itself; each is expected to be violated and is described under `findings` in `PROJECT.json`. |

### Bounds

* `MCTypePass`: all streams of up to 4 of 13 chunks (tag sequences of every
  kind with shared tags and sizes, self references, tags that `validName` makes
  equal, an enum member that reads like a generated name, typedefs of `bool`) and
  all sequences of up to 3 loose symbols. A conflict between definitions and uses
  of one tag needs two definitions and a use on either side; four chunks hold
  that.
* `MCSymFile`: files of one and two symbols cut at every byte, whole files of
  three (`MaxSymbols`), and `Def2`s at both sides of the `uint16` limit.
* `MCDeclPass`: up to 3 of 12 chunks, up to 5 (`MaxDeep`) of the chunks where
  order matters most (declaration, body and namesake of a function; declaring and
  entering an overlay), 3 loose symbols (`MaxRaw`); `Uint32`, standing for 2^32,
  is 16, so that line numbers wrap.
* `MCFixups`: up to 2 of all chunks (`MaxChunks`), 3 of those that use a struct
  in each place that has a type (`MaxUses`), 4 structs and unions in each other
  (`MaxNested`: two pairs that differ only two levels down, which is what the third
  round of the removal is for), 4 types that share their tag (`MaxSameTag`: with
  three, a generated tag meets one of the stream; the fourth is the next retry).
* `MCMerge`: up to 3 parsers (`MaxParsers`), as a type dropped in the second can
  leave something behind for the third to meet.
* `MCDriver`: up to 2 files (`MaxArgs`), the least with an earlier dump, and 3 open
  files (`MaxOpen`), as many as the largest group that is always opened.
* `MCTypeCode`: all codes of the six two-bit modifiers around one base type, each with
  five lists of up to five dimensions (missing, zero, equal, different).

In every run on streams a name is a short sequence of numbers; a generated name is
the base name with one number appended. `enumMembers` and the lists of tags bound
the retries, so that no bound on them is needed.

### Deadlock and fairness

Deadlock checking is off: all these programs stop. The only liveness property is
`FixupsEnd`, of a loop that looks up what it changes: the retries of a tag. Its
specification `FairFixSpec` assumes weak fairness of the next-state relation,
nothing more: there is one goroutine, and a loop that nothing blocks takes its next
step. The loops of the other parts range over lists and maps that nothing extends
meanwhile; that they end needs no check.

## Proofs

All are about every value of the constants; the assumptions used are those of
the modules, which state the shape of names, streams, files and inputs
(`NamesAssumption`, `StreamsAssumption`, `DeclAssumption`, `FilesAssumption`,
`DriverAssumption`, `TypeCodeAssumption`), that what `Driver` is given as parsed and
merged are parsers (`ParserAssumption`), and of the parsers that a merge is given (`MergeAssumption`,
which also says that a fake name reads neither like a suffix that the merge makes nor
like its placeholder, and that no anonymous union refers to itself, for such would be
printed without end), and nothing else. TLC evaluates them in the runs. Where a property has a
hypothesis about the input (`PlainTags`, `OneTypePerTag`, `WellFormed`,
`WellFormedDecls`, "no `FuncStart` has line 0") the theorem has the same one, and the
runs have inputs on both sides of it.

A pattern returns in most of them: a property that compares the *outcome* with
the stream ("at the end, ...") is a special case of an invariant that compares
what was made *so far* with the part of the stream before the next symbol.

### The reader

* `SymFileProofs!TypeCorrect`: type correctness.
* `SymFileProofs!OffsetsAreTrue`: the listing's offsets are the places of the
  symbols in the file. The invariant has two chains over the same places, one
  extended by reading and one by printing; the lemma `SizeIsLength` (for each
  kind, `BodySize` is the length read, if the dimensions fit) ties them.
* `SymFileProofs!WholeSymbolsAreParsed`: with type correctness and that nothing is
  parsed before the header (`NotParsed`) the property is inductive. Its first
  form was not true of all files: a file without the signature is rejected
  whatever follows, which the run's files did not have then.

### The type pass

* `TypePassProofs!TypeCorrect`: type correctness.
* `TypePassProofs!ScaffoldAlwaysFound`: the panic of `findEmptyStruct` is
  unreachable for every stream. The property is not inductive: that there is an
  empty object *now* says nothing of the next definition. The invariant `IInv`
  adds `EnoughScaffolds`: for every definition still to come, the objects with
  its kind, tag and size that are still empty, leaving out the one being filled,
  are at least as many as the definitions still to come with that key.
  `initTaggedTypes` establishes it with equality (`ScaffoldsEnough`), a
  definition takes one object and one pending definition away
  (`BeginTagKeepsEnough`), and no other step fills an object or adds a pending
  definition (`StepKeepsEnough`).
* `TypePassProofs!DefinedStaysFrozen`: only the object that is being filled changes,
  and the one that is taken up is empty.
* `TypePassProofs!UsesAgree`: `UsesBound` says that each use made so far is bound to
  what a lookup would find *now*. It survives every step, since the lookup takes
  the last object of a list, and an object is added to a list only when there
  is none in it or before there is any use (`initTaggedTypes`).
* `TypePassProofs!EnumMembersDistinct`: `NamesTaken` (every member's name is in
  `enumMembers`) makes the property inductive.
* `TypePassProofs!EveryDefinitionRead`: `Reading` describes the object that is being
  filled after `n` symbols of its sequence, `ReadBefore` says that definitions
  before `i` and objects with fields correspond.
* `TypePassProofs!WellFormedStreamsAccepted`: from those two and `EnoughScaffolds`, as
  acceptance includes that the assertion holds.

### The declaration pass

The invariant under all of these is `Standing`: `DeclTyped` (every index that stands
for a pointer is that of something there: theorem `DeclPassProofs!DeclTypeCorrect`),
`Place` (which part of the stream the loops have read, and that no loop stops in
the midst of a function) and `Numbered` (the overlays made and the current one are
those that the stream before `NextPos` gives).

* `DeclPassProofs!OverlaysAreFollowed`: what is recorded carries the overlay that is
  active where its symbol stands.
* `DeclPassProofs!NothingIsLostOrTwice`: `OnceSoFar` says that what was made
  corresponds one to one to the declarations before `NextPos`. It needs of the
  control what is easily wrong: that `NextPos` moves by one, or over the rest of a
  function that is skipped, when one loop hands its index to another (`ReadByStep`).
* `DeclScopeProofs!LinesAreCounted`: `LinesSoFar` ties `curLine` to the last setting and
  the sum of the increments since, modulo 2^32. The sum is a recursive function:
  that it exists is proved by the least place where it would not (`SumExists`), and
  that remainders can be taken step by step in `RemainderOfSum`.
* `DeclScopeProofs!LocalsAreScoped`: `Scoped` says that the stack and `curBlock` are
  the blocks that a reader of the stream sees open, with their depths: without the
  depths it is not inductive, as a `BlockEnd` has to close the innermost.
* `DeclScopeProofs!WellFormedStreamsTranslated`: from `Scoped` (a `BlockEnd` finds a
  block), `Numbered` (a `SetOverlay` finds its overlay) and `GroupsEnd` (a line group was
  read to its end: the loop at the top never meets what it does not know).
* `DeclScopeProofs!EachFunctionHasOneBody`: `FuncsSoFar` says that per overlay the
  functions with a body have the names and addresses of the `FuncStart`s read so
  far, that none of them comes after one with its name and address, and that a
  function without a body has neither parameters nor blocks (`Bare`);
  `BodiesSoFar`, that what a function has stems from one `FuncStart`, and what the
  current one has from that at `d`. A body without a `FuncEnd` is the exception (it
  is parsed again, as there is nothing to skip to); `BodiesSoFar` leaves the states
  after it out, and they cannot reach the end, where the property speaks.

* `DeclScopeProofs!DeclarationsAreBound`: each declaration with a tagged type is bound
  to what `FindType` finds for its symbol *now*, as members and typedefs of the first
  pass are (`FitOverlays`, `UsesBound`), and what is found is found ever after
  (`FitsEverAfter`). What is found is the last object with the tag; that this is a
  definition of the tag, if there is one, needs to know where each object comes from
  (`HeapOrigin`): a scaffold keeps the kind and tag of its definition, and no object
  made later has those of a scaffold, other than that of `__vtbl_ptr_type`.

### The fixups

* `FixupsProofs!FixTypeCorrect`: type correctness. What a call of
  `removeStructsDuplicates` leaves is typed because `typeRemap` maps into what is kept.
* `FixupsProofs!NoUseIsLost`, `MeaningIsKept`, `DuplicatesAreGone`: the model's equality
  (`DeepEqual`, on the heap as it is rewritten) and the properties' (`Alike`, on the
  heap as it was parsed) are both computed in rounds; `RoundsAgree` shows that each
  round of one is that of the other, as long as the heap is the parsed one but for
  references to what is alike (`LikeBy`). A round is an equivalence, so the one kept of
  a class stands for itself (`KeptOne`), and a use that is redirected means what it
  meant. `RemovalInv` says so between two calls; that it holds before the first
  follows from the invariants of the two passes (`ParsedInv`): enums are apart, as
  their members are (`UniqueEnumMembers`), and all references to typedefs are to
  `bool`s (`PlainTypedefs`).
* `FixupsProofs!NamesAreTold`: until the names are fixed a variable has the name of its
  symbol, and a function that of its key, with its address at most (`NamesAsRead`,
  through `NamesParsed` and `NamesReplaced`). After that a name is a key and up to two
  numbers, so that two equal ones have the same key unless one name of the stream
  reads like another with its numbers (`PlainNames`), and those that share a key end
  with their address.
* `FixupsProofs!RenamedApart`: after `MakeNamesUnique` the tags of a kind are
  distinct. A look at the code does not show it: `UniqueStructTag` looks a new tag
  up in a map that does not have the tags given before. The reason is in the names
  themselves: those tried for a type form a chain (`OnChain`), each the one before
  and the type's place in that one's list, or the list's length if the type is
  not in it. Where the chain of the type with the longer tag begins, that of the
  other goes through the same list (`LongerChainApart`), at another place of it
  (`IndexTells`): the chains of two types never meet in a name either could be
  given (`ChainsApart`). The invariant `FixInv` says that what was given is on
  its type's chain and no tag of the stream, that what is being tried is on it or
  the tag itself, and that of the kinds that are over all types that share a tag
  have been renamed. It needs of the passes that the heap is finite and typed
  (`DeclsTyped`) and that they are over (`PassesOver`).
* `FixupsProofs!RenamingIsFresh`: from the same invariant, the renaming
  implements `FreshTags`: each step of the fixups is a step of it under the
  refinement mapping or leaves the mapped variables alone.

### The merge

`Shape` says what the merge never changes (everything but the tags).

* `MergeProofs!TagsAreDistinct`: the invariant `TagInv` bounds the tags that a list has
  been given: a kept type's key is a key of the result and its alone (`KeysApart`),
  keys are of the stream or made (`KeysMade`), and in the midst of a list the loop
  variable `tag` is the longest tag made of its key (`TagLongest`), so that a tag
  made from it is new. There are as many keys as types kept, which is what the
  count in a fake tag relies on. `PlainTags`: no tag of an input reads like one that
  the merge makes.
* `MergeProofs!NothingIsKeptTwice`, `OverlaysAreKept`: from `DeclInv` (the texts of
  what is kept are in `present`, and no two are the same; each overlay met is
  there). The list of a parser's declarations, `Entries`, is a recursive function;
  `UpToExists` shows that it is one, and the lemmas after it that it lists each.
* `MergeProofs!ReferencesAreDefined`: if no file has two types with one tag or a fake
  one (`OneTypePerTag`), `RefInv`: every type that was added, dropped or not, has the
  tag of one that is kept. Texts are compared while tags change, but a tag that a
  text has is a key by then.
* `MergeProofs!NothingIsLost`: a type is dropped when its text is in `present`, and that
  text is of a type that is kept as it read then: in a *version* of its parser
  (`IsVersion`), in which other types have the tags they were given or those they have
  been given since. Tags that the merge makes are of one type each (`MadeInv`), so that
  types that two texts name by one tag are one type, or have one tag in their own
  files (`SameName`). Unions with fake tags are printed with their
  members, and these with theirs: that two equal texts come from equal texts in the
  files is shown at the least set of places where it would fail, which has a union
  that refers to none in the set (`SameRef`, by `NoneInItself`), and that the recursive
  function behind `RefText` exists in the same way (`ShownExists`). `TextsMeant` puts it
  together: each type added has one that is kept with the same `OwnText`. Typedefs
  and declarations are compared when no tag of their parser changes any more
  (`TypedefsMeant`, `DeclsMeant`), and a declaration finds its overlay there as it comes
  behind the entry of that overlay (`Headed`).
* `MergeProofs!FirstsAreKept`: the files and overlays share the sets of texts, so that
  a declaration can be left out of its own overlay. The theorem says when, and of
  which one: the result has exactly those that none with an earlier turn reads like.
  `FirstInv` says so of what is kept so far, by places in `Entries`; that places in
  `Entries` are turns (overlays as they come, the default one last) is `Sorted`, proved
  along the recursive function behind `Entries`, and `PlacesTell`.

### The driver

* `DriverProofs!OutputIsOfOneDump`, `CustomDirIsKept`, `OutputIsAfterParsing`: the
  default directory never mixes dumps, a directory of the user's loses nothing,
  and output is touched only when there is something to put in its place. The
  first two are inductive (over all ways in which removing may stop half way);
  the last needs `IInv`, which ties the place in `main` and the parsers collected
  to what was parsed.
* `DriverProofs!HandlesDoSuffice`: the files open are those that the current call of
  a `dump*` function has created so far (`InProgress`: what is still to do is the rest
  of the calls of this dump), so there are never more than the largest call creates.
* `DriverProofs!EverythingIsDumped`: `DirectoryOK` says that the entries that this dump
  wrote are of its calls, and that each file of the calls made so far was written and
  still is what was written, if no two paths are the same. The declarations of the
  parser are among those of the files (`DeclaredIsDumped`), whose parser is one that
  was collected (`Collected`).
* `DriverProofs!SourceNamesAreDistinct`: a name printed twice in a source file was taken
  when it came the second time and was made unique there; then the one before it was
  made unique too, as no plain name reads so, and both have the same name and address.

### The modifiers

* `TypeCodeProofs!PanicsAreForDims`: `ParseInv` says which modifiers are decoded and
  wrapped; `Before` counts the arrays among them, so that the index into the dimensions
  is the number of arrays wrapped.
* `TypeCodeProofs!DeclarationsReadBack`: a reader of C walks outwards from the name, to
  the right as far as it can, then to the left, out of the parentheses and on.
  `Reading` iterates one step of that walk; `PrintInv` says that the text printed so
  far is walked through to its outside (`Path`), having read just the modifiers peeled
  so far, and each round of the printing extends the walk (`BracketIsRead`,
  `StarIsRead`, `GroupIsRead`): a bracket put behind the text is reached only if what
  is there is closed, which is why a star is followed by parentheses there. That the
  recursive function exists, and that it takes the walk's value, is shown by the
  least place where it would not (`ReadExists`, `PathIsRead`).

### Only model-checked

Liveness (`FixupsEnd`): out of the prover's reach, as is `ENABLED`.
Every safety property that a run checks and finds to hold is stated by a theorem.

## What the models show of the code beyond the findings

Behaviour that no comment contradicts or that no property is about, noted while
modelling:

* Structs that share tag and size are filled from the last to the first
  (`findEmptyStruct` keeps the last match), so that `Structs` is "in order of
  occurrence" (`parse.go:21`) only up to such groups.
* `File.String` takes line 0 for "no line", also after a `SetSLD` to line 0, and
  panics at the increment that follows (`file.go:38`). `fmt.Print` calls `String`
  and recovers the panic, so that its message is printed in place of the listing
  (`main.go:103`); the model only says that the listing is not completed.
* A definition with methods only leaves its object as empty as it was, since
  `findEmptyStruct` tests `Fields` alone: a second definition of the tag and size
  may go into the same object. The properties of `TypePass` speak of fields.
* The offsets of the listing are wrong after a `Def2` with 16384 dimensions or
  more, as `BodySize` multiplies in `uint16` (`symbol.go:541`); `OffsetsTrue` is
  stated without such symbols.
* A function whose `FuncStart` has line 0 counts as not parsed yet: a second body
  is added to the first (`parse_decls.go:160`). `OneBodyPerFunction` leaves these
  streams out.
* Typedefs keep referring to structs and unions that were dropped, whose tags are
  not made unique any more (`parse_fixups.go:162`); `UsesAreListed` leaves typedefs
  out.
* Functions declared several times at one address are all given the same "unique"
  name (`parse_fixups.go:285`); `NamesTellAddresses` promises no more than that
  names tell addresses apart.
* Two overlays declared with one ID have one header and one declarations file, and
  the later overwrites the earlier (`output.go:92`). Source paths that differ in
  case, drive or slashes only are created under one path, and `os.Create` truncates
  the earlier file (`output.go:151`). `EverythingDumped` leaves both out by
  `PathsDiffer`.
* A name made unique by its address in a source file is not looked up again
  (`output.go:187`), so that it may be the name of another declaration;
  `PlainDecls` leaves such names out.
* The blocks of a function that follow each other are printed as if each were
  inside the one before (`c.go:107`): a `Block` does not record what encloses it.
* `-c -ida` and `-types -ida` write no IDA scripts, `-merge` without `-c` or
  `-types` panics at `ps[0]` (`Driver!Merge`), `-src` panics at a function with an
  empty path (`Driver!NoPath`).
* Without `-merge` and with several files only the output of the last is left in
  the default directory; `OutputOfOneDump` is the guarantee behind that.
* Which of several equal types with fake tags is kept by `-merge`, and what tag
  it has, depends on the order of Go maps.

## Not modelled

The layout of C code and IDA scripts (comments, tabs, the order within a line),
log messages, the parsing of flags, the generated stringers, the options record and
the tests (which compare listings of files that are not in the repository).
Sorting by name or address before the output is left out: no property is about
the order. `removeEnumsDuplicates` is called by nothing. The library `struc`,
`reflect.DeepEqual` and the calls of package `os` are modelled from how the code uses
them and marked external.

## Plan

1. Done: `TypePass`, `SymFile`, `DeclPass`, `Fixups` with `FreshTags`, `Merge`,
   `Driver`, `TypeCode` with their runs; proofs of `ScaffoldAlwaysFound`,
   `OffsetsAreTrue`, the renaming and its refinement, and the output directory.
2. Done: proofs of the other properties of `TypePass` and `SymFile`, of those of
   `DeclPass`, and of the safety properties of `Merge`.
3. Done: proofs of the safety properties of `Fixups`, `Driver` and `TypeCode`.
4. What is left to the model checker is liveness; what is left out is listed above.
