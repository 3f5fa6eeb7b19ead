------------------------------- MODULE Driver -------------------------------
(***************************************************************************)
(* The program sym_dump: main, dump and initOutputDir of                   *)
(* cmd/sym_dump/main.go and the writing of the output files of output.go.  *)
(*                                                                         *)
(* An input is what becomes of a SYM file: it cannot be read, one of the   *)
(* passes panics on it, or its parser holds the declarations (SymFile to   *)
(* Fixups); Merged is pruneDuplicates (Merge).  The output directory is a  *)
(* function from paths to contents, and it may hold files of an earlier    *)
(* run.  Creating and writing a file may fail, and so it does without a    *)
(* free file handle: a file that a dump* function creates is closed when   *)
(* the function returns.                                                   *)
(*                                                                         *)
(* The text written is abstracted to the declarations in it: an item has   *)
(* the place of the declaration in its parser and the name printed.  A     *)
(* path is a sequence of components, a component a format with a number.   *)
(***************************************************************************)
EXTENDS Integers, Sequences, FiniteSets, SequencesExt, Functions

CONSTANTS
  Inputs,      (* what the files given on the command line are             *)
  Arguments,   (* the sequences of inputs                                  *)
  Merged(_),   (* pruneDuplicates of a non-empty sequence of parsers       *)
  Sources,     (* the source paths there may be, in the order of natsort   *)
  FileOf,      (* a source path |-> the path dumpSourceFiles makes of it   *)
  NoSource,    (* the path of a function without FuncStart, ""             *)
  Int64,       (* the name "__int64"                                       *)
  Leftover,    (* the paths of the files an earlier run may have left      *)
  MaxOpen      (* the number of files that can be open                     *)

Outcomes == {"unreadable", "types panic", "decls panic", "parsed"}

IsList(s) == s \in Seq(ToSet(s))

ASSUME DriverAssumption ==
  /\ \A x \in Inputs : x.outcome \in Outcomes
  /\ \A args \in Arguments : args \in Seq(Inputs)
  /\ MaxOpen \in Nat \ {0}
  /\ IsList(Sources) /\ IsInjective(Sources)
  /\ ToSet(Sources) \subseteq DOMAIN FileOf

VARIABLES
  opts,    (* the command line flags                                       *)
  args,    (* flag.Args()                                                  *)
  k,       (* the next of them                                             *)
  ps,      (* ps of main, the parsers to merge                             *)
  parser,  (* p of main, the parser to dump                                *)
  todo,    (* what dump still has to do: the files of each dump* function  *)
  open,    (* the files that are open                                      *)
  fs,      (* path |-> the file there, in the output directory             *)
  dumps,   (* the number of calls of dump                                  *)
  pc       (* where main is, or how it ended                               *)

vars == <<opts, args, k, ps, parser, todo, open, fs, dumps, pc>>

Flags == {"c", "ida", "types", "merge", "src", "default dir"}
None == [tags |-> 0, typedefs |-> <<>>, overlays |-> <<>>]

Item(kind, overlay, place, name) ==
  [kind |-> kind, overlay |-> overlay, place |-> place, name |-> name]

File(path, items) == [path |-> path, items |-> items]

-----------------------------------------------------------------------------
(* dumpTypes: the predeclared bool, the tagged types, the typedefs.        *)

TypesFile(p) ==
  File(<< <<"types.h", 0>> >>,
       {Item("bool", 0, 0, <<>>)} \cup {Item("tag", 0, x, <<>>) : x \in 1 .. p.tags}
       \cup {Item("typedef", 0, x, p.typedefs[x]) : x \in DOMAIN p.typedefs})

(* What dump deletes before it writes types.h for IDA: bool and the first  *)
(* typedef of __int64.                                                     *)
IsFirstInt64(p, x) ==
  p.typedefs[x] = Int64 /\ \A y \in 1 .. x - 1 : p.typedefs[y] # Int64

IDATypesFile(p) ==
  [TypesFile(p) EXCEPT !.items =
     {y \in @ : y.kind # "bool" /\ (y.kind = "typedef" => ~ IsFirstInt64(p, y.place))}]

(* dumpDecls: a header for the default binary and one for each overlay.    *)

VarItems(p, o) ==
  {Item("var", o, x, p.overlays[o].vars[x].name) : x \in DOMAIN p.overlays[o].vars}
FuncItems(p, o) ==
  {Item("func", o, x, p.overlays[o].funcs[x].name) : x \in DOMAIN p.overlays[o].funcs}

(* A plausible defect: only the overlays get a header.                     *)
DeclsFilesOfOverlays(p) ==
  [o \in 1 .. Len(p.overlays) - 1 |->
     File(<< <<"overlay_%x.h", p.overlays[o + 1].id>> >>,
          VarItems(p, o + 1) \cup FuncItems(p, o + 1))]

DeclsFiles(p) ==
  [o \in DOMAIN p.overlays |->
     File(IF o = 1 THEN << <<"decls.h", 0>> >> ELSE << <<"overlay_%x.h", p.overlays[o].id>> >>,
          VarItems(p, o) \cup FuncItems(p, o))]

(* dumpIDAOverlay: three scripts, in a directory per overlay.              *)
IDADir(id) == IF id = 0 THEN <<>> ELSE << <<"overlay_%x", id>> >>
IDAFiles(p, o) ==
  LET dir == IDADir(p.overlays[o].id) IN
  << File(dir \o << <<"make_psx.py", 0>> >>, FuncItems(p, o) \cup VarItems(p, o)),
     File(dir \o << <<"set_funcs.py", 0>> >>, FuncItems(p, o)),
     File(dir \o << <<"set_vars.py", 0>> >>, VarItems(p, o)) >>

-----------------------------------------------------------------------------
(* getSourceFiles and dumpSourceFile.  The default overlay comes last.     *)

OverlayOrder(p) == [x \in DOMAIN p.overlays |-> IF x = Len(p.overlays) THEN 1 ELSE x + 1]

GlobalSource(id) == <<"global_%x.cpp", id>>

(* The elements of a list that are in a set, in their order.               *)
Among(s, chosen) ==
  LET among[n \in 0 .. Len(s)] ==
        IF n = 0 THEN <<>>
        ELSE IF s[n] \in chosen THEN Append(among[n - 1], s[n]) ELSE among[n - 1]
  IN among[Len(s)]

(* The given declarations of an overlay, with their places, in order.      *)
Placed(decls, overlay, kind, chosen) ==
  LET places == Among([x \in DOMAIN decls |-> x], chosen)
  IN [x \in DOMAIN places |->
        [kind |-> kind, overlay |-> overlay, place |-> places[x], decl |-> decls[places[x]]]]

VarsOf(p, o, source) ==
  LET vs == p.overlays[o].vars
  IN Placed(vs, o, "var", IF source = GlobalSource(p.overlays[o].id) THEN DOMAIN vs ELSE {})
FuncsOf(p, o, source) ==
  LET funcs == p.overlays[o].funcs
  IN Placed(funcs, o, "func", {x \in DOMAIN funcs : funcs[x].path = source})

(* The variables of all overlays, then the functions.                      *)
SourceDecls(p, source) ==
  LET order == OverlayOrder(p)
  IN FlattenSeq([x \in DOMAIN order |-> VarsOf(p, order[x], source)])
     \o FlattenSeq([x \in DOMAIN order |-> FuncsOf(p, order[x], source)])

UniqueName(name, addr) == Append(name, addr)

(* A plausible defect: the functions' names are not looked up among those  *)
(* of the variables.                                                       *)
PrintedNamesByKind(places) ==
  LET printed[n \in 0 .. Len(places)] ==
        IF n = 0 THEN <<>>
        ELSE LET decl == places[n].decl
                 before == printed[n - 1]
             IN Append(before,
                  IF \E x \in DOMAIN before : /\ before[x] = decl.name
                                             /\ places[x].kind = places[n].kind
                  THEN UniqueName(decl.name, decl.addr) ELSE decl.name)
  IN printed[Len(places)]

(* "Handle duplicate identifiers": a name that was printed is made unique. *)
PrintedNames(places) ==
  LET printed[n \in 0 .. Len(places)] ==
        IF n = 0 THEN <<>>
        ELSE LET decl == places[n].decl
                 before == printed[n - 1]
             IN Append(before, IF decl.name \in ToSet(before)
                               THEN UniqueName(decl.name, decl.addr) ELSE decl.name)
  IN printed[Len(places)]

SourceFile(p, source) ==
  LET places == SourceDecls(p, source)
      names  == PrintedNames(places)
  IN File(FileOf[source],
          {Item(places[x].kind, places[x].overlay, places[x].place, names[x]) :
             x \in DOMAIN places})

(* The keys of the map of source files, and the source files in order.     *)
UsedSources(p) ==
  {GlobalSource(p.overlays[o].id) : o \in {o \in DOMAIN p.overlays : p.overlays[o].vars # <<>>}}
  \cup UNION {{f.path : f \in ToSet(p.overlays[o].funcs)} : o \in DOMAIN p.overlays}

SourcesOf(p) == Among(Sources, UsedSources(p))

(* A path of no characters has no path[1:]: dumpSourceFiles panics at it.  *)
SourceFiles(p) ==
  LET sources == SourcesOf(p)
  IN [x \in DOMAIN sources |->
        IF sources[x] = NoSource THEN File(<<>>, {}) ELSE SourceFile(p, sources[x])]

-----------------------------------------------------------------------------
(* The parsers that are dumped: those of the inputs, and in merge mode     *)
(* what becomes of all of them.                                            *)

IsParser(p) ==
  /\ p.tags \in Nat /\ IsList(p.typedefs) /\ IsList(p.overlays)
  /\ \A o \in DOMAIN p.overlays :
       /\ IsList(p.overlays[o].vars) /\ IsList(p.overlays[o].funcs)
       /\ \A x \in ToSet(p.overlays[o].vars) \cup ToSet(p.overlays[o].funcs) : IsList(x.name)

Parsed == {a \in Arguments :
  a # <<>> /\ \A x \in DOMAIN a : a[x].outcome \in {"parsed", "decls panic"}}
Parsers(a) == [x \in DOMAIN a |-> a[x].parser]

ASSUME ParserAssumption ==
  \A p \in {x.parser : x \in Inputs} \cup {Merged(Parsers(a)) : a \in Parsed} :
    IsParser(p) /\ UsedSources(p) \subseteq ToSet(Sources)

-----------------------------------------------------------------------------
(* dump: the dump* functions it calls, one after the other.                *)

Calls(p) ==
  CASE opts["c"] /\ opts["src"] -> << <<TypesFile(p)>>, SourceFiles(p) >>
    [] opts["c"] /\ ~ opts["src"] -> << <<TypesFile(p)>>, DeclsFiles(p) >>
    [] ~ opts["c"] /\ opts["types"] -> << <<TypesFile(p)>> >>
    [] OTHER -> [o \in DOMAIN p.overlays |-> IDAFiles(p, o)] \o << <<IDATypesFile(p)>> >>

Init ==
  /\ opts \in [Flags -> BOOLEAN] /\ args \in Arguments /\ k = 1
  /\ ps = <<>> /\ parser = None /\ todo = <<>> /\ open = 0
  /\ fs = [path \in Leftover |-> [dump |-> 0, items |-> {}]]
  /\ dumps = 0 /\ pc = "start"

End(how) ==
  pc' = how /\ UNCHANGED <<opts, args, k, ps, parser, todo, open, fs, dumps>>

CheckFlags ==
  /\ pc = "start"
  /\ End(IF opts["merge"] /\ opts["ida"] THEN "fatal flags" ELSE "inputs")

(* The loop over the SYM files. *)

AtInput == pc = "inputs" /\ k <= Len(args)
WithDecls == opts["c"] \/ opts["ida"]
WithTypes == opts["types"] /\ ~ WithDecls

Unreadable == AtInput /\ args[k].outcome = "unreadable" /\ End("fatal parse")

PassPanics ==
  /\ AtInput
  /\ \/ args[k].outcome = "types panic" /\ (WithDecls \/ WithTypes)
     \/ args[k].outcome = "decls panic" /\ WithDecls
  /\ End("panic in pass")

(* A plausible defect: each file is output, merge mode or not.             *)
AfterParsingAlways == "init"

(* "Output once for each files if not in merge mode."                      *)
AfterParsing == IF opts["merge"] THEN "inputs" ELSE "init"

ParsersAfter == IF opts["merge"] THEN Append(ps, args[k].parser) ELSE ps

Parse ==
  /\ AtInput
  /\ \/ args[k].outcome = "parsed" /\ (WithDecls \/ WithTypes)
     \/ args[k].outcome = "decls panic" /\ WithTypes
  /\ ps' = ParsersAfter
  /\ parser' = args[k].parser /\ k' = k + 1 /\ pc' = AfterParsing
  /\ UNCHANGED <<opts, args, todo, open, fs, dumps>>

(* The Psy-Q listing goes to the standard output.                          *)
PrintListing ==
  /\ AtInput /\ ~ WithDecls /\ ~ WithTypes /\ args[k].outcome # "unreadable"
  /\ k' = k + 1 /\ UNCHANGED <<opts, args, ps, parser, todo, open, fs, dumps, pc>>

(* pruneDuplicates looks at ps[0].                                         *)
Merge ==
  /\ pc = "inputs" /\ k > Len(args) /\ opts["merge"]
  /\ IF ps = <<>> THEN End("panic")
     ELSE /\ parser' = Merged(ps) /\ pc' = "init"
          /\ UNCHANGED <<opts, args, k, ps, todo, open, fs, dumps>>

Finish == pc = "inputs" /\ k > Len(args) /\ ~ opts["merge"] /\ End("done")

-----------------------------------------------------------------------------
(* initOutputDir. *)

(* A plausible defect: the output directory is always removed.             *)
RemovedAlways == DOMAIN fs

(* A plausible defect: the output directory is never removed.              *)
RemovedNever == {}

(* "Only remove output directory if set to default."                       *)
Removed == IF opts["default dir"] THEN DOMAIN fs ELSE {}

Without(paths) == [path \in DOMAIN fs \ paths |-> fs[path]]

InitOutputDir ==
  /\ pc = "init" /\ pc' = "write"
  /\ fs' = Without(Removed) /\ todo' = Calls(parser) /\ dumps' = dumps + 1
  /\ UNCHANGED <<opts, args, k, ps, parser, open>>

(* RemoveAll, which removes what it can, or MkdirAll fails.                *)
InitOutputDirFails ==
  /\ pc = "init" /\ pc' = "fatal output"
  /\ \/ fs' = Without(Removed)
     \/ \E path \in Removed : fs' = Without(Removed \ {path})
  /\ UNCHANGED <<opts, args, k, ps, parser, todo, open, dumps>>

(* The dump* functions. *)

AtFile == pc = "write" /\ todo # <<>> /\ Head(todo) # <<>>
TheFile == Head(Head(todo))

(* A file is where the path needs a directory, or the other way round.     *)
Blocked(path) == \E q \in DOMAIN fs : IsStrictPrefix(q, path) \/ IsStrictPrefix(path, q)

Written(items) ==
  [path \in DOMAIN fs \cup {TheFile.path} |->
     IF path = TheFile.path THEN [dump |-> dumps, items |-> items] ELSE fs[path]]

WriteFile ==
  /\ AtFile /\ TheFile.path # <<>> /\ ~ Blocked(TheFile.path) /\ open < MaxOpen
  /\ fs' = Written(TheFile.items) /\ open' = open + 1
  /\ todo' = <<Tail(Head(todo))>> \o Tail(todo)
  /\ UNCHANGED <<opts, args, k, ps, parser, dumps, pc>>

NoPath == AtFile /\ TheFile.path = <<>> /\ End("panic")

(* os.MkdirAll or os.Create fails, or writing does; the items that were    *)
(* written before are left out.                                            *)
WriteFails ==
  /\ AtFile /\ TheFile.path # <<>> /\ pc' = "fatal output"
  /\ \/ fs' = fs
     \/ /\ ~ Blocked(TheFile.path) /\ open < MaxOpen
        /\ fs' = Written({})
  /\ UNCHANGED <<opts, args, k, ps, parser, todo, open, dumps>>

NoHandle == AtFile /\ TheFile.path # <<>> /\ open >= MaxOpen /\ End("fatal handles")

(* A plausible defect: the last file a function creates stays open.        *)
OpenAfterLeak == IF open > 1 THEN 1 ELSE open

(* The deferred calls of Close.                                            *)
OpenAfter == 0

Return ==
  /\ pc = "write" /\ todo # <<>> /\ Head(todo) = <<>>
  /\ todo' = Tail(todo) /\ open' = OpenAfter
  /\ UNCHANGED <<opts, args, k, ps, parser, fs, dumps, pc>>

EndDump ==
  /\ pc = "write" /\ todo = <<>>
  /\ pc' = IF opts["merge"] THEN "done" ELSE "inputs"
  /\ UNCHANGED <<opts, args, k, ps, parser, todo, open, fs, dumps>>

MainStep ==
  CheckFlags \/ Unreadable \/ PassPanics \/ Parse \/ PrintListing \/ Merge \/ Finish

DumpStep ==
  \/ InitOutputDirFails \/ InitOutputDir
  \/ WriteFile \/ NoPath \/ WriteFails \/ NoHandle \/ Return \/ EndDump

Next == MainStep \/ DumpStep

Spec == Init /\ [][Next]_vars

-----------------------------------------------------------------------------
(* The properties.                                                         *)

(* The default output directory never holds a mix: also between two steps  *)
(* and after a failure, all files in it were written by the last dump, and *)
(* before the first dump they are all of the earlier run.                  *)
OutputOfOneDump ==
  opts["default dir"] => \A path \in DOMAIN fs : fs[path].dump = dumps

(* "let user remove output directory as a safety precaution": no file ever *)
(* disappears from a directory that the user named.                        *)
CustomDirKept ==
  [][~ opts["default dir"] => DOMAIN fs \subseteq DOMAIN fs']_vars

Untouched == fs = [path \in Leftover |-> [dump |-> 0, items |-> {}]] /\ dumps = 0

(* The output of an earlier run is left alone until there is something to  *)
(* replace it: until a file was parsed, and in merge mode all of them; a   *)
(* listing leaves it alone, and in merge mode there is one dump.           *)
OutputAfterParsing ==
  /\ Untouched \/ (k > 1 /\ (WithDecls \/ WithTypes))
  /\ opts["merge"] /\ k <= Len(args) => Untouched
  /\ opts["merge"] => dumps <= 1

Dumped == pc \in {"inputs", "done"} /\ dumps > 0
IDAOnly == opts["ida"] /\ ~ opts["c"] /\ ~ opts["types"]
InSources == opts["c"] /\ opts["src"]

(* No two files of a dump share their path: different overlay IDs, and     *)
(* source paths that differ in more than case, drive and slashes.          *)
PathsDiffer(p) ==
  /\ \A x, y \in DOMAIN p.overlays : p.overlays[x].id = p.overlays[y].id => x = y
  /\ InSources => /\ \A x, y \in UsedSources(p) : FileOf[x] = FileOf[y] => x = y
                  /\ \A x \in UsedSources(p) : FileOf[x] # << <<"types.h", 0>> >>

Places3(items) == {<<y.kind, y.overlay, y.place>> : y \in items}
Declared(p) ==
  ({"tag"} \X {0} \X (1 .. p.tags))
  \cup ({"typedef"} \X {0} \X {x \in DOMAIN p.typedefs : IDAOnly => p.typedefs[x] # Int64})
  \cup IF WithDecls /\ ~ (opts["types"] /\ ~ opts["c"])
       THEN UNION {({"var"} \X {o} \X DOMAIN p.overlays[o].vars)
                   \cup ({"func"} \X {o} \X DOMAIN p.overlays[o].funcs) :
                     o \in DOMAIN p.overlays}
       ELSE {}

(* A dump without a failure has written every declaration of its parser,   *)
(* in whichever way it is split into files, unless their paths coincide.   *)
EverythingDumped ==
  Dumped /\ PathsDiffer(parser) =>
    Declared(parser) \subseteq
      Places3(UNION {fs[path].items : path \in {q \in DOMAIN fs : fs[q].dump = dumps}})

DeclAt(p, y) ==
  IF y.kind = "var" THEN p.overlays[y.overlay].vars[y.place] ELSE p.overlays[y.overlay].funcs[y.place]

(* No name reads like one made of another name and an address.             *)
PlainDecls(p) ==
  \A o, q \in DOMAIN p.overlays :
    \A x \in ToSet(p.overlays[o].vars) \cup ToSet(p.overlays[o].funcs) :
    \A y \in ToSet(p.overlays[q].vars) \cup ToSet(p.overlays[q].funcs) :
      ~ IsStrictPrefix(x.name, y.name)

(* In one source file, where variables and functions of several overlays   *)
(* meet, all names are different, if those of one name differ in address.  *)
SourceNamesDistinct ==
  Dumped /\ InSources /\ PlainDecls(parser) =>
    \A path \in {q \in DOMAIN fs : fs[q].dump = dumps} :
      LET decls == {y \in fs[path].items : y.kind \in {"var", "func"}}
          At(y) == DeclAt(parser, y)
      IN (\A x, y \in decls : At(x).name = At(y).name /\ At(x).addr = At(y).addr => x = y)
         => \A x, y \in decls : x.name = y.name => x = y

(* The files that are held open by the deferred calls of Close exceed the  *)
(* limit only if one dump function creates that many: neither the number   *)
(* of files on the command line nor, for IDA, of overlays matters.         *)
HandlesSuffice ==
  pc = "fatal handles" =>
    CASE InSources -> Cardinality(UsedSources(parser)) > MaxOpen
      [] opts["c"] /\ ~ opts["src"] -> Len(parser.overlays) > MaxOpen
      [] OTHER -> IDAOnly /\ MaxOpen < 3

(* main.go:368, "Delete bool and __int64 types as they cause issues with   *)
(* IDA."                                                                   *)
IDAWithoutInt64 ==
  Dumped /\ IDAOnly =>
    \A path \in DOMAIN fs : \A y \in fs[path].items :
      y.kind # "bool" /\ (y.kind = "typedef" => y.name # Int64)
=============================================================================
