# c2pulse: a verification project

c2pulse translates annotated C into Pulse, the separation-logic language of F\*.
Its command `pal` reads one C file through clang, turns the declarations into an
intermediate representation (IR), rewrites that in a few passes and prints an F\*
module, which F\* then verifies. What F\* proves holds of the *translation*: a pass
that loses a contract, a function or an iteration of a loop makes the proof a proof
of another program. That is what the modules here are about.

Paths below are relative to the repository (`src/main.rs` is the Rust crate's main
file, listed in `PROJECT.json` as `src/src/main.rs`, with `src/` in front).

## 1. The system

| Component | Source | State it keeps | Operations |
|---|---|---|---|
| driver | `src/main.rs` | options, file system, diagnostics, what it has written | parse the command line, enter the overlay, translate, write three products, print diagnostics |
| virtual file system | `src/vfs.rs` | cache of reads (failures too), overlays | `read_vfs_file`, `add_overlay` |
| diagnostics | `src/diag.rs` | list of diagnostics | `has_errors`, `print_to_stderr`, conversion to LSP |
| clang front end | `src/clang.rs`, `cpp/impl.cpp` | builders of declarations; while it translates a statement, the increment of the enclosing `for` and the flag of the enclosing `switch` | callbacks from C++ into Rust, `trStmt`, `trExpr`, `trDecl`, attributes |
| annotation parser | `src/hauntedc.rs`, `src/mayberc.rs` | none between calls | one annotation to one expression, type or piece of Pulse code |
| IR | `src/ir/*.rs` | the translation unit, shared by `Rc` | constructors, printer |
| environment and types | `src/env.rs` | tables of globals and locals | lookup, normal form, equality, meet, inference |
| prune | `src/pass/prune.rs` | dependency map, roots, worklist | drop what the main file does not need |
| merge | `src/pass/merge.rs` | indices of definitions, indices to remove | merge prototypes into definitions |
| restructure_goto | `src/pass/restructure_goto.rs` | the list, labels skipped | turn forward gotos into blocks |
| elab | `src/pass/elab.rs` | the environment as it grows | pointer kinds, casts, lifting of assignments and conditionals |
| check | `src/pass/check.rs` | the environment as it grows | names (before elab), names and types (after) |
| name mangling | `src/pass/emit.rs` (`NameMangling`) | map from names to identifiers, identifiers taken | `mangle` |
| emit | `src/pass/emit.rs` | name table, string writer with a stack of annotations | print the module, collect source ranges |
| source range info | `src/source_range_info.rs` | none | serialise the ranges |

How they interact. The driver calls the others one after the other, in one thread:
front end (which calls back into Rust for every declaration, hands the texts of the
annotations to the annotation parser, and reads files through the virtual file system), prune, check for names, merge, restructure_goto, elab, check
for types, emit, three `fs::write`s, the report. They share the translation unit,
which each pass rewrites in place, and the list of diagnostics, which only grows and
at the end decides whether the module is poisoned with `let _ = assert False`.

Where it is hard. There are no threads; what is concurrent is the world: the
editor that runs `pal` saves files while it runs, kills it and starts it again, and
`make` and F\* pick up what it wrote. Inside, what is hard is *order and aliasing of
intermediate state*: worklists over hash sets, indices into a list that is being cut,
an environment that grows while declarations are rewritten, members of the translator
that must be saved and restored around nested loops, texts of annotations that are told
apart by a counter while clang expands macros ahead of the declaration it hands over,
a hand-written parser that splits clang's tokens once more, two passes (elab and check) that
decide the same question, the equality of types, each with its own code, and names that
are put together from parts and may spell the same. The list of such places, each at its
line, is `hazards` in `PROJECT.json`.

What makes each component correct:

* driver: one run works on one version of each file; the products in a directory agree;
  every fault of the source reaches the module.
* prune: keeps exactly what the main file reaches, whatever the order of the sets.
* merge: loses no definition; a contract is kept or the disagreement reported.
* restructure_goto: the text is the same, blocks are as large as needed, labels vanish.
* front-end statements and gotos: the translation does what the C statement does, with the
  variables it means.
* annotations: an annotation means what C's grammar says its text means, with the text
  that belongs to it and at its place; a text that is not what the annotation takes is
  reported.
* elab and check: elab makes types agree by check's standard, changes no code, and may
  be applied twice.
* name mangling: injective, avoids reserved words, stable.
* emit: the module names nothing before it is defined; each predicate is applied to what
  it was defined for; a function claims and gives back exactly the memory that the types
  and modes of its parameters stand for, and none of it twice; the ranges saved with it nest, and lead back from
  each node to the place it comes from.

## 2. The modules

| Module | Models | Notes |
|---|---|---|
| `Prune` | `pass/prune.rs` | `Deps` as a state machine: scan, roots, closure, retain |
| `Retention` | (abstract) | what prune promises, without worklist or map |
| `PruneProofs` | | proofs about `Prune`, and that it implements `Retention` |
| `NameMangling` | `NameMangling`, `Name`, `pick_new` of `emit.rs` | strings are sequences of parts between underscores |
| `NameManglingProofs` | | proofs about it |
| `Merge` | `pass/merge.rs` | the three loops, one step each turn |
| `MergeProofs` | | proofs about it |
| `Merging` | `pass/merge.rs` | the same pass over units with types and expressions, in one step, for `Typing` |
| `GotoBlocks` | `pass/restructure_goto.rs` | the step of the pass on one list: which label, where its block begins, the splice |
| `GotoTrees` | `pass/restructure_goto.rs` | the pass as recursive functions over nested statements, for `Desugar` and for the lists below the one in `RestructureGoto` |
| `RestructureGoto` | `pass/restructure_goto.rs` | one call of `restructure_stmts`, one splice per step; what recurs over nested statements is a parameter |
| `GotoTreeLaws` | | the equations that define those parameters, and that statements are finite trees |
| `RestructureGotoProofs` | | proofs about `RestructureGoto`, from the laws |
| `FlattenProofs` | | facts about putting a sequence of sequences together, and induction over numbers without an operator parameter |
| `Vfs` | `vfs.rs` | a file system is a value; instantiated by `Driver` |
| `Driver` | `main.rs`, `diag.rs`, reads of the front end | the command in a world that edits, kills and fills the disk |
| `DriverProofs` | | proofs about `Driver` and `Vfs` |
| `FrontEnd` | `HandleDecl` and `MacroTracker` of `cpp/impl.cpp`, `Ctx` and `DeclBuilder` of `clang.rs`, the macros of `pal.h` | declarations, their types and attributes |
| `Tokens`, `Grammar` | `hauntedc.rs`, places in `ir/mod.rs` | the tokenizer and the place of a run of tokens; expressions, types, inline Pulse, bindings and signatures |
| `CSyntax`, `Surface` | (reference) | how a program is written, and what it means; nothing in them follows the translator |
| `Writer` | `StrWriter` of `pass/emit.rs` | a state machine: write, open and close a node |
| `Printer` | `emit` of `pass/emit.rs`, `render_raw` of the crate pretty | a document as a sequence of commands, carried out one by one on the writer; the layout chooses what a line becomes |
| `PrinterProofs` | | proofs about `Writer` and `Printer` |
| `Annotated` | front end, printer and writer together | from the text of an annotation to its place in the module and back |
| `ControlFlow` | C statements and the IR's | scopes, continuations and events; the meaning of both languages |
| `Desugar` | `trStmt` of `cpp/impl.cpp` | loops, switch, break, continue to `while`, `if` and flags; flat blocks; then the goto pass |
| `Lockstep` | `Desugar`, `RestructureGoto` and `ControlFlow` | a C statement and its translation, side by side |
| `Terms` | `ir/mod.rs` | types and expressions |
| `Types` | `ir/mod.rs`, `env.rs` | statements and declarations, the shapes all of these have, environment, inference |
| `Elab` | `pass/elab.rs` | conversions, pointer kinds, lifting, pre-registration |
| `Check` | `pass/check.rs` | what is reported, with and without types |
| `EmitCode` | types, expressions, statements in `pass/emit.rs` | a text is the set of names in it, and the reports |
| `Emission` | predicates, signatures and declarations in `pass/emit.rs` | the items of the module and what they claim of memory |
| `Ownership` | (abstract) | what memory a type stands for, without predicates; what the items say with predicates unfolded. Both are sequences of pieces of memory, compared as bags: a piece claimed twice is not a piece claimed once. The values in the memory are left out (`PredicatesFit` and `BindersAreDistinct` are about those) |
| `Typing` | the order of `main.rs` | check for names, merge, elab, check for types, emit, one step a declaration |
| `TypingProofs` | | proofs about `Typing`, from the equations of its recursive functions |
| `MC*` | | instances for TLC |

How state and actions correspond to the code:

* **Prune.** `deps`, `roots`, `todo`, `out` are the variables of `Deps` and `prune`;
  `iter` is what the running `for` loop over a hash set has yet to yield, so every
  order of iteration is considered. `ScanDecl` is one turn of the loop over
  `tu.decls`, `TakeDeps` is `if let Some(..) = deps.remove(..)`, `Visit` one turn of
  the inner loop of `transitive_closure`. A declaration is reduced to its name and
  the names it mentions with their position; positions prune does not scan
  (variables, `decreases`, verbatim Pulse) are in the model and are not scanned.
* **Merge.** `i`, `to_remove`, `defn_indices` are the variables of `merge_decls`; the
  loops are `Match*`, `CopySpecs`, `RemoveMerged`. Types are compared with
  `vtype_eq`, by which the type of what could not be translated equals every type. A
  clause carries its place, since expressions are compared with theirs, and names a
  parameter. Clang may let a declaration inherit annotations of an earlier one; no unit is
  left out for that, and a clause inherited is one with the same place.
* **RestructureGoto.** `MakeBlock` is one splice, `SkipLabel` one entry into
  `skip_labels`; `RestructureNested` is the loop that recurses first. `HasGoto`,
  `Restructured`, `NestedLists` and `Written` are parameters of the module, so that it has no
  recursive operator; TLC runs it with those of `GotoTrees`.
* **NameMangling.** `Mangle(n)` is one call for a name not yet in the map, in any
  order; `PickNew` is the loop that tries `base`, `base_1`, ...
* **Driver.** `pc` walks through `main` and `translate`; each read clang makes is an
  action of its own, and so are the truncation and the filling of each product. The status
  of a header that the run could not read is asked of the disk (`impl.cpp:1744`): clang then
  tries to open it, or does not, and finds nothing either way.
  `Edit`, `Kill` and `WriteFails` are the environment. `seen` is a history of reads.
* **Annotated.** `source` holds the declarations not yet read, `read` those clang has read
  but not handed over, `tracker` the snippets of `MacroTracker` and `__COUNTER__`. `ReadDecl`
  is clang expanding the macros of one declaration; `HandleDecl` is `HandleDecl` of
  `impl.cpp` with the callbacks into Rust, down to `add_fn`, `add_let_decl` and the
  others, and so with the parse of each text; the translation unit and the list of
  diagnostics are what it leaves. A parser is an operator from a position in the tokens to
  what it built and the position after; alternatives stand in the order in which the code
  lists them. `EmitContracts` makes the document of the contracts, `Render` (of `Printer`)
  writes it, one command at a time, to the `StrWriter` (`buffer`, `line`, `character`,
  `annotation_stack`, `source_range_map`); the layout may turn any line break into a space.
* **Lockstep.** `source` and `target` are runs of the two statements. They advance
  silently on their own; at an event (an action, the use of a variable, a test, a
  selection) they take it together, with the same answer, which the environment chooses.
  `Bound` gives each use the number of the declaration it means, in C and in the module,
  before they run: blocks are scopes in C, and so are the parts of a `for`; in the module
  only the blocks the translation keeps, and goto blocks. A goto of C goes to its label
  wherever that is, also back or into a loop; in the module it must be in the block that
  ends at its label, else F\* rejects the module (`refused`) and nothing is claimed.
* **Typing.** `decls` is the unit, rewritten in place; `env` grows with each
  declaration; `diags` are the reports with the pass and declaration they are about.
  A pass's functions that call each other are tied together in one recursive
  function (`Elaborate`, `Visit`, `Text`), under the names of the functions of the code.
  These modules declare no recursive operator, since the provers cannot use one: a recursive
  function `f` is a `CONSTANT` operator, and `Def_f` is its body, which uses `f`. `MCTyping`
  defines `MCf` as `Def_f` and `Typing.cfg` gives `f <- MCf`, so that TLC evaluates the
  recursion; the proofs take `f = Def_f` as a hypothesis.
  `emitter` is the state of `Emitter` apart from the table of names: the types of the
  values each predicate takes, and the structure being defined. `output` is the module as
  a list of items: what an item defines, the names in its text, the propositions and
  bound values of a predicate, the parameters of a function. The two runs of check and
  the emitter go on after reports, as `main.rs` does; what is printed for a faulty unit
  is modelled, and poisoned by the driver, so most properties of the module are about
  units without reports (`Accepted`).

## 3. The runs

| Run | What it asks | Bounds, and why they are enough |
|---|---|---|
| `prune` | is exactly the needed kept, is nothing lost on the way, does it end, does it implement `Retention` | units of three declarations over a function and three kinds of declaration that share a name: chains, cycles, self-dependency, several declarations of one name, mentions in the wrong position. A dependency that is lost is lost between two names; the theorem has no bound |
| `mangle` | are identifiers distinct, legal, stable, and renamed only if taken | ten names that collide in every way the formats allow, in every order |
| `goto` | same text, tight blocks, separate labels restructured, termination | bodies of up to five statements over two labels, flat and nested in `if` and `while`: two overlapping or nested spans need four |
| `goto_swallowed` | *(violated)* is every forward label restructured | bodies of up to four statements |
| `merge` | no definition lost, one entry unless reported, one contract kept | units of up to three (some of four) declarations of a function and a struct, every combination of types, contracts, places and orders of parameters: two prototypes around one definition need three |
| `merge_contracts` | *(violated)* are contracts that say the same merged, and none changed or dropped | the same units; each of the three findings has a unit that violates it by itself |
| `driver` | one text per run, the copy is translated, positions are valid, products are whole, in order and agree, reported faults poison | two runs and two edits over three texts (faulty and short, good, late fault and longer): an inconsistency needs one edit between two reads, one between two runs |
| `desugar` | does the translation behave as the statement, does it always reach the next event | bodies of up to two statements in each kind of loop, loops in loops, switches of two or three labels, switches in loops; 1162 bodies of up to four statements with two labels and gotos out of every kind of statement, in any order (369 are accepted, the others jump back or into blocks), and variables declared again in blocks. Every iteration is followed: states are finite since a run is a continuation and a few flags |
| `desugar_jumps` | *(violated)* the same, where `break` stands beside a label, before the end of a block, or in a loop in a case; for a `do` with `continue` in a `for`; for a variable declared again in a bare block, in a `for`, or between a goto and its label | eleven programs. Each kind alone violates it: give `Programs` the value `SwitchPrograms`, `ForPrograms` or `ScopePrograms` |
| `annotations` | does every annotation mean what it says, is every fault reported, are places those of the text, do ranges nest and point back | 1929 programs of one to three declarations: every operator in every operand of every other, written with as few parentheses as C allows and with redundant ones; every other form of an expression as an operand of each; inline Pulse two antiquotations deep; pairs of attributes on functions, parameters and typedefs; all sequences of three declarations of five kinds, read one ahead (`Lookahead = 1`: one declaration whose macros are expanded too early is where a text could be taken for another's); faults in one place or two. Two contracts are printed, with every choice of line breaks |
| `annotation_faults` | *(violated)* is a fault reported wherever it stands | the same faults, and faults in antiquotations and in `_refine_value` |
| `typing` | is what elab accepts well typed for check; is elab idempotent; is code kept; are pointers left alone; are kinds settled; is the emitted module in order, its predicates applied as defined, its memory that of the types | 2957 units. 2221 of one header with every kind of declaration, and a function whose assertion is any operator over any two of 13 operands of different types, or whose body nests assignments and conditionals two deep, or uses pointers of every kind, inline Pulse, goto blocks and loops. 537 for the emitter: five declarations of types that build on each other (a structure that points to itself, to another and through a typedef; arrays; a refined typedef) in all 120 orders, with a function over them in each mode; functions with parameters and results of 16 types in all four modes; pure functions, impure `let`s, globals and recursion, right and wrong. Claims are lost or confused between one type and another it mentions: chains of four are there. `MaxDepth` is how deep the parts of a unit are nested; no unit is deeper. 199 for merge: a function declared, called and defined, in every order, with contracts and names of parameters alike and not; a structure declared, used and defined |

The type invariant (`TypeOK`) of `Typing` is stated beside the others and is in no run;
those of `Driver` and `Merge` are proved, as are `NothingExtra` (`Prune`) and
`RenamedOnlyIfTaken` (`NameMangling`), which the runs therefore leave out.

The properties, in the order of what they are worth, are stated in the modules, each
with the lines it is about. Each has a mutant: a definition changed as a plausible bug
would change it, under which TLC finds the property violated. The mutants stand beside
the definitions they replace, with a comment.

Deadlock is not checked: every pass ends in a state without successors, and the
command is idle when its bound on runs is used up. That the passes end *well* is
`Terminates` (`Prune`, `RestructureGoto`), and for `Lockstep` `EventsAreMatched`.

**Fairness.** `Prune`, `Merge` and `RestructureGoto` are functions that are called and
run until they return: weak fairness of the next-state relation says just that. The same
for `Lockstep`, whose two runs are programs that are executed. `Driver`, `NameMangling`,
`Typing` and `Annotated` assume no fairness: only safety is claimed of them (a run may be
killed; the emitter need not ask for every name).

**Other bounds.** `MaxEdits`, `MaxRuns` (`Driver`), `MaxLen` (`MCRestructureGoto`) are the
only counters that are capped. `Value` in `ControlFlow` bounds the values a `switch`
selects: two labels and one other value. `MCPieces` (`MCAnnotated`) are the texts the printer
writes: a parenthesis, a name, a new line.

## 4. What is proved

TLAPS checks, for every value of the constants:

* **Prune** (`PruneProofs`), from `UnitsAssumption` (units are lists of declarations):
  type correctness; `NothingExtra`; `NoDependencyLost`; `KeepsExactlyTheNeeded`; and
  that every step implements `Retention` or leaves it unchanged (`ImplementsRetention`,
  fairness apart).
  `NoDependencyLost` is not inductive: that a marked name's dependencies are marked or
  wait depends on where the dependency sets are. The inductive invariant `IInv` has four
  parts besides the types: `Justified` (marks, map, stack and running loop hold only
  what is needed), `Progress` (what each phase has finished), `NothingDropped` (of every
  scanned declaration the dependencies are in the map, or are marked or waiting),
  `MarkedAreTaken` (a marked name's dependencies are no longer in the map, so they are
  marked or waiting). When the stack is empty nothing waits, so the marks are closed;
  they hold the roots; they are needed: they are exactly the needed names.
  `EveryStepLessens` is why the closure ends, cyclic dependencies or not: each step leaves
  less to do in the lexicographic order of the phase, the sets in the map and on the stack
  together (a set is pushed only by taking it out of the map), whether a loop over a set
  runs, and what that loop has left; `DescentEnds` says that this order is well founded. It
  assumes that a declaration mentions finitely many names.
* **Name mangling** (`NameManglingProofs`), for any set of names and however they
  spell: `NoTwoNamesCoincide`, `NothingReserved`, `RenamedOnlyIfTaken`, `NamesStay`.
  `IInv` adds `UsedIsWhatIsTaken`: `used` is exactly the reserved words and the
  identifiers given out; without it a free identifier might be one already given.
  `PickNewIsTotal` shows that the unbounded loop of `pick_new` ends within `|used| + 1`
  tries, if different numbers are written differently. `TypesAreRight` is type
  correctness: what is emitted is a string, one with an upper-case letter exactly if the
  name is a union's constructor, if numbers are written without such letters; from
  `NamesAssumption` and `FormatAssumption`.
* **Driver** (`DriverProofs`), for any texts, any number of runs and edits, wherever a run is
  cut short: type correctness and all seven properties of the run `driver`. The inductive
  invariant has three parts. `ReadsInv`: what a read returned is what the file system has
  settled on (`ReadsAreHeld`: the cache and the overlay, failures included, are never
  revised), the overlay is there before the first read and the main file is read first
  (`OverlayComesFirst`), and each diagnostic points into a text that was read
  (`PositionsAreSeen`); this is why printing the diagnostics at the end finds every
  position. `WrittenInv`: which products are this run's at each step, and that no product
  is of a later run. `FaultsInv`: which faults have been reported by which step, that the
  module is poisoned by what emit saw last, and that until the diagnostics are filled
  those in the directory are of an earlier run. From `TextAssumption` (a text has at least
  one line) and `BoundsAssumption`; the bounds themselves play no part.
* **Merge** (`MergeProofs`), for any unit: type correctness (no index to be removed is
  stale), `NothingIsLost`, `OneEntryUnlessReported`, `OneContractIsKept`; from
  `UnitsAssumption`. `IInv` says of `to_remove` that its indices are in order, valid and
  those of declarations that have a definition, so that removing the largest moves none
  of the others. `DefinitionsStay` carries what is declared through the removals: what goes
  has a definition, and definitions never go. `Complete` says that every declaration of a
  defined function is marked or reported once the loop is past it. For contracts:
  `Spread` (nothing is said of a function that the unit did not say of it), `CopiedSoFar`
  (the copying loop has gone past what it copied from) and `Carried` (who had a contract
  has one on an entry that will stay).
* **RestructureGoto** (`RestructureGotoProofs`), for bodies of any length and depth:
  `TextIsKept`, `BlocksAreTight`, `SeparateLabelsAreRestructured`, and `RoundsAdvance`: the
  label each round stops at is nearer the front than the last one, so that the restarts
  end. `PassIsInvariant` is the inductive invariant. Its main part is `LoopInv`, an invariant
  of the loop over one list that does not mention the recursion: the list has the text, the
  gotos and no more labels than the list the loop began with, its blocks are tight if they
  were, and, if the spans of the labels do not overlap, there is a place in the list (`Done`)
  before which nothing has changed, and behind which the only labels left are skipped ones.
  Without that place the invariant is not inductive: a splice moves what is behind it, and a
  label there would be looked at again. For what is below the list,
  `NestedAreGood` says that the pass has the same results there; it is proved for every
  list by induction on its height (`EveryNumberAtOnce`, an induction over a set of numbers).
  The hypothesis of the theorems is `StmtsAreTrees` (`GotoTreeLaws`): statements are records
  that may be nested to any finite depth and into which blocks can be put
  (`StmtsAreRecords`, `StmtsAreFinite`), and the parameters of the module satisfy the
  equations by which `GotoTrees` defines them (`Equations`). The provers cannot
  expand a recursive definition, so these equations stand for it; TLC checks them of the
  definitions themselves, on every list in a body of the run, before or after the pass
  (`LawsAreThoseOfTheTrees`). `BodiesAssumption` (no label twice, no block yet) is what the
  front end delivers.
* **Writer and Printer** (`PrinterProofs`). For any texts that are not empty, in any order of
  writing, opening and closing: `RangesNest`. `WriterInv` adds that open nodes began in order,
  and that a saved range lies before or within every node still open; from
  `PiecesAssumption`. For any document whatever, and any choice of line breaks:
  `RangesPointBack`. It speaks of the text and the document alone, so the invariant must
  relate them to the state of the writer: `Reached` (the text written is that of the commands
  carried out, and ends at `line` and `character`; `At` counts new lines from the front and
  characters from the back, which is what `write_str` keeps step by step), `Stacked` (each
  entry of the stack was put there by a begin of its own, with the position before it, and
  as many nodes are open from there on as the stack is deep) and `Saved` (each node that
  ended has its entry). Text written later changes no earlier position (`PositionStays`). By
  the same invariant the `unwrap` of `pop_annotation` finds a node, and none is left at the
  end, in every document in which no node ends before it begins and every node ends
  (`NodesAreFound`); `annotated` makes no other. `PrintingIsWriting`: a document that is
  printed is a behaviour of `Writer`, so that `RangesNest` holds of it too. From
  `PiecesAssumption` and `BreaksAssumption`.

* **Typing** (`TypingProofs`), for units of any size and depth, whatever merge makes of them:
  `ElabKeepsCode`, that elab changes no code (`CodeIsKept`). The shapes of the IR are
  conditions on data (`IsExpr`, `IsStmts`, `IsDecl` of `Types`): which parts a node has, and
  that they are nested at most so deep; `UnitsAssumption` says it of the units, TLC evaluates
  it on those of the run. Every induction is over that depth. The hypothesis `AsDefined` is
  that the recursive functions satisfy the equations that `Typing.cfg` makes true of them,
  where it can be, of pieces of bounded depth: the functions recur on what is less deep
  (`elab_from` on what it has lifted, which is smaller, or on the rest of the block), so there
  are functions that satisfy them. The argument:
  `Matches` is reflexive and transitive, so a piece may be elaborated any number of times
  (`MatchesItself`, `MatchesTransitive`); each case of `elab_rvalue` only casts, or names an
  attribute (`ElabParts`); a statement is rebuilt over elaborated parts (`Rebuilds`), and what
  the reference (`Lifted`) makes of it is the same before and after (`LiftedSame`). The loop
  of `elab_stmts` replaces a statement by the ones lifted out of it and stands still, so its
  invariant is about what is left of the block: `Goes(T)`, that after any statements done the
  loop makes of `T` statements that are the same code. It is proved by induction on the
  depth, then on the casts, assignments and conditionals at the front (`TurnIs`, `GoesOn`,
  `GoesPast`). `CodeInv` says of all declarations what the property says at the end; it needs
  the shapes besides, since the pass goes over what it made (contracts and statements are
  elaborated twice), and it must hold after merge, whose result is made of declarations of the
  unit and clauses of others (`MergedIs`).

  `BindersAreApart`, that the values bound in one claim have different names
  (`BindersAreDistinct`), from the equations of the emitter's functions besides
  (`EmittedAsDefined`, `ArgsAsDefined`). The emitter names a value by the number of values
  before it, so the claim it appends to must be numbered from the start and without a gap
  (`Numbered`), through pointers, arrays, refinements, the fields of a structure, and the
  predicates of named types, which bind as many values as a table of the emitter says. That
  is an induction over the depth of the type (`SlpropNumbered`) and over the fields
  (`FieldsNumbered`). `BinderInv` has, besides the claims printed so far, that the tables hold
  lists (`Tables`), to which every definition adds one, and that the types of the unit are of
  bounded depth (`AllHaveTypes`), which merge and elab must keep (`ElabNextHasTypes`,
  `MergedHasTypes`). Nothing is assumed of what check reports.

Only model-checked: liveness (`Terminates`, `EventsAreMatched`), which needs fairness (the
theorems `EveryStepLessens` and `RoundsAlwaysAdvance` are the part of it that is a fact about
steps); that the documents of `Annotated` are those of the program, and what is said there of
the parser; `Lockstep`, whose modules (`ControlFlow`, `Desugar`) have recursive operators; and
of `Typing` what is not named above. `ElabSatisfiesCheck`, `ElabIsIdempotent`,
`PointersAreNotCast` and `KindsAreSettled` need, beyond the shapes, that environments are
consistent: which name means what changes as declarations are rewritten and inference is
repeated in the rewritten environment. They also hold only of units without reports, or such
as the front end delivers, so no induction over pieces alone proves them. The other properties
of the emitted module relate it to what check lets pass, the environment and an abstract
meaning (`Ownership`) that recur each in their own way.

## 5. Findings

Each is a run that TLC must find violated, with the quoted comment or document in
`PROJECT.json`.

1. `goto_swallowed` (`restructure_goto.rs:52`). The block of a later label takes in an
   earlier label, which is never restructured. The usual cleanup ladder loses a label,
   and no diagnostic is given.
2. `merge_contracts` (`merge.rs:138`). Two prototypes with different contracts, and a
   definition with none: one contract is dropped without an error.
   `merge_contracts` (`merge.rs:139`). A contract is moved to a definition by the names of
   its parameters: if the definition names them in another order it requires something
   else. `merge_contracts` (`merge.rs:100`). The same contract on the prototype and on the
   definition is an error, since expressions are equal only with their places.
3. `annotation_faults` (`hauntedc.rs:1584`). An antiquotation whose expression does not
   parse, or that has tokens left over, is printed as it stands or cut short, without a
   diagnostic; so is the predicate of a `_refine_value` (`clang.rs:564`), whose diagnostics
   go to a list that is dropped. The module is not poisoned.
4. `desugar_jumps` (`impl.cpp:1145`). A `break` beside a case label is executed though
   the label was not entered; a `break` before the end of a block does not skip the rest.
5. `desugar_jumps` (`impl.cpp:936`). A `continue` of a `do` inside a `for` runs the
   increment of the `for`.
6. `desugar_jumps` (`impl.cpp:1282`, `// TODO: scope`). After `int x; { int x; }` the
   module uses the inner `x`; so it does after a `for` that declares `x`, in the increment
   of a `for` whose body declares it, and after a label whose block took in a declaration.

Seen while reading, modelled as they are or left out, without a run of their own:

* the left side of a lifted assignment is written twice (`elab.rs:682`): in
  `x = (a[i++] = e)` the increment happens twice. The units here have left sides
  without effects;
* an assignment or conditional below a cast or in a condition is not lifted, and is an
  error of the emitter (`emit.rs:1911`);
* elab exempts the assignment of an array to a plain pointer from conversion
  (`elab.rs:497`), and check then reports it as an internal error;
* the type of a quantified variable is not elaborated (`elab.rs:422`): a quantified
  pointer equals no other pointer, and elab refuses the comparison;
* the body of a quantifier is inferred without its variable (`env.rs:425`);
* prune scans neither mentions of variables nor `decreases` clauses (`prune.rs:135`,
  `prune.rs:300`);
* a function called, or a structure used, after its prototype and before its definition is
  "unknown" to the check after elab, an internal error: merge has removed the prototype
  (`merge.rs:149`). The units of `typing` have both;
* merge copies the contract of a prototype, and not `is_pure`, `is_rec` or `decreases`;
* two fields with the same `_refine_value` binder share it in the predicate of their
  structure: the binder is printed as written (`emit.rs:821`);
* a pointer to the structure being defined is recognised only when the pointee is the
  structure itself: with a refinement in between (`emit.rs:697`) the predicate would use
  itself, with no values. The units have no such field;
* a local that hides a pure global is printed as a value, not as a place (`emit.rs:905`);
* the default of a type built on an incomplete structure, and the predicates of an opaque
  type, name what the emitter never defines: `NamesAreDefinedFirst` excepts them, since
  inline Pulse code may define them;
* of an antiquotation of a field (`$field(s::f)`) or of a function that folds or unfolds a
  type, check looks at neither the type nor the field (`check.rs:155`: "TODO: check that
  field exists"; `check.rs:158`: "Checked at emit time", where the emitter asks only
  whether the type is a structure or a union). One that names a type declared later, or
  nowhere, is printed without a report. Those of the units name earlier types, and
  `NamesAreDefinedFirst` holds them to it; the field is not in the model;
* clauses of an impure `let` are not printed (`emit.rs:3767`);
* prototypes repeated without a definition are printed as often;
* ranges of case labels, a GNU extension, are translated as their first value, and
clang diagnostics without a location are dropped (`impl.cpp:1650`).

Of the annotation parser:

* `(x) - y`, `(x) * y`, `(x) & y` and `(f)(x)` are read as casts, since any name in
  parentheses may be a type; the programs of the run write no such parentheses;
* an expression that ends at the last token of its annotation has the place of the whole
  annotation, and one with inline Pulse in it can have a place in `pal.h`
  (`PositionsAreOfTheText` excepts the latter);
* `$foo` and `foo$` outside an antiquotation are printed twice, `foo$(x)` keeps a stray
  `$`, and `$(foo$)` has an empty body;
* an unknown `_inline_pulse(n)` is read as a call of a function of that name;
* `_array` on what is not a pointer, or before a refinement, only writes to the standard
  error stream (compare `tests-todo/complex_union_ownership.c:57`);
* the widths of integers in the predicate of `_refine_value` are the default ones, not
  those of the target;
* hexadecimal, octal, character and floating literals are not read.

## 6. What is not modelled

* **Expressions and types of C, the fields of structures, and global variables in the front
  end**: their input is the whole of C as clang presents it; `Typing` starts from the IR
  they build. Functions, parameters, typedefs and annotations are in `FrontEnd`, and
  control flow is in `Desugar`.
* **String literals in annotations**: abstract texts that are no tokens.
* **The layout of the emitted module**: which words, and where lines break. What the text of an expression means to F\* is not modelled
  either, only what it names, and the claims of types, which are.
* **The text of diagnostics and of the IR printer**, source positions inside a
  declaration, LSP serialisation, the JSON of source range info: formatting.
* **The Pulse library** (`pulse/`): F\* verifies it.
* Two runs of the command at the same time, and the name of the module it writes.

Abstractions that readers of a module should know: in `Merge` and `Prune` types,
clauses and bodies are opaque; in `RestructureGoto` statements are kinds with names; in
`ControlFlow` a condition is an opaque test; in `Typing` literals have no values other
than their text, inline Pulse is the list of its antiquotations, and a report is
a short constant; in `Emission` the functions that fold and unfold a structure are one
item, the permission of every `const` parameter is one constant, every argument has a
name, and names are not mangled (`NameMangling` is about that). In `Driver` the front end and the passes are one step each: nothing
they do is seen from outside but their reads and their reports.

## 7. Plan

Done, in this order, as the most important behaviour comes first: what is translated
(`Prune`, `Merge`), what control flow becomes (`RestructureGoto`, `Desugar`,
`Lockstep`), names (`NameMangling`), the world around the command (`Vfs`, `Driver`),
types (`Types` ... `Typing`), what is printed (`EmitCode`, `Emission`, `Ownership`),
annotations from their text to the module and back (`Tokens` ... `Annotated`, `Writer`,
`Printer`), the proofs about `Driver`, `Writer` and `Merge`, those about
`RestructureGoto` and `Printer`, for which the recursion of the one became parameters with
laws, and the other was separated from `Annotated`, and those about `Elab` and `Emission`, for
which the recursive functions of the typing modules became parameters with their equations.

Next, models:

1. Counting effects: lifted and compound assignments, increments (`elab.rs:682`).
2. What the projections, folds and unfolds of structures and unions take and give, and
   records and global variables in `FrontEnd`.

Next, theorems:

1. The types that check and elab compute: equality is an equivalence but for what could
   not be translated, and a conversion gives the type that is wanted. From there
   `ElabSatisfiesCheck`, an expression at a time.
2. The loops of the front end (`Desugar`) with their recursion as a parameter, for
   `BehaviourIsKept`.
