------------------------------- MODULE Driver -------------------------------
(***************************************************************************)
(* The command `pal` (src/src/main.rs) in the world it runs in.  A run     *)
(* reads the main file and the header it includes, collects diagnostics    *)
(* stage by stage, and writes three products: the F* module, the source    *)
(* ranges and the diagnostics.  Meanwhile an editor changes the files, and *)
(* the run can be killed or find the disk full at any step; it is then     *)
(* started again.  With --tmpdir the main file's text is taken from a copy *)
(* in that directory, and the products go there.                           *)
(*                                                                         *)
(* A text is a record: its number of lines, whether it includes the        *)
(* header, and its faults, which stand on its last line.  The file system  *)
(* is module Vfs.                                                          *)
(***************************************************************************)
EXTENDS Naturals, FiniteSets

CONSTANTS
  Text,        \* the texts a file can hold
  Unreadable,  \* the content of a missing file, or one that is not UTF-8
  MaxEdits,    \* bound: how often the editor changes a file
  MaxRuns      \* bound: how often the command is started

\* The stages that report faults.  "refine" is a malformed _refine_value
\* annotation, which is parsed with diagnostics of its own (clang.rs:559-577).
Fault == {"clang", "warning", "snippet", "refine", "name", "contracts", "emit"}

ASSUME TextAssumption ==
  /\ Text \subseteq [lines : Nat \ {0}, includes : BOOLEAN, faults : SUBSET Fault]
  /\ Unreadable \notin Text
ASSUME BoundsAssumption == MaxEdits \in Nat /\ MaxRuns \in Nat

Source == {"main", "header"}
Copy == "copy"     \* the main file's copy in the tmpdir
Dir == {"src", "tmp"}
Product == {"fst", "range", "diagnostics"}
Content == Text \cup {Unreadable}

Diag == [file : Source, line : Nat, error : BOOLEAN, stage : Fault \cup {"elab"}]
File == [run : Nat, whole : BOOLEAN, poisoned : BOOLEAN, diags : SUBSET Diag,
         faults : SUBSET Fault]
NoFile == [run |-> 0, whole |-> FALSE, poisoned |-> FALSE, diags |-> {}, faults |-> {}]

VARIABLES
  disk,      \* the files the editor changes
  edits,     \* how often it did
  out,       \* the products in each directory
  run,       \* the number of the current or last run
  tmpdir,    \* cli.tmpdir
  print_ir,  \* cli.print_ir
  vfs,       \* vfs
  seen,      \* history: what each read of this run returned
  diags,     \* diags, as a set
  poisoned,  \* pulse_code ends in `let _ = assert False`
  left,      \* the diagnostics print_to_stderr has not printed
  pc,
  status     \* how the last run ended

vars == <<disk, edits, out, run, tmpdir, print_ir, vfs, seen, diags, poisoned, left, pc, status>>
world == <<disk, edits>>
cli == <<run, tmpdir, print_ir>>

FS == INSTANCE Vfs
-----------------------------------------------------------------------------
OutDir == IF tmpdir THEN "tmp" ELSE "src"

\* The readable texts the run has read, of a file or of any
TextsOf(f) == {s[2] : s \in {x \in seen : x[1] = f}} \ {Unreadable}
TextsRead == UNION {TextsOf(f) : f \in Source}

\* The diagnostics of one kind of fault, reported by one stage
Report(fault, stage) ==
  {[file |-> s[1], line |-> s[2].lines, error |-> fault # "warning", stage |-> stage] :
     s \in {r \in seen : r[2] # Unreadable /\ fault \in r[2].faults}}

has_errors(ds) == \E d \in ds : d.error

Exit(how) == pc' = "idle" /\ status' = how

\* The run reads file f; what it gets
ReadFile(f) == FS!read_vfs_file(vfs, disk, f).result
Reading(f) ==
  /\ vfs' = FS!read_vfs_file(vfs, disk, f).fs
  /\ seen' = seen \cup {<<f, ReadFile(f)>>}
-----------------------------------------------------------------------------
Init ==
  /\ disk \in [Source \cup {Copy} -> Content]
  /\ edits = 0
  /\ out = [d \in Dir |-> [p \in Product |-> NoFile]]
  /\ run = 0
  /\ tmpdir = FALSE /\ print_ir = FALSE
  /\ vfs = FS!New
  /\ seen = {} /\ diags = {} /\ left = {}
  /\ poisoned = FALSE
  /\ pc = "idle"
  /\ status = "none"

Start ==
  /\ pc = "idle"
  /\ run < MaxRuns
  /\ run' = run + 1
  /\ tmpdir' \in BOOLEAN
  /\ print_ir' \in BOOLEAN
  /\ vfs' = FS!New
  /\ seen' = {} /\ diags' = {} /\ left' = {}
  /\ poisoned' = FALSE
  /\ pc' = IF tmpdir' THEN "overlay" ELSE "open"
  /\ status' = "none"
  /\ UNCHANGED <<world, out>>

\* Mutant: the overlay is entered under the path it was read from.
AddOverlayOfCopy ==
  /\ pc = "overlay"
  /\ IF disk[Copy] = Unreadable
     THEN Exit("panic") /\ UNCHANGED vfs
     ELSE /\ vfs' = FS!add_overlay(vfs, Copy, disk[Copy])
          /\ pc' = "open" /\ UNCHANGED status
  /\ UNCHANGED <<world, cli, out, seen, diags, poisoned, left>>

\* The copy becomes the overlay of the main file; reading it is unwrapped.
AddOverlay ==
  /\ pc = "overlay"
  /\ IF disk[Copy] = Unreadable
     THEN Exit("panic") /\ UNCHANGED vfs
     ELSE /\ vfs' = FS!add_overlay(vfs, "main", disk[Copy])
          /\ pc' = "open" /\ UNCHANGED status
  /\ UNCHANGED <<world, cli, out, seen, diags, poisoned, left>>

OpenMain ==
  /\ pc = "open"
  /\ Reading("main")
  /\ IF ReadFile("main") = Unreadable
     THEN Exit("cannot open")
     ELSE pc' = "parse" /\ UNCHANGED status
  /\ UNCHANGED <<world, cli, out, diags, poisoned, left>>

\* Clang reads the main file, through CtxVFS.
ParseMain ==
  /\ pc = "parse"
  /\ Reading("main")
  /\ pc' = IF \E t \in TextsOf("main") : t.includes THEN "stat header" ELSE "front end"
  /\ UNCHANGED <<world, cli, out, diags, poisoned, left, status>>

\* CtxVFS::status, then CtxVFS::openFileForRead.  Of a file that the run cannot read,
\* the status is the one it has on disk now: there may be one, but not UTF-8.
StatHeader ==
  /\ pc = "stat header"
  /\ Reading("header")
  /\ \/ pc' = "open header"
     \/ /\ ReadFile("header") = Unreadable /\ disk["header"] = Unreadable
        /\ pc' = "front end"
  /\ UNCHANGED <<world, cli, out, diags, poisoned, left, status>>

OpenHeader ==
  /\ pc = "open header"
  /\ Reading("header")
  /\ pc' = "front end"
  /\ UNCHANGED <<world, cli, out, diags, poisoned, left, status>>

\* A header that cannot be opened is an error at its #include, on line 1.
MissingHeader ==
  {[file |-> "main", line |-> 1, error |-> TRUE, stage |-> "clang"] :
     s \in {x \in seen : x = <<"header", Unreadable>>}}

\* What clang and the annotation parser report while the front end runs.  The
\* diagnostics of a _refine_value annotation go to a temporary.
FrontEnd ==
  /\ pc = "front end"
  /\ diags' = Report("clang", "clang") \cup Report("warning", "clang")
              \cup Report("snippet", "snippet") \cup MissingHeader
  /\ pc' = "passes"
  /\ UNCHANGED <<world, cli, out, vfs, seen, poisoned, left, status>>

\* prune, check, merge, restructure_goto, elab, check; then --print-ir returns
Passes ==
  /\ pc = "passes"
  /\ diags' = diags \cup Report("name", "name") \cup Report("contracts", "contracts")
              \cup Report("name", "elab")
  /\ IF print_ir THEN Exit("ir") ELSE pc' = "emit" /\ UNCHANGED status
  /\ UNCHANGED <<world, cli, out, vfs, seen, poisoned, left>>

\* Mutant: whether there are errors is asked before emit reports its own.
EmitAfterPoisoning ==
  /\ pc = "emit"
  /\ diags' = diags \cup Report("emit", "emit")
  /\ poisoned' = has_errors(diags)
  /\ pc' = "create fst"
  /\ UNCHANGED <<world, cli, out, vfs, seen, left, status>>

Emit ==
  /\ pc = "emit"
  /\ diags' = diags \cup Report("emit", "emit")
  /\ poisoned' = has_errors(diags')
  /\ pc' = "create fst"
  /\ UNCHANGED <<world, cli, out, vfs, seen, left, status>>
-----------------------------------------------------------------------------
\* fs::write truncates the file, then fills it; each write is unwrapped.
\* The products are written one after the other.
Creating == [fst |-> "create fst", range |-> "create range", diagnostics |-> "create diagnostics"]
Filling == [fst |-> "fill fst", range |-> "fill range", diagnostics |-> "fill diagnostics"]

\* Mutant: the diagnostics are written before the source ranges.
AfterSwapped(p) ==
  CASE p = "fst" -> Creating["diagnostics"]
    [] p = "diagnostics" -> Creating["range"]
    [] OTHER -> "print"

After(p) ==
  CASE p = "fst" -> Creating["range"]
    [] p = "range" -> Creating["diagnostics"]
    [] OTHER -> "print"

\* Mutant: the diagnostics of other files are left out.
SerializeMainOnly(ds) == {d \in ds : d.file = "main"}

\* A diagnostic of another file is moved to the top of the main file.
serialize_diags(ds) ==
  {IF d.file = "main" THEN d ELSE [d EXCEPT !.file = "main", !.line = 0] : d \in ds}

\* What a product says when it is whole
Contents(p) ==
  [run |-> run, whole |-> TRUE,
   poisoned |-> p = "fst" /\ poisoned,
   diags |-> IF p = "diagnostics" THEN serialize_diags(diags) ELSE {},
   faults |-> UNION {t.faults : t \in TextsRead}]

Create(p) ==
  /\ pc = Creating[p]
  /\ out' = [out EXCEPT ![OutDir][p] = [NoFile EXCEPT !.run = run]]
  /\ pc' = Filling[p]
  /\ UNCHANGED <<world, cli, vfs, seen, diags, poisoned, left, status>>

Fill(p) ==
  /\ pc = Filling[p]
  /\ out' = [out EXCEPT ![OutDir][p] = Contents(p)]
  /\ pc' = After(p)
  /\ left' = IF After(p) = "print" THEN diags ELSE {}
  /\ UNCHANGED <<world, cli, vfs, seen, diags, poisoned, status>>

\* Mutant: a write that fails is passed over.
WriteFailsSilently(p) ==
  /\ pc \in {Creating[p], Filling[p]}
  /\ pc' = After(p)
  /\ left' = IF After(p) = "print" THEN diags ELSE {}
  /\ UNCHANGED <<world, cli, out, vfs, seen, diags, poisoned, status>>

\* The directory is not writable, or the disk is full.
WriteFails(p) ==
  /\ pc \in {Creating[p], Filling[p]}
  /\ Exit("panic")
  /\ UNCHANGED <<world, cli, out, vfs, seen, diags, poisoned, left>>

Lines(content) == IF content = Unreadable THEN 1 ELSE content.lines

\* Mutant: the diagnostics are printed against the files as they are now.
PrintFromDisk ==
  /\ pc = "print"
  /\ \E d \in left :
       IF d.line <= Lines(disk[d.file])
       THEN left' = left \ {d} /\ UNCHANGED <<pc, status>>
       ELSE Exit("invalid position") /\ UNCHANGED left
  /\ UNCHANGED <<world, cli, out, vfs, seen, diags, poisoned>>

\* print_to_stderr: one diagnostic, against the text of its file; a missing
\* file counts as empty, and a line the text lacks is an "invalid position".
PrintDiag ==
  /\ pc = "print"
  /\ \E d \in left :
       /\ Reading(d.file)
       /\ IF d.line <= Lines(ReadFile(d.file))
          THEN left' = left \ {d} /\ UNCHANGED <<pc, status>>
          ELSE Exit("invalid position") /\ UNCHANGED left
  /\ UNCHANGED <<world, cli, out, diags, poisoned>>

\* The exit code is 0 with errors, too.
EndPrint ==
  /\ pc = "print"
  /\ left = {}
  /\ Exit("ok")
  /\ UNCHANGED <<world, cli, out, vfs, seen, diags, poisoned, left>>
-----------------------------------------------------------------------------
\* The environment: an editor saves or removes a file, at any time; the
\* process is killed, or crashes.

Edit ==
  /\ edits < MaxEdits
  /\ \E f \in DOMAIN disk, t \in Content : t # disk[f] /\ disk' = [disk EXCEPT ![f] = t]
  /\ edits' = edits + 1
  /\ UNCHANGED <<out, cli, vfs, seen, diags, poisoned, left, pc, status>>

Kill ==
  /\ pc # "idle"
  /\ Exit("killed")
  /\ UNCHANGED <<world, cli, out, vfs, seen, diags, poisoned, left>>

Next ==
  \/ Start \/ AddOverlay \/ OpenMain
  \/ ParseMain \/ StatHeader \/ OpenHeader \/ FrontEnd
  \/ Passes \/ Emit
  \/ \E p \in Product : Create(p) \/ Fill(p) \/ WriteFails(p)
  \/ PrintDiag \/ EndPrint
  \/ Edit \/ Kill

Spec == Init /\ [][Next]_vars
-----------------------------------------------------------------------------
\* Every variable holds a value of its Rust type.
TypeOK ==
  /\ disk \in [Source \cup {Copy} -> Content]
  /\ edits \in 0 .. MaxEdits
  /\ out \in [Dir -> [Product -> File]]
  /\ run \in 0 .. MaxRuns
  /\ tmpdir \in BOOLEAN /\ print_ir \in BOOLEAN /\ poisoned \in BOOLEAN
  /\ DOMAIN vfs.cache \subseteq Source /\ \A f \in DOMAIN vfs.cache : vfs.cache[f] \in Content
  /\ DOMAIN vfs.overlays \subseteq {"main"} /\ \A f \in DOMAIN vfs.overlays : vfs.overlays[f] \in Text
  /\ seen \subseteq Source \X Content
  /\ diags \subseteq Diag /\ left \subseteq diags

\* However the files change while it runs, a run works on one version of each:
\* all its reads of a file, by clang and when the diagnostics are printed,
\* return the same, a missing file staying missing (vfs.rs:44-53).
OneTextPerRun == \A s, t \in seen : s[1] = t[1] => s[2] = t[2]

\* With --tmpdir, nothing is ever read from the main file on disk: the copy
\* taken at the start is what is translated (vfs.rs:78-85).
TheCopyIsTranslated ==
  tmpdir /\ seen # {} => /\ "main" \in DOMAIN vfs.overlays
                         /\ TextsOf("main") = {vfs.overlays["main"]}

\* Printing the diagnostics does not run into a position its file lacks,
\* although the file may have been cut short or removed meanwhile (diag.rs:120).
PositionsAreValid == status # "invalid position"

\* A run that ends normally leaves its three products, each written by it and
\* each whole (main.rs:133-143).
SuccessMeansProducts ==
  status = "ok" => \A p \in Product : out[OutDir][p].run = run /\ out[OutDir][p].whole

\* Whatever runs were cut short, the products of a directory are never newer
\* than the module beside them: fst first, diagnostics last (main.rs:133-143).
ModuleIsNewest ==
  \A d \in Dir : /\ out[d]["fst"].run >= out[d]["range"].run
                 /\ out[d]["range"].run >= out[d]["diagnostics"].run

\* A module and diagnostics of one run agree: the module ends in assert False
\* iff an error is listed, in whichever file it was found (main.rs:42-71, 123).
ProductsAgree ==
  \A d \in Dir :
    LET fst == out[d]["fst"]  ds == out[d]["diagnostics"]
    IN fst.whole /\ ds.whole /\ fst.run = ds.run => (fst.poisoned <=> has_errors(ds.diags))

\* A whole module translated from a source with a fault of one of these kinds
\* makes F* fail: it ends in `assert False`.
FailsOn(faults) ==
  \A d \in Dir : LET fst == out[d]["fst"]
                 IN fst.whole /\ fst.faults \cap faults # {} => fst.poisoned

\* Every fault that a stage reports poisons the module, however late the stage
\* (main.rs:121-126: emit reports too).  Which faults of an annotation are not
\* reported is in module Annotated.
ReportedFaultsPoison == FailsOn(Fault \ {"warning", "refine"})
=============================================================================
