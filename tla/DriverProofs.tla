---------------------------- MODULE DriverProofs ----------------------------
(***************************************************************************)
(* Proofs about the command, for every set of texts, any number of runs    *)
(* and edits, wherever a run is cut short.                                 *)
(***************************************************************************)
EXTENDS Driver, TLAPS

-----------------------------------------------------------------------------
\* What a file system has settled the content of, and what it has settled on
Known(fs) == DOMAIN fs.overlays \cup DOMAIN fs.cache
Held(fs, f) == IF f \in DOMAIN fs.overlays THEN fs.overlays[f] ELSE fs.cache[f]

FileSystem(fs) ==
  /\ fs = [cache |-> fs.cache, overlays |-> fs.overlays]
  /\ DOMAIN fs.cache \subseteq Source /\ \A f \in DOMAIN fs.cache : fs.cache[f] \in Content
  /\ DOMAIN fs.overlays \subseteq {"main"} /\ \A f \in DOMAIN fs.overlays : fs.overlays[f] \in Text

\* A file system that has settled no less, and nothing differently
Settles(fs, more) ==
  /\ more.overlays = fs.overlays
  /\ \A f \in Known(fs) : f \in Known(more) /\ Held(more, f) = Held(fs, f)

\* The steps of a run, in order
Opening == {"overlay", "open"}
Translating == {"parse", "stat header", "open header", "front end", "passes", "emit"}
WritingFst == {"create fst", "fill fst"}
WritingRange == {"create range", "fill range"}
WritingDiagnostics == {"create diagnostics", "fill diagnostics"}
Stages == {"idle", "print"} \cup Opening \cup Translating
            \cup WritingFst \cup WritingRange \cup WritingDiagnostics
FstIsWritten == pc \in {"print"} \cup WritingRange \cup WritingDiagnostics
RangeIsWritten == pc \in {"print"} \cup WritingDiagnostics
EmitIsDone == pc \in {"print"} \cup WritingFst \cup WritingRange \cup WritingDiagnostics

\* What holds of the step a run is at
Flow ==
  /\ pc \in Stages
  /\ status # "none" => pc = "idle"
  /\ pc \notin {"print", "idle"} => left = {}

\* A read returns what the file system has settled on, and goes on returning it.
ReadsAreHeld == \A s \in seen : s[1] \in Known(vfs) /\ s[2] = Held(vfs, s[1])

\* The overlay is there before the first read, and main is the first to be read.
OverlayComesFirst ==
  /\ pc \in Opening => seen = {}
  /\ seen # {} => \E s \in seen : s[1] = "main"
  /\ tmpdir /\ (seen # {} \/ pc \in {"open"}) => "main" \in DOMAIN vfs.overlays
  /\ pc \in Translating => \E s \in seen : s[1] = "main"

\* A diagnostic points into a text its file was read as.
PositionsAreSeen == \A d \in diags : \E s \in seen : s[1] = d.file /\ d.line <= Lines(s[2])

\* What a run has written so far
Written ==
  /\ \A d \in Dir, p \in Product : out[d][p].run <= run
  /\ FstIsWritten \/ status = "ok" =>
       out[OutDir]["fst"].run = run /\ out[OutDir]["fst"].whole
  /\ RangeIsWritten \/ status = "ok" =>
       out[OutDir]["range"].run = run /\ out[OutDir]["range"].whole
  /\ pc = "print" \/ status = "ok" =>
       out[OutDir]["diagnostics"].run = run /\ out[OutDir]["diagnostics"].whole
  /\ pc = "fill fst" => out[OutDir]["fst"].run = run
  /\ pc = "fill range" => out[OutDir]["range"].run = run
  /\ pc = "fill diagnostics" => out[OutDir]["diagnostics"].run = run

\* What is reported by a stage stays reported, and emit's last look at the
\* diagnostics decides whether the module is poisoned.
Reported(faults) ==
  (\E s \in seen : s[2] # Unreadable /\ s[2].faults \cap faults # {}) => has_errors(diags)
Poisoning ==
  /\ pc \in {"passes", "emit"} => Reported({"clang", "snippet"})
  /\ pc = "emit" => Reported({"name", "contracts"})
  /\ pc \in WritingFst => Reported(Fault \ {"warning", "refine"})
  /\ EmitIsDone => poisoned = has_errors(diags)
  /\ FstIsWritten => out[OutDir]["fst"].poisoned = poisoned
  /\ pc # "idle" /\ pc # "print" /\ pc # "fill diagnostics" =>
       \A d \in Dir : out[d]["diagnostics"].run < run
-----------------------------------------------------------------------------
\* Reading settles the content of the file that is read, and of no other.
LEMMA ReadingSettles ==
  ASSUME FileSystem(vfs), disk \in [Source \cup {Copy} -> Content], NEW f \in Source,
         NEW fs, fs = FS!read_vfs_file(vfs, disk, f).fs
  PROVE  /\ FileSystem(fs) /\ Settles(vfs, fs)
         /\ f \in Known(fs) /\ ReadFile(f) = Held(fs, f) /\ ReadFile(f) \in Content
         /\ f \in Known(vfs) => ReadFile(f) = Held(vfs, f)
<1> USE TextAssumption DEF Content, Source
<1>1. CASE f \in DOMAIN vfs.overlays
  <2>1. fs = vfs /\ ReadFile(f) = vfs.overlays[f]
    BY <1>1 DEF FS!read_vfs_file, ReadFile
  <2> QED  BY <1>1, <2>1 DEF FileSystem, Settles, Known, Held
<1>2. CASE f \notin DOMAIN vfs.overlays /\ f \in DOMAIN vfs.cache
  <2>1. fs = vfs /\ ReadFile(f) = vfs.cache[f]
    BY <1>2 DEF FS!read_vfs_file, FS!ReadReal, ReadFile
  <2> QED  BY <1>2, <2>1 DEF FileSystem, Settles, Known, Held
<1>3. CASE f \notin DOMAIN vfs.overlays /\ f \notin DOMAIN vfs.cache
  <2> DEFINE cache == [g \in DOMAIN vfs.cache \cup {f} |-> IF g = f THEN disk[f] ELSE vfs.cache[g]]
  <2>1. ReadFile(f) = disk[f] /\ disk[f] \in Content
    BY <1>3 DEF FS!read_vfs_file, FS!ReadReal, ReadFile
  <2>2. fs = [vfs EXCEPT !.cache = cache]
    BY <1>3 DEF FS!read_vfs_file, FS!ReadReal, FS!Insert
  <2>3. fs = [cache |-> cache, overlays |-> vfs.overlays]
    BY <2>2 DEF FileSystem
  <2>4. fs.cache = cache /\ fs.overlays = vfs.overlays
    BY <2>3
  <2>5. DOMAIN cache = DOMAIN vfs.cache \cup {f}
        /\ \A g \in DOMAIN cache : cache[g] = IF g = f THEN disk[f] ELSE vfs.cache[g]
    OBVIOUS
  <2> HIDE DEF cache
  <2>6. FileSystem(fs)
    BY <2>1, <2>3, <2>4, <2>5 DEF FileSystem
  <2>7. Settles(vfs, fs)
    BY <1>3, <2>4, <2>5 DEF Settles, Known, Held
  <2>8. f \in Known(fs) /\ Held(fs, f) = disk[f] /\ f \notin Known(vfs)
    BY <1>3, <2>4, <2>5 DEF Known, Held
  <2> QED  BY <2>1, <2>6, <2>7, <2>8 DEF Content
<1> QED  BY <1>1, <1>2, <1>3

\* So a read that is a step of a run keeps what earlier ones returned.
LEMMA ReadingAgrees ==
  ASSUME TypeOK, FileSystem(vfs), NEW f \in Source, Reading(f)
  PROVE  /\ FileSystem(vfs)' /\ Settles(vfs, vfs')
         /\ ReadFile(f) \in Content
         /\ seen' = seen \cup {<<f, ReadFile(f)>>}
         /\ ReadsAreHeld => ReadsAreHeld'
         /\ ReadsAreHeld => \A s \in seen : s[1] = f => s[2] = ReadFile(f)
<1>1. disk \in [Source \cup {Copy} -> Content]
  BY DEF TypeOK
<1>2. vfs' = FS!read_vfs_file(vfs, disk, f).fs /\ seen' = seen \cup {<<f, ReadFile(f)>>}
  BY DEF Reading
<1>3. /\ FileSystem(vfs') /\ Settles(vfs, vfs')
      /\ f \in Known(vfs') /\ ReadFile(f) = Held(vfs', f) /\ ReadFile(f) \in Content
      /\ f \in Known(vfs) => ReadFile(f) = Held(vfs, f)
  BY <1>1, <1>2, ReadingSettles
<1> HIDE DEF TypeOK, FileSystem, ReadFile, Known, Held, Reading
<1>4. FileSystem(vfs)'
  BY <1>3 DEF FileSystem
<1>5. ReadsAreHeld => ReadsAreHeld'
  <2> SUFFICES ASSUME ReadsAreHeld, NEW s \in seen'
               PROVE  s[1] \in Known(vfs') /\ s[2] = Held(vfs', s[1])
    BY DEF ReadsAreHeld, Known, Held
  <2>1. CASE s \in seen
    BY <2>1, <1>3 DEF ReadsAreHeld, Settles
  <2>2. CASE s = <<f, ReadFile(f)>>
    BY <2>2, <1>3
  <2> QED  BY <1>2, <2>1, <2>2
<1>6. ReadsAreHeld => \A s \in seen : s[1] = f => s[2] = ReadFile(f)
  BY <1>3 DEF ReadsAreHeld
<1> QED  BY <1>2, <1>3, <1>4, <1>5, <1>6

\* An overlay is entered into a file system that is then one still.
LEMMA OverlayingIsAFileSystem ==
  ASSUME FileSystem(vfs), NEW t \in Text, NEW fs, fs = FS!add_overlay(vfs, "main", t)
  PROVE  FileSystem(fs) /\ fs.overlays["main"] = t /\ "main" \in DOMAIN fs.overlays
<1> DEFINE overlays == [g \in DOMAIN vfs.overlays \cup {"main"} |->
                          IF g = "main" THEN t ELSE vfs.overlays[g]]
<1>1. fs = [vfs EXCEPT !.overlays = overlays]
  BY DEF FS!add_overlay, FS!Insert
<1>2. fs = [cache |-> vfs.cache, overlays |-> overlays]
  BY <1>1 DEF FileSystem
<1>3. DOMAIN overlays = DOMAIN vfs.overlays \cup {"main"}
      /\ \A g \in DOMAIN overlays : overlays[g] = IF g = "main" THEN t ELSE vfs.overlays[g]
  OBVIOUS
<1> HIDE DEF overlays
<1>4. fs.cache = vfs.cache /\ fs.overlays = overlays
  BY <1>2
<1> QED  BY <1>2, <1>3, <1>4 DEF FileSystem

\* A new file system has settled nothing.
LEMMA NewFileSystem == FileSystem(FS!New) /\ DOMAIN FS!New.overlays = {}
BY DEF FileSystem, FS!New, FS!NoFiles

\* The counters are numbers, and another edit is counted within the bound.
LEMMA CountersAreNumbers ==
  ASSUME TypeOK
  PROVE  run \in Nat /\ (edits < MaxEdits => edits + 1 \in 0 .. MaxEdits)
BY BoundsAssumption DEF TypeOK

\* Reports are diagnostics.
LEMMA ReportsAreDiags ==
  ASSUME TypeOK, NEW fault \in Fault, NEW stage \in Fault \cup {"elab"}
  PROVE  Report(fault, stage) \subseteq Diag
<1> SUFFICES ASSUME NEW s \in seen, s[2] # Unreadable
             PROVE  [file |-> s[1], line |-> s[2].lines, error |-> fault # "warning",
                     stage |-> stage] \in Diag
  BY DEF Report
<1>1. s[1] \in Source /\ s[2] \in Text
  BY DEF TypeOK, Content
<1>2. s[2].lines \in Nat
  BY <1>1, TextAssumption
<1> QED  BY <1>1, <1>2 DEF Diag
-----------------------------------------------------------------------------
Base == TypeOK /\ FileSystem(vfs) /\ Flow

\* Which step creates and fills which product, and which comes next
LEMMA StepsOfProducts ==
  /\ Creating["fst"] = "create fst" /\ Filling["fst"] = "fill fst"
  /\ Creating["range"] = "create range" /\ Filling["range"] = "fill range"
  /\ Creating["diagnostics"] = "create diagnostics"
  /\ Filling["diagnostics"] = "fill diagnostics"
  /\ After("fst") = "create range" /\ After("range") = "create diagnostics"
  /\ After("diagnostics") = "print"
BY DEF Creating, Filling, After

\* What a product says is what a product may say.
LEMMA ContentsAreAFile ==
  ASSUME TypeOK, NEW p \in Product
  PROVE  Contents(p) \in File
<1>1. \A t \in TextsRead : t.faults \subseteq Fault
  <2>1. TextsRead \subseteq Text
    BY DEF TextsRead, TextsOf, TypeOK, Content
  <2> QED  BY <2>1, TextAssumption
<1>2. UNION {t.faults : t \in TextsRead} \in SUBSET Fault
  BY <1>1
<1>3. serialize_diags(diags) \subseteq Diag
  <2> SUFFICES ASSUME NEW d \in Diag
               PROVE  (IF d.file = "main" THEN d
                       ELSE [d EXCEPT !.file = "main", !.line = 0]) \in Diag
    BY DEF serialize_diags, TypeOK
  <2> QED  BY DEF Diag, Source
<1>4. run \in Nat /\ (p = "fst" /\ poisoned) \in BOOLEAN
  BY BoundsAssumption DEF TypeOK
<1> QED  BY <1>2, <1>3, <1>4 DEF Contents, File

LEMMA BaseInit == Init => Base
<1> SUFFICES ASSUME Init PROVE Base
  OBVIOUS
<1>1. NoFile \in File
  BY DEF NoFile, File
<1>2. FileSystem(vfs)
  BY NewFileSystem DEF Init
<1>3. out \in [Dir -> [Product -> File]] /\ edits \in 0 .. MaxEdits /\ run \in 0 .. MaxRuns
  BY <1>1, BoundsAssumption DEF Init
<1>4. diags \subseteq Diag /\ left \subseteq diags /\ seen \subseteq Source \X Content
  BY DEF Init
<1>5. TypeOK
  BY <1>2, <1>3, <1>4 DEF Init, TypeOK, FileSystem
<1> QED  BY <1>2, <1>5 DEF Base, Flow, Init, Stages

\* A read keeps the types.
LEMMA ReadingKeepsTypes ==
  ASSUME Base, NEW f \in Source, Reading(f), UNCHANGED <<world, cli, out, diags, poisoned>>,
         left' \subseteq left
  PROVE  TypeOK' /\ FileSystem(vfs)'
<1>1. FileSystem(vfs)' /\ ReadFile(f) \in Content /\ seen' = seen \cup {<<f, ReadFile(f)>>}
  BY ReadingAgrees DEF Base
<1>2. seen' \subseteq Source \X Content
  BY <1>1 DEF Base, TypeOK
<1> QED  BY <1>1, <1>2 DEF Base, TypeOK, FileSystem, world, cli

\* A step that leaves the file system and the reads alone
LEMMA FilesAreKept ==
  ASSUME FileSystem(vfs), UNCHANGED vfs
  PROVE  FileSystem(vfs)'
BY DEF FileSystem

LEMMA BaseStep == Base /\ [Next]_vars => Base'
<1> SUFFICES ASSUME Base, [Next]_vars PROVE Base'
  OBVIOUS
<1> USE DEF Base, Flow, Stages, Opening, Translating, WritingFst, WritingRange,
            WritingDiagnostics, world, cli
<1>1. CASE Start
  <2>1. FileSystem(vfs)' /\ run' \in 0 .. MaxRuns
    BY <1>1, NewFileSystem, BoundsAssumption DEF Start, FileSystem, TypeOK
  <2> QED  BY <1>1, <2>1 DEF Start, TypeOK, FileSystem
<1>2. CASE AddOverlay
  <2>1. FileSystem(vfs)'
    <3>1. CASE disk[Copy] = Unreadable
      BY <1>2, <3>1, FilesAreKept DEF AddOverlay
    <3>2. CASE disk[Copy] # Unreadable
      <4>1. disk[Copy] \in Text
        BY <3>2 DEF TypeOK, Content
      <4> QED  BY <1>2, <3>2, <4>1, OverlayingIsAFileSystem DEF AddOverlay, FileSystem
    <3> QED  BY <3>1, <3>2
  <2> QED  BY <1>2, <2>1 DEF AddOverlay, Exit, TypeOK, FileSystem
<1>3. CASE OpenMain
  <2>1. TypeOK' /\ FileSystem(vfs)'
    BY <1>3, ReadingKeepsTypes DEF OpenMain, Source
  <2> QED  BY <1>3, <2>1 DEF OpenMain, Exit
<1>4. CASE ParseMain
  <2>1. TypeOK' /\ FileSystem(vfs)'
    BY <1>4, ReadingKeepsTypes DEF ParseMain, Source
  <2> QED  BY <1>4, <2>1 DEF ParseMain
<1>5. CASE StatHeader
  <2>1. TypeOK' /\ FileSystem(vfs)'
    BY <1>5, ReadingKeepsTypes DEF StatHeader, Source
  <2> QED  BY <1>5, <2>1 DEF StatHeader
<1>6. CASE OpenHeader
  <2>1. TypeOK' /\ FileSystem(vfs)'
    BY <1>6, ReadingKeepsTypes DEF OpenHeader, Source
  <2> QED  BY <1>6, <2>1 DEF OpenHeader
<1>7. CASE FrontEnd
  <2>1. diags' \subseteq Diag /\ left' = {}
    <3>1. MissingHeader \subseteq Diag
      <4>1. [file |-> "main", line |-> 1, error |-> TRUE, stage |-> "clang"] \in Diag
        BY DEF Diag, Source, Fault
      <4> QED  BY <4>1 DEF MissingHeader
    <3> QED  BY <1>7, <3>1, ReportsAreDiags DEF FrontEnd, Fault
  <2> QED  BY <1>7, <2>1, FilesAreKept DEF FrontEnd, TypeOK
<1>8. CASE Passes
  <2>1. diags' \subseteq Diag /\ diags \subseteq diags'
    BY <1>8, ReportsAreDiags DEF Passes, Fault, TypeOK
  <2> QED  BY <1>8, <2>1, FilesAreKept DEF Passes, Exit, TypeOK
<1>9. CASE Emit
  <2>1. diags' \subseteq Diag /\ diags \subseteq diags'
    BY <1>9, ReportsAreDiags DEF Emit, Fault, TypeOK
  <2> QED  BY <1>9, <2>1, FilesAreKept DEF Emit, has_errors, TypeOK
<1>10. ASSUME NEW p \in Product, Create(p) PROVE Base'
  <2>1. [NoFile EXCEPT !.run = run] \in File
    <3>1. NoFile \in File
      BY DEF NoFile, File
    <3>2. run \in Nat
      BY CountersAreNumbers
    <3> QED  BY <3>1, <3>2 DEF File
  <2>2. out' \in [Dir -> [Product -> File]]
    BY <1>10, <2>1 DEF Create, TypeOK, OutDir, Dir
  <2>3. TypeOK' /\ FileSystem(vfs)'
    BY <1>10, <2>2, FilesAreKept DEF Create, TypeOK
  <2> QED  BY <1>10, <2>3, StepsOfProducts DEF Create, Product
<1>11. ASSUME NEW p \in Product, Fill(p) PROVE Base'
  <2>1. out' \in [Dir -> [Product -> File]]
    BY <1>11, ContentsAreAFile DEF Fill, TypeOK, OutDir, Dir
  <2>2. left' \subseteq diags
    BY <1>11 DEF Fill
  <2>3. pc' \in Stages /\ pc' # "idle" /\ (pc' # "print" => left' = {})
    BY <1>11, StepsOfProducts DEF Fill, Product
  <2>4. status' = "none"
    BY <1>11, StepsOfProducts DEF Fill, Product
  <2> QED  BY <1>11, <2>1, <2>2, <2>3, <2>4, FilesAreKept DEF Fill, TypeOK
<1>12. ASSUME NEW p \in Product, WriteFails(p) PROVE Base'
  BY <1>12, FilesAreKept DEF WriteFails, Exit, TypeOK
<1>13. CASE PrintDiag
  <2>1. PICK d \in left : Reading(d.file)
          /\ IF d.line <= Lines(ReadFile(d.file))
             THEN left' = left \ {d} /\ UNCHANGED <<pc, status>>
             ELSE Exit("invalid position") /\ UNCHANGED left
    BY <1>13 DEF PrintDiag
  <2>2. d.file \in Source
    BY DEF TypeOK, Diag
  <2>3. left' \subseteq left
    BY <2>1
  <2>4. TypeOK' /\ FileSystem(vfs)'
    BY <1>13, <2>1, <2>2, <2>3, ReadingKeepsTypes DEF PrintDiag
  <2> QED  BY <1>13, <2>1, <2>4 DEF PrintDiag, Exit
<1>14. CASE EndPrint
  BY <1>14, FilesAreKept DEF EndPrint, Exit, TypeOK
<1>15. CASE Edit
  <2>1. disk' \in [Source \cup {Copy} -> Content]
    <3>1. PICK f \in DOMAIN disk, t \in Content : disk' = [disk EXCEPT ![f] = t]
      BY <1>15 DEF Edit
    <3> QED  BY <3>1 DEF TypeOK
  <2>2. edits' \in 0 .. MaxEdits
    BY <1>15, CountersAreNumbers DEF Edit
  <2> QED  BY <1>15, <2>1, <2>2, FilesAreKept DEF Edit, TypeOK
<1>16. CASE Kill
  BY <1>16, FilesAreKept DEF Kill, Exit, TypeOK
<1>17. CASE UNCHANGED vars
  BY <1>17, FilesAreKept DEF vars, TypeOK
<1> QED
  BY <1>1, <1>2, <1>3, <1>4, <1>5, <1>6, <1>7, <1>8, <1>9, <1>10, <1>11, <1>12,
     <1>13, <1>14, <1>15, <1>16, <1>17 DEF Next
-----------------------------------------------------------------------------
\* One version of each file, that of the overlay if there is one, and
\* diagnostics that point into it
ReadsInv == Base /\ ReadsAreHeld /\ OverlayComesFirst /\ PositionsAreSeen

\* A read during a run, with what is reported unchanged
LEMMA ReadingKeepsReadsInv ==
  ASSUME ReadsInv, Base', NEW f \in Source, Reading(f), diags' = diags, tmpdir' = tmpdir,
         pc \notin {"idle", "overlay"}, pc' \notin {"overlay", "open"},
         (pc = "open" /\ f = "main") \/ \E s \in seen : s[1] = "main"
  PROVE  ReadsInv'
<1>1. ReadsAreHeld' /\ seen' = seen \cup {<<f, ReadFile(f)>>} /\ vfs'.overlays = vfs.overlays
  BY ReadingAgrees DEF ReadsInv, Base, Settles
<1>2. \E s \in seen' : s[1] = "main"
  <2>1. <<f, ReadFile(f)>>[1] = f /\ <<f, ReadFile(f)>> \in seen'
    BY <1>1
  <2>2. seen \subseteq seen'
    BY <1>1
  <2> QED  BY <2>1, <2>2
<1>3. tmpdir => "main" \in DOMAIN vfs.overlays
  BY DEF ReadsInv, OverlayComesFirst
<1>4. OverlayComesFirst'
  BY <1>1, <1>2, <1>3 DEF OverlayComesFirst, Opening
<1>5. PositionsAreSeen'
  BY <1>1 DEF ReadsInv, PositionsAreSeen, Lines
<1> QED  BY <1>1, <1>4, <1>5 DEF ReadsInv

\* A step that reads nothing and reports nothing
LEMMA QuietStepKeepsReadsInv ==
  ASSUME ReadsInv, Base', UNCHANGED <<vfs, seen, tmpdir, diags>>,
         pc' \notin {"overlay", "open"} \/ pc' = pc,
         pc' \in Translating => pc \in Translating
  PROVE  ReadsInv'
BY DEF ReadsInv, ReadsAreHeld, Known, Held, OverlayComesFirst, PositionsAreSeen, Lines, Opening

\* A diagnostic of a fault points at the last line of a text that was read.
LEMMA ReportsPointIntoTheText ==
  ASSUME TypeOK, NEW fault, NEW stage, NEW d \in Report(fault, stage)
  PROVE  \E s \in seen : s[1] = d.file /\ d.line <= Lines(s[2])
<1>1. PICK s \in seen : /\ s[2] # Unreadable
                        /\ d = [file |-> s[1], line |-> s[2].lines,
                                error |-> fault # "warning", stage |-> stage]
  BY DEF Report
<1>2. s[2] \in Text
  BY <1>1 DEF TypeOK, Content
<1>3. s[2].lines \in Nat
  BY <1>2, TextAssumption
<1>4. d.file = s[1] /\ d.line = s[2].lines /\ Lines(s[2]) = s[2].lines
  BY <1>1 DEF Lines
<1> QED  BY <1>1, <1>3, <1>4

LEMMA LinesAreNumbers ==
  ASSUME NEW t \in Content
  PROVE  Lines(t) \in Nat /\ 1 <= Lines(t)
BY TextAssumption DEF Content, Lines

LEMMA MissingHeaderPointsIntoMain ==
  ASSUME TypeOK, NEW s \in seen, s[1] = "main", NEW d \in MissingHeader
  PROVE  s[1] = d.file /\ d.line <= Lines(s[2])
<1>1. d = [file |-> "main", line |-> 1, error |-> TRUE, stage |-> "clang"]
  BY DEF MissingHeader
<1>2. s[2] \in Content
  BY DEF TypeOK
<1>3. d.file = "main" /\ d.line = 1
  BY <1>1
<1> QED  BY <1>2, <1>3, LinesAreNumbers

LEMMA ReadsInvInit == Init => ReadsInv
BY BaseInit DEF Init, ReadsInv, ReadsAreHeld, OverlayComesFirst, PositionsAreSeen, Opening, Translating

LEMMA ReadsInvStep == ReadsInv /\ [Next]_vars => ReadsInv'
<1> SUFFICES ASSUME ReadsInv, [Next]_vars PROVE ReadsInv'
  OBVIOUS
<1>a. Base' /\ TypeOK
  BY BaseStep DEF ReadsInv, Base
<1> USE <1>a DEF Opening, Translating, world, cli
<1>1. CASE Start
  <2>1. DOMAIN vfs'.overlays = {} /\ seen' = {} /\ diags' = {}
    BY <1>1, NewFileSystem DEF Start
  <2> QED
    BY <1>1, <2>1 DEF Start, ReadsInv, ReadsAreHeld, OverlayComesFirst, PositionsAreSeen
<1>2. CASE AddOverlay
  <2>1. seen' = {} /\ UNCHANGED <<diags, seen, tmpdir>>
    BY <1>2 DEF AddOverlay, ReadsInv, OverlayComesFirst
  <2>2. diags' = {}
    BY <2>1 DEF ReadsInv, PositionsAreSeen
  <2>3. CASE disk[Copy] = Unreadable
    BY <1>2, <2>1, <2>2, <2>3
       DEF AddOverlay, Exit, ReadsInv, ReadsAreHeld, OverlayComesFirst, PositionsAreSeen
  <2>4. CASE disk[Copy] # Unreadable
    <3>1. disk[Copy] \in Text
      BY <2>4 DEF TypeOK, Content
    <3>2. "main" \in DOMAIN vfs'.overlays
      BY <1>2, <2>4, <3>1, OverlayingIsAFileSystem DEF AddOverlay, ReadsInv, Base
    <3> QED
      BY <1>2, <2>1, <2>2, <2>4, <3>2
         DEF AddOverlay, ReadsInv, ReadsAreHeld, OverlayComesFirst, PositionsAreSeen
  <2> QED  BY <2>3, <2>4
<1>3. CASE OpenMain
  BY <1>3, ReadingKeepsReadsInv DEF OpenMain, Exit, Source
<1>4. CASE ParseMain
  BY <1>4, ReadingKeepsReadsInv DEF ParseMain, Source, ReadsInv, OverlayComesFirst
<1>5. CASE StatHeader
  BY <1>5, ReadingKeepsReadsInv DEF StatHeader, Source, ReadsInv, OverlayComesFirst
<1>6. CASE OpenHeader
  BY <1>6, ReadingKeepsReadsInv DEF OpenHeader, Source, ReadsInv, OverlayComesFirst
<1>7. CASE FrontEnd
  <2>1. PICK m \in seen : m[1] = "main"
    BY <1>7 DEF FrontEnd, ReadsInv, OverlayComesFirst
  <2>2. \A d \in diags' : \E s \in seen : s[1] = d.file /\ d.line <= Lines(s[2])
    BY <1>7, <2>1, ReportsPointIntoTheText, MissingHeaderPointsIntoMain DEF FrontEnd
  <2> QED
    BY <1>7, <2>2 DEF FrontEnd, ReadsInv, ReadsAreHeld, Known, Held, OverlayComesFirst,
                      PositionsAreSeen, Lines
<1>8. CASE Passes
  <2>1. \A d \in diags' : \E s \in seen : s[1] = d.file /\ d.line <= Lines(s[2])
    BY <1>8, ReportsPointIntoTheText DEF Passes, ReadsInv, PositionsAreSeen
  <2> QED
    BY <1>8, <2>1 DEF Passes, Exit, ReadsInv, ReadsAreHeld, Known, Held, OverlayComesFirst,
                      PositionsAreSeen, Lines
<1>9. CASE Emit
  <2>1. \A d \in diags' : \E s \in seen : s[1] = d.file /\ d.line <= Lines(s[2])
    BY <1>9, ReportsPointIntoTheText DEF Emit, ReadsInv, PositionsAreSeen
  <2> QED
    BY <1>9, <2>1 DEF Emit, ReadsInv, ReadsAreHeld, Known, Held, OverlayComesFirst,
                      PositionsAreSeen, Lines
<1>10. ASSUME NEW p \in Product, Create(p) \/ Fill(p) \/ WriteFails(p) PROVE ReadsInv'
  <2>1. pc' \notin {"overlay", "open"} \cup Translating
    BY <1>10, StepsOfProducts DEF Create, Fill, WriteFails, Exit, Product
  <2> QED  BY <1>10, <2>1, QuietStepKeepsReadsInv DEF Create, Fill, WriteFails
<1>11. CASE PrintDiag
  <2>1. PICK d \in left : Reading(d.file) /\ (pc' = pc \/ pc' = "idle")
    BY <1>11 DEF PrintDiag, Exit
  <2>2. d.file \in Source /\ \E s \in seen : s[1] = "main"
    BY DEF TypeOK, Diag, ReadsInv, OverlayComesFirst, PositionsAreSeen
  <2> QED  BY <1>11, <2>1, <2>2, ReadingKeepsReadsInv DEF PrintDiag
<1>12. CASE EndPrint
  BY <1>12, QuietStepKeepsReadsInv DEF EndPrint, Exit
<1>13. CASE Edit
  BY <1>13, QuietStepKeepsReadsInv DEF Edit
<1>14. CASE Kill
  BY <1>14, QuietStepKeepsReadsInv DEF Kill, Exit
<1>15. CASE UNCHANGED vars
  BY <1>15, QuietStepKeepsReadsInv DEF vars
<1> QED
  BY <1>1, <1>2, <1>3, <1>4, <1>5, <1>6, <1>7, <1>8, <1>9, <1>10, <1>11, <1>12,
     <1>13, <1>14, <1>15 DEF Next
-----------------------------------------------------------------------------
\* The products of the last run, in the order they are written
WrittenInv == Base /\ Written /\ ModuleIsNewest

LEMMA WrittenInit == Init => WrittenInv
BY BaseInit, CountersAreNumbers
   DEF Init, WrittenInv, Base, Written, ModuleIsNewest, NoFile, FstIsWritten, RangeIsWritten,
       WritingRange, WritingDiagnostics, Product

\* A step that writes nothing keeps what was written, if it goes no further.
LEMMA QuietStepKeepsWritten ==
  ASSUME WrittenInv, Base', UNCHANGED <<out, run, tmpdir>>,
         pc' = pc \/ pc' \in {"idle"} \cup Opening \cup Translating \cup {"create fst"},
         status' = status \/ status' # "ok" \/ pc = "print"
  PROVE  WrittenInv'
BY DEF WrittenInv, Written, ModuleIsNewest, FstIsWritten, RangeIsWritten, OutDir,
       WritingRange, WritingDiagnostics, Opening, Translating

LEMMA WrittenStep == WrittenInv /\ [Next]_vars => WrittenInv'
<1> SUFFICES ASSUME WrittenInv, [Next]_vars PROVE WrittenInv'
  OBVIOUS
<1>a. Base' /\ TypeOK /\ run \in Nat
  BY BaseStep, CountersAreNumbers DEF WrittenInv, Base
<1> USE <1>a DEF world, cli
<1>n. \A d \in Dir, p \in Product : out[d][p].run \in Nat
  BY DEF TypeOK, File
<1>1. CASE Start
  <2>1. \A d \in Dir, p \in Product : out'[d][p].run <= run'
    BY <1>1, <1>n DEF Start, WrittenInv, Written
  <2>2. pc' \in Opening /\ status' = "none"
    BY <1>1 DEF Start, Opening
  <2>3. ModuleIsNewest'
    BY <1>1 DEF Start, WrittenInv, ModuleIsNewest
  <2> QED
    BY <2>1, <2>2, <2>3 DEF WrittenInv, Written, FstIsWritten, RangeIsWritten, Opening,
                            WritingRange, WritingDiagnostics
<1>2. CASE AddOverlay
  BY <1>2, QuietStepKeepsWritten DEF AddOverlay, Exit, Opening
<1>3. CASE OpenMain
  BY <1>3, QuietStepKeepsWritten DEF OpenMain, Exit, Translating
<1>4. CASE ParseMain
  BY <1>4, QuietStepKeepsWritten DEF ParseMain, Translating
<1>5. CASE StatHeader
  BY <1>5, QuietStepKeepsWritten DEF StatHeader, Translating
<1>6. CASE OpenHeader
  BY <1>6, QuietStepKeepsWritten DEF OpenHeader, Translating
<1>7. CASE FrontEnd
  BY <1>7, QuietStepKeepsWritten DEF FrontEnd, Translating
<1>8. CASE Passes
  BY <1>8, QuietStepKeepsWritten DEF Passes, Exit, Translating
<1>9. CASE Emit
  BY <1>9, QuietStepKeepsWritten DEF Emit
<1>10. ASSUME NEW p \in Product, NEW file, file.run = run,
              out' = [out EXCEPT ![OutDir][p] = file],
              UNCHANGED <<run, tmpdir, status>>, status # "ok",
              p = "fst" => pc' \notin {"print"} \cup WritingDiagnostics \cup {"fill range"},
              p = "range" => FstIsWritten /\ pc' \notin {"print", "fill fst", "fill diagnostics"},
              p = "diagnostics" => FstIsWritten /\ RangeIsWritten
                                   /\ pc' \in {"print", "fill diagnostics"},
              pc' = Filling[p] \/ (pc' = After(p) /\ file.whole)
       PROVE  WrittenInv'
  <2>1. OutDir \in Dir /\ OutDir' = OutDir
    BY <1>10 DEF OutDir, Dir
  <2>2. out'[OutDir][p] = file
        /\ \A d \in Dir, q \in Product : d # OutDir \/ q # p => out'[d][q] = out[d][q]
    BY <1>10, <2>1 DEF TypeOK
  <2>3. \A d \in Dir, q \in Product : out'[d][q].run <= run
    <3> TAKE d \in Dir, q \in Product
    <3>1. CASE d = OutDir /\ q = p
      <4>1. out'[d][q].run = run
        BY <1>10, <2>2, <3>1
      <4> QED  BY <4>1
    <3>2. CASE ~(d = OutDir /\ q = p)
      <4>1. out'[d][q] = out[d][q]
        BY <2>2, <3>2
      <4> QED  BY <4>1 DEF WrittenInv, Written
    <3> QED  BY <3>1, <3>2
  <2>4. ModuleIsNewest'
    <3> SUFFICES ASSUME NEW d \in Dir
                 PROVE  /\ out'[d]["fst"].run >= out'[d]["range"].run
                        /\ out'[d]["range"].run >= out'[d]["diagnostics"].run
      BY DEF ModuleIsNewest
    <3>1. CASE d # OutDir
      BY <2>2, <3>1 DEF WrittenInv, ModuleIsNewest, Product
    <3>2. CASE d = OutDir
      <4>0. /\ out[d]["range"].run >= out[d]["diagnostics"].run
            /\ \A q \in Product : out[d][q].run <= run /\ out[d][q].run \in Nat
        BY <1>n, <3>2 DEF WrittenInv, Written, ModuleIsNewest
      <4>1. /\ out'[d][p].run = run
            /\ \A q \in Product : q # p => out'[d][q].run = out[d][q].run
        BY <1>10, <2>1, <2>2, <3>2
      <4>2. CASE p = "fst"
        <5>1. /\ out'[d]["fst"].run = run
              /\ out'[d]["range"].run = out[d]["range"].run
              /\ out'[d]["diagnostics"].run = out[d]["diagnostics"].run
          BY <4>1, <4>2 DEF Product
        <5> QED  BY <4>0, <5>1 DEF Product
      <4>3. CASE p = "range"
        <5>1. out[d]["fst"].run = run
          BY <1>10, <3>2, <4>3 DEF FstIsWritten, WrittenInv, Written
        <5>2. /\ out'[d]["fst"].run = run
              /\ out'[d]["range"].run = run
              /\ out'[d]["diagnostics"].run = out[d]["diagnostics"].run
          BY <4>1, <4>3, <5>1 DEF Product
        <5> QED  BY <4>0, <5>2 DEF Product
      <4>4. CASE p = "diagnostics"
        <5>1. out[d]["fst"].run = run /\ out[d]["range"].run = run
          BY <1>10, <3>2, <4>4 DEF FstIsWritten, RangeIsWritten, WrittenInv, Written
        <5>2. /\ out'[d]["fst"].run = run
              /\ out'[d]["range"].run = run
              /\ out'[d]["diagnostics"].run = run
          BY <4>1, <4>4, <5>1 DEF Product
        <5> QED  BY <5>2
      <4> QED  BY <4>2, <4>3, <4>4 DEF Product
    <3> QED  BY <3>1, <3>2
  <2>5. Written'
    <3>1. \A d \in Dir, q \in Product : out'[d][q].run <= run'
      BY <1>10, <2>3
    <3>2. OutDir' = OutDir /\ run' = run /\ status' = status /\ status # "ok"
      BY <1>10, <2>1
    <3>3. \A q \in Product : q # p => out'[OutDir][q] = out[OutDir][q]
      BY <2>1, <2>2
    <3>4. CASE p = "fst"
      BY <1>10, <2>2, <3>1, <3>2, <3>3, <3>4, StepsOfProducts
         DEF Written, FstIsWritten, RangeIsWritten, WritingRange, WritingDiagnostics, Product
    <3>5. CASE p = "range"
      <4>1. out'[OutDir]["fst"].run = run /\ out'[OutDir]["fst"].whole
        BY <1>10, <3>3, <3>5 DEF WrittenInv, Written, Product
      <4>2. out'[OutDir]["range"].run = run
            /\ (pc' = "fill range" \/ (pc' = "create diagnostics" /\ out'[OutDir]["range"].whole))
        BY <1>10, <2>2, <3>5, StepsOfProducts
      <4> QED
        BY <3>1, <3>2, <4>1, <4>2 DEF Written, RangeIsWritten, WritingDiagnostics
    <3>6. CASE p = "diagnostics"
      <4>1. /\ out'[OutDir]["fst"].run = run /\ out'[OutDir]["fst"].whole
            /\ out'[OutDir]["range"].run = run /\ out'[OutDir]["range"].whole
        BY <1>10, <3>3, <3>6 DEF WrittenInv, Written, Product
      <4>2. out'[OutDir]["diagnostics"].run = run
            /\ (pc' = "fill diagnostics" \/ (pc' = "print" /\ out'[OutDir]["diagnostics"].whole))
        BY <1>10, <2>2, <3>6, StepsOfProducts
      <4> QED
        BY <3>1, <3>2, <4>1, <4>2 DEF Written
    <3> QED  BY <3>4, <3>5, <3>6 DEF Product
  <2> QED  BY <2>4, <2>5 DEF WrittenInv
<1>11. ASSUME NEW p \in Product, Create(p) PROVE WrittenInv'
  <2> DEFINE file == [NoFile EXCEPT !.run = run]
  <2>1. file.run = run
    BY DEF NoFile
  <2>2. status # "ok" /\ pc = Creating[p] /\ pc' = Filling[p]
    BY <1>11, StepsOfProducts DEF Create, WrittenInv, Base, Flow, Product
  <2> HIDE DEF file
  <2>3. out' = [out EXCEPT ![OutDir][p] = file] /\ UNCHANGED <<run, tmpdir, status>>
    BY <1>11 DEF Create, file
  <2> QED
    BY <1>10, <2>1, <2>2, <2>3, StepsOfProducts
       DEF Product, FstIsWritten, RangeIsWritten, WritingRange, WritingDiagnostics
<1>12. ASSUME NEW p \in Product, Fill(p) PROVE WrittenInv'
  <2>1. Contents(p).run = run /\ Contents(p).whole
    BY DEF Contents
  <2>2. status # "ok" /\ pc = Filling[p] /\ pc' = After(p)
    BY <1>12, StepsOfProducts DEF Fill, WrittenInv, Base, Flow, Product
  <2>3. out' = [out EXCEPT ![OutDir][p] = Contents(p)] /\ UNCHANGED <<run, tmpdir, status>>
    BY <1>12 DEF Fill
  <2> QED
    BY <1>10, <2>1, <2>2, <2>3, StepsOfProducts
       DEF Product, FstIsWritten, RangeIsWritten, WritingRange, WritingDiagnostics
<1>13. ASSUME NEW p \in Product, WriteFails(p) PROVE WrittenInv'
  BY <1>13, QuietStepKeepsWritten DEF WriteFails, Exit
<1>14. CASE PrintDiag
  BY <1>14, QuietStepKeepsWritten DEF PrintDiag, Exit
<1>15. CASE EndPrint
  BY <1>15, QuietStepKeepsWritten DEF EndPrint, Exit
<1>16. CASE Edit
  BY <1>16, QuietStepKeepsWritten DEF Edit
<1>17. CASE Kill
  BY <1>17, QuietStepKeepsWritten DEF Kill, Exit
<1>18. CASE UNCHANGED vars
  BY <1>18, QuietStepKeepsWritten DEF vars
<1> QED
  BY <1>1, <1>2, <1>3, <1>4, <1>5, <1>6, <1>7, <1>8, <1>9, <1>11, <1>12, <1>13,
     <1>14, <1>15, <1>16, <1>17, <1>18 DEF Next
-----------------------------------------------------------------------------
\* What the products of a directory say of each other, and of the source
FaultsInv == WrittenInv /\ Poisoning /\ ProductsAgree /\ ReportedFaultsPoison

\* A report of a fault is an error, unless the fault is a warning.
LEMMA ReportsAreErrors ==
  ASSUME NEW fault, NEW stage, fault # "warning", NEW ds, Report(fault, stage) \subseteq ds,
         NEW s \in seen, s[2] # Unreadable, fault \in s[2].faults
  PROVE  has_errors(ds)
<1> DEFINE d == [file |-> s[1], line |-> s[2].lines, error |-> fault # "warning", stage |-> stage]
<1>1. d \in Report(fault, stage)
  BY DEF Report
<1>2. d.error
  OBVIOUS
<1> QED  BY <1>1, <1>2 DEF has_errors

\* Writing them down changes no diagnostic into an error, or an error.
LEMMA SerializedErrors ==
  ASSUME diags \subseteq Diag
  PROVE  has_errors(serialize_diags(diags)) <=> has_errors(diags)
<1> DEFINE moved(d) == IF d.file = "main" THEN d ELSE [d EXCEPT !.file = "main", !.line = 0]
<1>1. \A d \in diags : moved(d).error = d.error
  BY DEF Diag
<1>2. serialize_diags(diags) = {moved(d) : d \in diags}
  BY DEF serialize_diags
<1> HIDE DEF moved
<1> QED  BY <1>1, <1>2 DEF has_errors

LEMMA FaultsInit == Init => FaultsInv
BY WrittenInit DEF Init, FaultsInv, Poisoning, ProductsAgree, ReportedFaultsPoison, FailsOn,
   NoFile, EmitIsDone, FstIsWritten, WritingFst, WritingRange, WritingDiagnostics, Dir, Product

\* A step that writes nothing and is not one that reports
LEMMA QuietStepKeepsFaults ==
  ASSUME FaultsInv, WrittenInv', UNCHANGED <<out, run, tmpdir, diags, poisoned>>,
         pc' = pc \/ pc' = "idle" \/ (pc \in Opening \cup Translating
                                      /\ pc' \in {"open", "parse", "stat header", "open header",
                                                  "front end"}),
         seen' = seen \/ pc' \notin {"passes", "emit", "create fst", "fill fst"}
  PROVE  FaultsInv'
<1>1. ProductsAgree' /\ ReportedFaultsPoison'
  BY DEF FaultsInv, ProductsAgree, ReportedFaultsPoison, FailsOn
<1>2. Poisoning'
  BY DEF FaultsInv, Poisoning, Reported, EmitIsDone, FstIsWritten, OutDir, WritingFst,
         WritingRange, WritingDiagnostics, Opening, Translating
<1> QED  BY <1>1, <1>2 DEF FaultsInv

\* A step of translation that reports, and leaves the products alone
LEMMA ReportingKeepsProducts ==
  ASSUME FaultsInv, UNCHANGED <<out, run>>, pc \in Translating,
         pc' \in {"idle", "passes", "emit", "create fst"}
  PROVE  /\ ProductsAgree' /\ ReportedFaultsPoison'
         /\ \A d \in Dir : out'[d]["diagnostics"].run < run'
         /\ ~FstIsWritten'
BY DEF FaultsInv, Poisoning, ProductsAgree, ReportedFaultsPoison, FailsOn, Translating,
       FstIsWritten, WritingRange, WritingDiagnostics

LEMMA FaultsStep == FaultsInv /\ [Next]_vars => FaultsInv'
<1> SUFFICES ASSUME FaultsInv, [Next]_vars PROVE FaultsInv'
  OBVIOUS
<1>a. WrittenInv' /\ TypeOK /\ run \in Nat
  BY WrittenStep, CountersAreNumbers DEF FaultsInv, WrittenInv, Base
<1>b. pc # "idle" => status = "none"
  BY DEF FaultsInv, WrittenInv, Base, Flow
<1> USE <1>a DEF world, cli
<1>1. CASE Start
  <2>1. ProductsAgree' /\ ReportedFaultsPoison'
    BY <1>1 DEF Start, FaultsInv, ProductsAgree, ReportedFaultsPoison, FailsOn
  <2>2. pc' \in Opening
    BY <1>1 DEF Start, Opening
  <2>3. \A d \in Dir : out'[d]["diagnostics"].run < run'
    <3>1. \A d \in Dir : out[d]["diagnostics"].run \in Nat /\ out[d]["diagnostics"].run <= run
      BY DEF TypeOK, File, FaultsInv, WrittenInv, Written, Product
    <3> QED  BY <1>1, <3>1 DEF Start
  <2> QED
    BY <2>1, <2>2, <2>3 DEF FaultsInv, Poisoning, EmitIsDone, FstIsWritten, Opening,
                            WritingFst, WritingRange, WritingDiagnostics
<1>2. CASE AddOverlay
  BY <1>2, QuietStepKeepsFaults DEF AddOverlay, Exit, Opening
<1>3. CASE OpenMain
  BY <1>3, QuietStepKeepsFaults DEF OpenMain, Exit, Opening
<1>4. CASE ParseMain
  BY <1>4, QuietStepKeepsFaults DEF ParseMain, Translating
<1>5. CASE StatHeader
  BY <1>5, QuietStepKeepsFaults DEF StatHeader, Translating
<1>6. CASE OpenHeader
  BY <1>6, QuietStepKeepsFaults DEF OpenHeader, Translating
<1>7. CASE FrontEnd
  <2>1. /\ ProductsAgree' /\ ReportedFaultsPoison' /\ ~FstIsWritten'
        /\ \A d \in Dir : out'[d]["diagnostics"].run < run'
    BY <1>7, ReportingKeepsProducts DEF FrontEnd, Translating
  <2>2. Reported({"clang", "snippet"})'
    BY <1>7, ReportsAreErrors DEF FrontEnd, Reported
  <2> QED
    BY <1>7, <2>1, <2>2 DEF FrontEnd, FaultsInv, Poisoning, EmitIsDone, FstIsWritten,
                            WritingFst, WritingRange, WritingDiagnostics
<1>8. CASE Passes
  <2>1. /\ ProductsAgree' /\ ReportedFaultsPoison' /\ ~FstIsWritten'
        /\ \A d \in Dir : out'[d]["diagnostics"].run < run'
    BY <1>8, ReportingKeepsProducts DEF Passes, Exit, Translating
  <2>2. Reported({"clang", "snippet"})'
    BY <1>8 DEF Passes, Reported, FaultsInv, Poisoning, has_errors
  <2>3. Reported({"name", "contracts"})'
    BY <1>8, ReportsAreErrors DEF Passes, Reported
  <2> QED
    BY <1>8, <2>1, <2>2, <2>3 DEF Passes, Exit, FaultsInv, Poisoning, EmitIsDone,
       FstIsWritten, WritingFst, WritingRange, WritingDiagnostics
<1>9. CASE Emit
  <2>1. /\ ProductsAgree' /\ ReportedFaultsPoison' /\ ~FstIsWritten'
        /\ \A d \in Dir : out'[d]["diagnostics"].run < run'
    BY <1>9, ReportingKeepsProducts DEF Emit, Translating
  <2>2. Reported(Fault \ {"warning", "refine"})'
    <3> SUFFICES ASSUME NEW s \in seen, s[2] # Unreadable,
                        NEW fault \in s[2].faults \cap (Fault \ {"warning", "refine"})
                 PROVE  has_errors(diags')
      BY <1>9 DEF Emit, Reported
    <3>1. CASE fault = "emit"
      BY <1>9, <3>1, ReportsAreErrors DEF Emit
    <3>2. CASE fault \in {"clang", "snippet"} \cup {"name", "contracts"}
      BY <1>9, <3>2 DEF Emit, FaultsInv, Poisoning, Reported, has_errors
    <3> QED  BY <3>1, <3>2 DEF Fault
  <2> QED
    BY <1>9, <2>1, <2>2 DEF Emit, FaultsInv, Poisoning, FstIsWritten, EmitIsDone
<1>10. ASSUME NEW p \in Product, Create(p) PROVE FaultsInv'
  <2> DEFINE file == [NoFile EXCEPT !.run = run]
  <2>1. ~file.whole
    BY DEF NoFile
  <2>2. pc = Creating[p] /\ pc' = Filling[p] /\ UNCHANGED <<run, tmpdir, diags, poisoned, seen>>
    BY <1>10 DEF Create
  <2>3. OutDir \in Dir /\ OutDir' = OutDir
    BY <2>2 DEF OutDir, Dir
  <2> HIDE DEF file
  <2>4. out'[OutDir][p] = file
        /\ \A d \in Dir, q \in Product : d # OutDir \/ q # p => out'[d][q] = out[d][q]
    BY <1>10, <2>3 DEF Create, TypeOK, file
  <2>5. ReportedFaultsPoison'
    BY <2>1, <2>4 DEF FaultsInv, ReportedFaultsPoison, FailsOn, Product
  <2>6. ProductsAgree'
    BY <2>1, <2>4 DEF FaultsInv, ProductsAgree, Product
  <2>7. Poisoning'
    BY <2>2, <2>3, <2>4, StepsOfProducts
       DEF FaultsInv, Poisoning, Reported, EmitIsDone, FstIsWritten, WritingFst, WritingRange,
           WritingDiagnostics, Product
  <2> QED  BY <2>5, <2>6, <2>7 DEF FaultsInv
<1>11. ASSUME NEW p \in Product, Fill(p) PROVE FaultsInv'
  <2>2. pc = Filling[p] /\ pc' = After(p) /\ UNCHANGED <<run, tmpdir, diags, poisoned, seen>>
    BY <1>11 DEF Fill
  <2>3. OutDir \in Dir /\ OutDir' = OutDir
    BY <2>2 DEF OutDir, Dir
  <2>4. out'[OutDir][p] = Contents(p)
        /\ \A d \in Dir, q \in Product : d # OutDir \/ q # p => out'[d][q] = out[d][q]
    BY <1>11, <2>3 DEF Fill, TypeOK
  <2>5. Contents(p).run = run /\ Contents(p).poisoned = (p = "fst" /\ poisoned)
        /\ (p = "diagnostics" => Contents(p).diags = serialize_diags(diags))
        /\ Contents(p).faults = UNION {t.faults : t \in TextsRead}
    BY DEF Contents
  <2>6. p = "fst" => poisoned = has_errors(diags) /\ Reported(Fault \ {"warning", "refine"})
    BY <2>2, StepsOfProducts DEF FaultsInv, Poisoning, EmitIsDone, WritingFst
  <2>7. ReportedFaultsPoison'
    <3>1. p = "fst" /\ Contents(p).faults \cap (Fault \ {"warning", "refine"}) # {} => poisoned
      BY <2>5, <2>6 DEF Reported, TextsRead, TextsOf
    <3> QED
      BY <2>4, <2>5, <3>1 DEF FaultsInv, ReportedFaultsPoison, FailsOn, Product
  <2>8. ProductsAgree'
    <3>1. CASE p = "fst"
      <4>1. out[OutDir]["diagnostics"].run < run
        BY <2>2, <2>3, <3>1, StepsOfProducts DEF FaultsInv, Poisoning
      <4> QED
        BY <2>3, <2>4, <2>5, <3>1, <4>1 DEF FaultsInv, ProductsAgree, Product
    <3>2. CASE p = "range"
      BY <2>4, <3>2 DEF FaultsInv, ProductsAgree, Product
    <3>3. CASE p = "diagnostics"
      <4>1. out[OutDir]["fst"].poisoned = has_errors(diags)
        BY <2>2, <3>3, StepsOfProducts
           DEF FaultsInv, Poisoning, EmitIsDone, FstIsWritten, WritingDiagnostics
      <4>2. has_errors(serialize_diags(diags)) <=> has_errors(diags)
        BY SerializedErrors DEF TypeOK
      <4> QED
        BY <2>3, <2>4, <2>5, <3>3, <4>1, <4>2 DEF FaultsInv, ProductsAgree, Product
    <3> QED  BY <3>1, <3>2, <3>3 DEF Product
  <2>9. Poisoning'
    <3>1. poisoned = has_errors(diags) /\ pc' \notin {"passes", "emit"} \cup WritingFst
      BY <2>2, StepsOfProducts
         DEF FaultsInv, Poisoning, EmitIsDone, WritingFst, WritingRange, WritingDiagnostics,
             Product
    <3>2. out'[OutDir]["fst"].poisoned = poisoned
      <4>1. CASE p = "fst"
        BY <2>4, <2>5, <4>1 DEF TypeOK
      <4>2. CASE p # "fst"
        BY <2>2, <2>3, <2>4, <4>2, StepsOfProducts
           DEF FaultsInv, Poisoning, FstIsWritten, WritingRange, WritingDiagnostics, Product
      <4> QED  BY <4>1, <4>2
    <3>3. pc' # "print" => \A d \in Dir : out'[d]["diagnostics"].run < run
      <4>1. pc' # "print" => p # "diagnostics" /\ pc \in WritingFst \cup WritingRange
        BY <2>2, StepsOfProducts DEF WritingFst, WritingRange, Product
      <4> QED
        BY <2>4, <4>1 DEF FaultsInv, Poisoning, WritingFst, WritingRange, Product
    <3>4. (poisoned = has_errors(diags))'
      BY <2>2, <3>1 DEF has_errors
    <3> QED
      BY <2>2, <2>3, <3>1, <3>2, <3>3, <3>4 DEF Poisoning
  <2> QED  BY <2>7, <2>8, <2>9 DEF FaultsInv
<1>12. ASSUME NEW p \in Product, WriteFails(p) PROVE FaultsInv'
  BY <1>12, QuietStepKeepsFaults DEF WriteFails, Exit
<1>13. CASE PrintDiag
  BY <1>13, QuietStepKeepsFaults DEF PrintDiag, Exit
<1>14. CASE EndPrint
  BY <1>14, QuietStepKeepsFaults DEF EndPrint, Exit
<1>15. CASE Edit
  BY <1>15, QuietStepKeepsFaults DEF Edit
<1>16. CASE Kill
  BY <1>16, QuietStepKeepsFaults DEF Kill, Exit
<1>17. CASE UNCHANGED vars
  BY <1>17, QuietStepKeepsFaults DEF vars
<1> QED
  BY <1>1, <1>2, <1>3, <1>4, <1>5, <1>6, <1>7, <1>8, <1>9, <1>10, <1>11, <1>12,
     <1>13, <1>14, <1>15, <1>16, <1>17 DEF Next
-----------------------------------------------------------------------------
\* What holds of every reachable state, for each property on its own
IInv == ReadsInv /\ FaultsInv /\ PositionsAreValid

LEMMA IInvStep == IInv /\ [Next]_vars => IInv'
<1> SUFFICES ASSUME IInv, [Next]_vars PROVE IInv'
  OBVIOUS
<1>1. ReadsInv' /\ FaultsInv'
  BY ReadsInvStep, FaultsStep DEF IInv
<1>2. PositionsAreValid'
  <2>1. CASE PrintDiag
    <3>1. PICK d \in left : /\ Reading(d.file)
                            /\ d.line <= Lines(ReadFile(d.file)) => UNCHANGED status
      BY <2>1 DEF PrintDiag
    <3>2. PICK s \in seen : s[1] = d.file /\ d.line <= Lines(s[2])
      BY DEF IInv, ReadsInv, PositionsAreSeen, Base, TypeOK
    <3>3. s[2] = ReadFile(d.file)
      BY <3>1, <3>2, ReadingAgrees DEF IInv, ReadsInv, Base, TypeOK, Diag
    <3> QED  BY <3>1, <3>2, <3>3 DEF IInv, PositionsAreValid
  <2>2. CASE ~PrintDiag
    BY <2>2 DEF IInv, PositionsAreValid, Next, vars, Start, AddOverlay, OpenMain, ParseMain,
       StatHeader, OpenHeader, FrontEnd, Passes, Emit, Create, Fill, WriteFails, EndPrint,
       Edit, Kill, Exit
  <2> QED  BY <2>1, <2>2
<1> QED  BY <1>1, <1>2 DEF IInv

LEMMA IInvAlways == Spec => []IInv
<1>1. Init => IInv
  BY ReadsInvInit, FaultsInit DEF IInv, PositionsAreValid, Init
<1> QED  BY <1>1, IInvStep, PTL DEF Spec

\* Every variable keeps its type.
THEOREM TypeCorrect == Spec => []TypeOK
<1>1. IInv => TypeOK
  BY DEF IInv, ReadsInv, Base
<1> QED  BY <1>1, IInvAlways, PTL

\* A run works on one version of each file: all its reads of a file return the
\* same, however the editor changes the files (vfs.rs:44-53).
THEOREM OneTextPerRunHolds == Spec => []OneTextPerRun
<1>1. IInv => OneTextPerRun
  BY DEF IInv, ReadsInv, ReadsAreHeld, OneTextPerRun
<1> QED  BY <1>1, IInvAlways, PTL

\* With --tmpdir it is the copy taken at the start that is translated, and
\* never the main file on disk (vfs.rs:78-85).
THEOREM TheCopyIsTranslatedHolds == Spec => []TheCopyIsTranslated
<1>1. IInv => TheCopyIsTranslated
  <2> SUFFICES ASSUME IInv, tmpdir, seen # {}
               PROVE  /\ "main" \in DOMAIN vfs.overlays
                      /\ TextsOf("main") = {vfs.overlays["main"]}
    BY DEF TheCopyIsTranslated
  <2>1. "main" \in DOMAIN vfs.overlays
    BY DEF IInv, ReadsInv, OverlayComesFirst
  <2>2. PICK s \in seen : s[1] = "main"
    BY DEF IInv, ReadsInv, OverlayComesFirst
  <2>3. \A r \in seen : r[1] = "main" => r[2] = vfs.overlays["main"]
    BY <2>1 DEF IInv, ReadsInv, ReadsAreHeld, Held
  <2>4. vfs.overlays["main"] # Unreadable
    BY <2>1, TextAssumption DEF IInv, ReadsInv, Base, FileSystem
  <2> QED  BY <2>1, <2>2, <2>3, <2>4 DEF TextsOf
<1> QED  BY <1>1, IInvAlways, PTL

\* Printing diagnostics never meets a position that its file lacks, though the
\* file may have been cut short in the meantime (diag.rs:120).
THEOREM PositionsAreValidHolds == Spec => []PositionsAreValid
<1>1. IInv => PositionsAreValid
  BY DEF IInv
<1> QED  BY <1>1, IInvAlways, PTL

\* A run that ends normally leaves three whole products (main.rs:133-143).
THEOREM SuccessMeansProductsHolds == Spec => []SuccessMeansProducts
<1>1. IInv => SuccessMeansProducts
  BY DEF IInv, FaultsInv, WrittenInv, Written, SuccessMeansProducts, Product
<1> QED  BY <1>1, IInvAlways, PTL

\* Whatever is cut short, the module is the newest product (main.rs:133-143).
THEOREM ModuleIsNewestHolds == Spec => []ModuleIsNewest
<1>1. IInv => ModuleIsNewest
  BY DEF IInv, FaultsInv, WrittenInv
<1> QED  BY <1>1, IInvAlways, PTL

\* Module and diagnostics of one run agree on whether there are errors
\* (main.rs:42-71, 123).
THEOREM ProductsAgreeHolds == Spec => []ProductsAgree
<1>1. IInv => ProductsAgree
  BY DEF IInv, FaultsInv
<1> QED  BY <1>1, IInvAlways, PTL

\* Every fault that some stage reports makes the module fail (main.rs:121-126).
THEOREM ReportedFaultsPoisonHolds == Spec => []ReportedFaultsPoison
<1>1. IInv => ReportedFaultsPoison
  BY DEF IInv, FaultsInv
<1> QED  BY <1>1, IInvAlways, PTL
=============================================================================
