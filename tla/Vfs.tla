--------------------------------- MODULE Vfs ---------------------------------
(***************************************************************************)
(* The file systems the translator reads through (src/src/vfs.rs).  RealFS *)
(* remembers what it read, failures included; OverlayFS answers for the    *)
(* files it was given and asks its base for the others.  A file system is  *)
(* a value here: reading returns the result and the file system after it.  *)
(***************************************************************************)
CONSTANTS
  Unreadable   \* Err(..): the file is missing or is not UTF-8

NoFiles == [f \in {} |-> Unreadable]

\* A partial function extended at one point (HashMap::insert)
Insert(map, f, x) == [g \in DOMAIN map \cup {f} |-> IF g = f THEN x ELSE map[g]]

\* RealFS::new and OverlayFS::new
New == [cache |-> NoFiles, overlays |-> NoFiles]

add_overlay(fs, f, text) == [fs EXCEPT !.overlays = Insert(@, f, text)]

\* Mutant: only successful reads are remembered.
ReadRealForgettingErrors(fs, disk, f) ==
  IF f \in DOMAIN fs.cache
  THEN [result |-> fs.cache[f], fs |-> fs]
  ELSE [result |-> disk[f],
        fs |-> IF disk[f] = Unreadable THEN fs ELSE [fs EXCEPT !.cache = Insert(@, f, disk[f])]]

\* RealFS::read_vfs_file
ReadReal(fs, disk, f) ==
  IF f \in DOMAIN fs.cache
  THEN [result |-> fs.cache[f], fs |-> fs]
  ELSE [result |-> disk[f], fs |-> [fs EXCEPT !.cache = Insert(@, f, disk[f])]]

\* Mutant: the base is asked first, the overlay answers for missing files.
ReadBaseFirst(fs, disk, f) ==
  LET base == ReadReal(fs, disk, f)
  IN IF base.result = Unreadable /\ f \in DOMAIN fs.overlays
     THEN [result |-> fs.overlays[f], fs |-> base.fs]
     ELSE base

\* OverlayFS::read_vfs_file; without overlays, RealFS::read_vfs_file
read_vfs_file(fs, disk, f) ==
  IF f \in DOMAIN fs.overlays
  THEN [result |-> fs.overlays[f], fs |-> fs]
  ELSE ReadReal(fs, disk, f)
=============================================================================
