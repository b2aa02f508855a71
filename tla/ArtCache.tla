------------------------------- MODULE ArtCache -------------------------------
(***************************************************************************)
(* The cache of covers on disk (waytify-core/src/art.rs: fetch, recompute, *)
(* write_colors).  The engine starts a fetch whenever it looks at a track  *)
(* whose cover it lacks, and nothing keeps two fetches of one cover apart. *)
(*                                                                         *)
(* One cover is followed.  A file has an inode and maybe a name: opening a *)
(* name for writing empties the file it leads to, whoever else has it      *)
(* open, and renaming moves the name and not the file one wrote.           *)
(***************************************************************************)
EXTENDS Naturals, FiniteSets

CONSTANTS
    None,
    Fetches,
    MaxCrashes, MaxFailures     \* bounds: of the daemon; of downloads and writes

Inodes == 1..(Cardinality(Fetches) + 1)

ASSUME ArtCacheAssumption ==
    /\ IsFiniteSet(Fetches) /\ None \notin Inodes
    /\ {MaxCrashes, MaxFailures} \subseteq Nat

VARIABLES
    content,        \* of each inode: "torn" or "whole"
    part, image,    \* what the two names lead to
    colors,         \* the file of colours: "none", "torn" or "whole"
    fetch,          \* of each fetch, where it is and the file it has open
    shared,         \* history: two fetches had the .part file at a time
    crashes, failures

disk == <<content, part, image, colors>>
artVars == <<disk, fetch, shared, crashes, failures>>

ArtInit ==
    /\ content = [i \in Inodes |-> "torn"] /\ part = None /\ image = None
    /\ colors = "none"
    /\ fetch = [f \in Fetches |-> [at |-> "idle", file |-> None]]
    /\ shared = FALSE /\ crashes = 0 /\ failures = 0

At(f, place) == fetch[f].at = place
Goes(f, place) == fetch' = [fetch EXCEPT ![f] = [at |-> place, file |-> None]]
FetchesWrite == \E f \in Fetches : fetch[f].at \in {"writing", "renaming"}

-----------------------------------------------------------------------------

Start(f) ==
    /\ At(f, "idle") /\ Goes(f, "looking")
    /\ UNCHANGED <<disk, shared, crashes, failures>>

\* image_path.exists()
Look(f) ==
    /\ At(f, "looking")
    /\ Goes(f, IF image = None THEN "downloading" ELSE "reading")
    /\ UNCHANGED <<disk, shared, crashes, failures>>

\* The colours that were stored; an answer without them if there are none and
\* the image cannot be read.
ReadColors(f) ==
    /\ At(f, "reading")
    /\ Goes(f, IF colors = "whole" \/ content[image] = "torn" THEN "idle" ELSE "coloring")
    /\ UNCHANGED <<disk, shared, crashes, failures>>

Fails(f) ==
    /\ failures < MaxFailures /\ failures' = failures + 1
    /\ Goes(f, "idle")

Download(f) ==
    /\ At(f, "downloading")
    /\ \/ Goes(f, "opening") /\ UNCHANGED failures
       \/ Fails(f)
    /\ UNCHANGED <<disk, shared, crashes>>

Free == Inodes \ ({part, image} \cup {fetch[f].file : f \in Fetches})

\* Opening a name for writing: the file it leads to, emptied, or a new one.
Opened(name) == IF name # None THEN name ELSE CHOOSE i \in Free : TRUE

\* A mistake: the image is written under its own name.
OpenInPlace(f) ==
    /\ At(f, "opening")
    /\ LET i == Opened(image) IN
       /\ image' = i /\ part' = i /\ content' = [content EXCEPT ![i] = "torn"]
       /\ fetch' = [fetch EXCEPT ![f] = [at |-> "writing", file |-> i]]
    /\ shared' = (shared \/ FetchesWrite)
    /\ UNCHANGED <<colors, crashes, failures>>

\* std::fs::write(&temp) opens it
Open(f) ==
    /\ At(f, "opening")
    /\ LET i == Opened(part) IN
       /\ part' = i /\ content' = [content EXCEPT ![i] = "torn"]
       /\ fetch' = [fetch EXCEPT ![f] = [at |-> "writing", file |-> i]]
    /\ shared' = (shared \/ FetchesWrite)
    /\ UNCHANGED <<image, colors, crashes, failures>>

\* and writes to it, or cannot.
Write(f) ==
    /\ At(f, "writing")
    /\ \/ /\ content' = [content EXCEPT ![fetch[f].file] = "whole"]
          /\ Goes(f, "renaming") /\ UNCHANGED failures
       \/ Fails(f) /\ UNCHANGED content
    /\ UNCHANGED <<part, image, colors, shared, crashes>>

\* The file the name leads to by now; another fetch may have taken it away.
Rename(f) ==
    /\ At(f, "renaming")
    /\ \/ part # None /\ image' = part /\ part' = None /\ Goes(f, "coloring")
       \/ part = None /\ UNCHANGED <<part, image>> /\ Goes(f, "idle")
    /\ UNCHANGED <<content, colors, shared, crashes, failures>>

\* write_colors, in place.
OpenColors(f) ==
    /\ At(f, "coloring") /\ colors' = "torn" /\ Goes(f, "telling")
    /\ UNCHANGED <<content, part, image, shared, crashes, failures>>

WriteColors(f) ==
    /\ At(f, "telling") /\ colors' = "whole" /\ Goes(f, "idle")
    /\ UNCHANGED <<content, part, image, shared, crashes, failures>>

\* The daemon ends, and another one finds what is on disk.
Crash ==
    /\ crashes < MaxCrashes /\ crashes' = crashes + 1
    /\ fetch' = [f \in Fetches |-> [at |-> "idle", file |-> None]]
    /\ UNCHANGED <<disk, shared, failures>>

ArtNext ==
    \/ \E f \in Fetches :
          Start(f) \/ Look(f) \/ ReadColors(f) \/ Download(f) \/ Open(f) \/ Write(f)
              \/ Rename(f) \/ OpenColors(f) \/ WriteColors(f)
    \/ Crash

ArtSpec == ArtInit /\ [][ArtNext]_artVars

-----------------------------------------------------------------------------

\* An image that later fetches take for a valid one is whole, whenever the daemon
\* ends, as long as no two fetches shared the file it is written to; and when they
\* did, it is whole again once they have written, if nothing interrupted them.
ImageIsWhole ==
    image # None /\ (~shared \/ (crashes = 0 /\ failures = 0 /\ ~FetchesWrite)) =>
        content[image] = "whole"

\* "a fetch interrupted halfway cannot leave a truncated image that every later
\* run treats as a valid cache hit": with two fetches of one cover it can.
InterruptedLeavesNoImage ==
    image # None /\ ~FetchesWrite => content[image] = "whole"
=============================================================================
