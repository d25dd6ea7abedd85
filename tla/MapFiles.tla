------------------------------ MODULE MapFiles ------------------------------
(***************************************************************************)
(* The files of one map directory (src/src/nav/stores/maps.py,             *)
(* src/src/slam_builtin/persistence.py, graph_store.py) as a record, and   *)
(* what the code makes of them.  A drawing is the set of strokes one sees  *)
(* in it; the hash of an image is the drawing itself, so two images with   *)
(* the same hash show the same.                                            *)
(*                                                                         *)
(* image is map.pgm, geometry whether there is a map.yaml, keys the        *)
(* keyframes.npz, backup the directory pre_repair.                         *)
(***************************************************************************)
EXTENDS Sequences, Functions

NoImage == [is |-> "none", shows |-> {}]

\* A file whose writing was cut short: its header may be right, its rows end early.
TornImage == [is |-> "torn", shows |-> {}]

Image(strokes) == [is |-> "whole", shows |-> strokes]

\* sha is the image the file was saved with.
NoKeys == [there |-> FALSE, sha |-> NoImage, base |-> {}, scans |-> {}, edits |-> <<>>]

Keys(sha, base, scans, edits) ==
    [there |-> TRUE, sha |-> sha, base |-> base, scans |-> scans, edits |-> edits]

NoBackup == [there |-> FALSE, image |-> NoImage, geometry |-> FALSE, keys |-> NoKeys]

EmptyDir == [image |-> NoImage, geometry |-> FALSE, keys |-> NoKeys, backup |-> NoBackup]

-----------------------------------------------------------------------------
(* Reading *)

HasOccupancyMap(d) == d.geometry /\ d.image.is # "none"

\* load_log_odds: None, an exception, or the drawing.
Readable(d) == d.geometry /\ d.image.is = "whole"

Raises(d) == d.geometry /\ d.image.is = "torn"

\* load_graph: the keyframes only if they were saved with this very image.
LoadGraphAnyway(d, sha) == d.keys      \* Mutant: does not compare the hashes.

LoadGraph(d, sha) == IF sha.is # "none" /\ d.keys.sha = sha THEN d.keys ELSE NoKeys

\* What a render of these keyframes and edits shows.
Render(k) == k.base \cup k.scans \cup Range(k.edits)

-----------------------------------------------------------------------------
(* Writing, one step per file *)

\* write_bytes truncates the file, then fills it.
BeginImage(d) == [d EXCEPT !.image = TornImage]

EndImage(d, strokes) == [d EXCEPT !.image = Image(strokes), !.geometry = TRUE]

WriteKeys(d, k) == [d EXCEPT !.keys = k]

AnyFile(d) == d.image.is # "none" \/ d.geometry \/ d.keys.there

\* rmtree unlinks the files of the backup one after another.
BeginDropBackup(d) ==
    [d EXCEPT !.backup = IF @.there THEN [@ EXCEPT !.image = NoImage, !.geometry = FALSE] ELSE @]

EndDropBackup(d) == [d EXCEPT !.backup = NoBackup]

\* _backup_map_files: the copies are collected aside, then renamed into place.
Copied(d) == [there |-> TRUE, image |-> d.image, geometry |-> d.geometry, keys |-> d.keys]

BackUp(d, copied) == [d EXCEPT !.backup = copied]

\* undo_repair: a file the backup does not have is unlinked.
RestoreImage(d) == [d EXCEPT !.image = d.backup.image, !.geometry = d.backup.geometry]

RestoreKeys(d) == [d EXCEPT !.keys = d.backup.keys]

\* MapHandle.clear_serialized_data
EmptiedDir(d) == EmptyDir
=============================================================================
