--------------------------- MODULE RootfsPrepare ---------------------------
(***************************************************************************)
(* prepare_rootfs of src/scripts/prepare_firecracker_rootfs.py: it keeps   *)
(* an archive, the directory extracted from it, an ext4 image made of the  *)
(* directory and a record of the image, and is run again and again with    *)
(* different flags over what earlier runs left on disk.                    *)
(*                                                                         *)
(* A run can be killed at any point, downloads fail or deliver other       *)
(* bytes, mkfs may be missing or fail, the manifest is moved to another    *)
(* release between runs, and people delete or damage files.  A file stays  *)
(* a file and a directory a directory; two runs at the same time are not   *)
(* modelled.                                                               *)
(***************************************************************************)
EXTENDS Naturals

CONSTANTS
  Releases,       \* what the manifest can pin
  FileName,       \* archive.file_name of each; the record of the image repeats it
  Names,          \* file names
  MaxAttempts,    \* --download-attempts
  Interruptions   \* whether runs are killed or meet an OSError

ASSUME FileNameAssumption == FileName \in [Releases -> Names]
ASSUME AttemptsAssumption == MaxAttempts \in Nat \ {0}
ASSUME InterruptionsAssumption == Interruptions \in BOOLEAN

VARIABLES
  \* On disk.
  pinned,         \* the release in manifest.json
  archive,        \* the downloads, by file name
  rootfs,         \* extract_dir
  image,          \* rootfs.ext4
  metadata,       \* rootfs-image.json
  \* Of the run.
  phase,          \* where prepare_rootfs is
  flags,          \* --force, --check-only, --no-build-image
  attempt,        \* attempt_index of download_file
  changed,        \* extracted_rootfs_changed
  valid,          \* metadata_valid
  built,          \* image_built
  outcome,        \* status of the last run
  \* What an observer notes; the code cannot read it.
  mishap,         \* something outside the script failed during the run
  promised        \* the check that must pass if nothing was changed since

disk == <<archive, rootfs, image, metadata>>
run == <<flags, changed, valid, built>>
notes == <<mishap, promised>>
vars == <<pinned, disk, phase, attempt, run, outcome, notes>>

Missing == [is |-> "missing"]

\* An archive has the bytes of a release or others.
Damaged == [is |-> "damaged"]
Genuine(r) == [is |-> "genuine", of |-> r]
Archives == {Missing, Damaged} \cup {Genuine(r) : r \in Releases}

\* All files of a release, some with the expected_files among them, or less.
Parts == {"whole", "expected", "less"}
Tree(r, part) == [is |-> "tree", of |-> r, part |-> part]
Trees == {Tree(r, part) : r \in Releases, part \in Parts}

\* Zeros, or what mkfs made of a tree.
Blank == [is |-> "blank"]
Made(tree) == [is |-> "made", from |-> tree]
Images == {Missing, Blank} \cup {Made(tree) : tree \in Trees}

\* The record: text that is no record, which load_image_metadata answers with
\* RuntimeError; bytes whose decoding (line 335) raises another error, such as
\* UnicodeDecodeError for what is not UTF-8, which nobody catches before main;
\* or the fields that validate_image_metadata compares.
Garbage == [is |-> "garbage"]
Undecodable == [is |-> "undecodable"]
Record(name, b) == [is |-> "record", archive |-> name, built |-> b]
Records == {Record(name, b) : name \in Names, b \in BOOLEAN}

Flags == [force : BOOLEAN, check_only : BOOLEAN, no_build_image : BOOLEAN]
Downloads == {"download", "redownload"}
Busy == Downloads \cup {"ensure_archive", "extract", "extracting", "verify", "metadata",
                        "image", "mkfs", "write"}

archivePath == FileName[pinned]

----------------------------------------------------------------------------
(* The end of a run *)

Stop(status) == phase' = "done" /\ outcome' = status

Raise == Stop("error") /\ UNCHANGED <<mishap, promised>>

\* An error whose cause is outside the script.
RaiseMishap == Stop("error") /\ mishap' = TRUE /\ UNCHANGED promised

Goto(next) == phase' = next /\ UNCHANGED <<outcome, notes>>

----------------------------------------------------------------------------
(* prepare_rootfs begins *)

\* A kill between the removals leaves nothing that DiskChanges cannot leave.
Clearing(f) == f.force /\ ~f.check_only

PrepareRootfs(f) ==
  /\ phase = "idle"
  /\ phase' = "ensure_archive"
  /\ flags' = f /\ changed' = FALSE /\ valid' = FALSE /\ built' = FALSE
  /\ mishap' = FALSE
  /\ promised' = IF f.check_only THEN promised ELSE "nothing"
  /\ IF Clearing(f)
     THEN /\ archive' = [archive EXCEPT ![archivePath] = Missing]
          /\ rootfs' = Missing
          /\ image' = Missing
     ELSE UNCHANGED <<archive, rootfs, image>>
  /\ UNCHANGED <<pinned, metadata, attempt, outcome>>

----------------------------------------------------------------------------
(* ensure_archive *)

Verified == archive[archivePath] = Genuine(pinned)

ArchiveVerified ==
  /\ phase = "ensure_archive" /\ Verified
  /\ Goto("extract")
  /\ UNCHANGED <<pinned, disk, attempt, run>>

ArchiveRefused ==
  /\ phase = "ensure_archive" /\ ~Verified /\ flags.check_only
  /\ Raise
  /\ UNCHANGED <<pinned, disk, attempt, run>>

\* A missing archive is downloaded, and once more if it is not the right one;
\* one that was there is removed and downloaded once.
StartDownload ==
  /\ phase = "ensure_archive" /\ ~Verified /\ ~flags.check_only
  /\ Goto(IF archive[archivePath] = Missing THEN "download" ELSE "redownload")
  /\ archive' = [archive EXCEPT ![archivePath] = Missing]
  /\ attempt' = 1
  /\ UNCHANGED <<pinned, rootfs, image, metadata, run>>

\* Mutant of Received: a mismatch is always answered with another download.
ReceivedRetries(bytes) ==
  /\ archive' = [archive EXCEPT ![archivePath] = bytes]
  /\ phase' = "ensure_archive"
  /\ mishap' = (mishap \/ bytes # Genuine(pinned))
  /\ UNCHANGED <<outcome, promised>>

\* What came is verified; the second time a mismatch is the end.
Received(bytes) ==
  IF phase = "download" \/ bytes = Genuine(pinned)
  THEN /\ archive' = [archive EXCEPT ![archivePath] = bytes]
       /\ phase' = "ensure_archive"
       /\ mishap' = (mishap \/ bytes # Genuine(pinned))
       /\ UNCHANGED <<outcome, promised>>
  ELSE /\ archive' = [archive EXCEPT ![archivePath] = Missing]
       /\ RaiseMishap

DownloadSucceeds ==
  /\ phase \in Downloads
  /\ \E bytes \in {Damaged, Genuine(pinned)} : Received(bytes)
  /\ attempt' = 0
  /\ UNCHANGED <<pinned, rootfs, image, metadata, run>>

\* Mutant of LastAttempt: one attempt too many.
LastAttemptLate == attempt > MaxAttempts
LastAttempt == attempt >= MaxAttempts

\* The partial file is removed.
DownloadFails ==
  /\ phase \in Downloads
  /\ IF LastAttempt
     THEN RaiseMishap /\ attempt' = 0
     ELSE attempt' = attempt + 1 /\ mishap' = TRUE /\ UNCHANGED <<phase, outcome, promised>>
  /\ UNCHANGED <<pinned, disk, run>>

----------------------------------------------------------------------------
(* Extraction *)

ShouldExtract == flags.force \/ rootfs = Missing

DecideExtract ==
  /\ phase = "extract"
  /\ IF ~ShouldExtract THEN Goto("verify")
     ELSE IF flags.check_only THEN Raise ELSE Goto("extracting")
  /\ UNCHANGED <<pinned, disk, attempt, run>>

\* extract_archive; the archive is the pinned one, and so all files are as expected.
ExtractArchive ==
  /\ phase = "extracting"
  /\ rootfs' = Tree(archive[archivePath].of, "whole")
  /\ changed' = TRUE
  /\ Goto("verify")
  /\ UNCHANGED <<pinned, archive, image, metadata, attempt, flags, valid, built>>

\* Mutant of ExpectedFiles: the files are there, and their hashes not compared.
ExpectedFilesExist == rootfs \in Trees /\ rootfs.part # "less"
ExpectedFiles == rootfs \in {Tree(pinned, "whole"), Tree(pinned, "expected")}

\* Mutant of VerifyExpectedFiles: a mismatch is always an error.
VerifyWithoutReextract ==
  /\ phase = "verify"
  /\ IF ExpectedFiles THEN Goto("metadata") ELSE Raise
  /\ UNCHANGED <<pinned, disk, attempt, run>>

VerifyExpectedFiles ==
  /\ phase = "verify"
  /\ IF ExpectedFiles THEN Goto("metadata")
     ELSE IF flags.check_only THEN Raise ELSE Goto("extracting")
  /\ UNCHANGED <<pinned, disk, attempt, run>>

----------------------------------------------------------------------------
(* The record and the image *)

\* validate_image_metadata; image.built is read but not looked at.
ValidMetadata == metadata \in Records /\ metadata.archive = archivePath

\* A preparing run makes the record anew after a RuntimeError, and only then.
ReadMetadata ==
  /\ phase = "metadata"
  /\ IF metadata = Undecodable \/ (flags.check_only /\ ~ValidMetadata)
     THEN Raise /\ UNCHANGED <<valid, built>>
     ELSE /\ valid' = ValidMetadata
          /\ built' = (ValidMetadata /\ image # Missing)
          /\ Goto("image")
  /\ UNCHANGED <<pinned, disk, attempt, flags, changed>>

\* How a run ends well that found or made all there is to make.
Conclude ==
  IF flags.check_only THEN Stop("ok") /\ UNCHANGED notes ELSE Goto("write")

ShouldBuildImage == flags.force \/ changed \/ image = Missing \/ ~valid

KeepImage ==
  /\ phase = "image"
  /\ \/ flags.no_build_image /\ UNCHANGED built
     \/ /\ ~flags.no_build_image
        /\ IF flags.check_only THEN image # Missing ELSE ~ShouldBuildImage
        /\ built' = TRUE
  /\ Conclude
  /\ UNCHANGED <<pinned, disk, attempt, flags, changed, valid>>

ImageNotFound ==
  /\ phase = "image" /\ flags.check_only /\ ~flags.no_build_image /\ image = Missing
  /\ Raise
  /\ UNCHANGED <<pinned, disk, attempt, run>>

\* build_rootfs_image: an empty file of the right size comes before everything else.
BuildRootfsImage ==
  /\ phase = "image" /\ ~flags.check_only /\ ~flags.no_build_image /\ ShouldBuildImage
  /\ image' = Blank
  /\ Goto("mkfs")
  /\ UNCHANGED <<pinned, archive, rootfs, metadata, attempt, run>>

\* resolve_mkfs_command raises; the empty file stays.
MkfsMissing ==
  /\ phase = "mkfs"
  /\ RaiseMishap
  /\ UNCHANGED <<pinned, disk, attempt, run>>

\* Mutant of MkfsFails: the return code is not looked at.
MkfsFailsUnnoticed ==
  /\ phase = "mkfs"
  /\ built' = TRUE
  /\ phase' = "write"
  /\ mishap' = TRUE
  /\ UNCHANGED <<pinned, disk, attempt, flags, changed, valid, outcome, promised>>

MkfsFails ==
  /\ phase = "mkfs"
  /\ image' = Missing
  /\ RaiseMishap
  /\ UNCHANGED <<pinned, archive, rootfs, metadata, attempt, run>>

MkfsWorks ==
  /\ phase = "mkfs"
  /\ image' = Made(rootfs)
  /\ built' = TRUE
  /\ Goto("write")
  /\ UNCHANGED <<pinned, archive, rootfs, metadata, attempt, flags, changed, valid>>

\* Mutant of WriteImageMetadata: no image, no record.
WriteMetadataIfBuilt ==
  /\ phase = "write"
  /\ metadata' = IF built THEN Record(archivePath, built) ELSE metadata
  /\ Stop("ok")
  /\ promised' = IF flags.no_build_image THEN "rootfs" ELSE "image"
  /\ UNCHANGED <<pinned, archive, rootfs, image, attempt, run, mishap>>

WriteImageMetadata ==
  /\ phase = "write"
  /\ metadata' = Record(archivePath, built)
  /\ Stop("ok")
  /\ promised' = IF flags.no_build_image THEN "rootfs" ELSE "image"
  /\ UNCHANGED <<pinned, archive, rootfs, image, attempt, run, mishap>>

----------------------------------------------------------------------------
(* What happens to a run and between runs *)

\* What is left of a directory that was being removed or filled.
Torn(tree) == IF tree \in Trees
              THEN {Tree(tree.of, part) : part \in {tree.part, "less"}} ELSE {tree}
HalfExtracted == {Missing} \cup Torn(rootfs) \cup {Tree(pinned, part) : part \in Parts}

\* The run is killed, or an OSError ends it, in the middle of a step.  Half a
\* record can be decoded: json.dumps writes ASCII.
Interrupt ==
  /\ Interruptions
  /\ phase \in Busy
  /\ archive' \in IF phase \in Downloads
                  THEN {[archive EXCEPT ![archivePath] = a] : a \in {Missing, Damaged}}
                  ELSE {archive}
  /\ rootfs' \in IF phase = "extracting" THEN HalfExtracted ELSE {rootfs}
  /\ metadata' \in IF phase = "write" THEN {metadata, Garbage} ELSE {metadata}
  /\ Stop("killed")
  /\ mishap' = TRUE
  /\ attempt' = 0
  /\ UNCHANGED <<pinned, image, run, promised>>

Return ==
  /\ phase = "done"
  /\ phase' = "idle"
  /\ outcome' = "none"
  /\ UNCHANGED <<pinned, disk, attempt, run, notes>>

\* Somebody removes or damages a file, or moves the manifest to another release.
DiskChanges ==
  /\ phase = "idle"
  /\ \/ \E name \in Names, a \in {Missing, Damaged} :
          /\ archive' = [archive EXCEPT ![name] = a]
          /\ UNCHANGED <<pinned, rootfs, image, metadata>>
     \/ /\ rootfs' \in {Missing} \cup Torn(rootfs)
        /\ UNCHANGED <<pinned, archive, image, metadata>>
     \/ image' = Missing /\ UNCHANGED <<pinned, archive, rootfs, metadata>>
     \/ /\ metadata' \in {Missing, Garbage, Undecodable}
        /\ UNCHANGED <<pinned, archive, rootfs, image>>
     \/ pinned' \in Releases /\ UNCHANGED disk
  /\ promised' = "nothing"
  /\ UNCHANGED <<phase, attempt, run, outcome, mishap>>

Init ==
  /\ pinned \in Releases
  /\ archive = [name \in Names |-> Missing]
  /\ rootfs = Missing /\ image = Missing /\ metadata = Missing
  /\ phase = "idle"
  /\ flags = [force |-> FALSE, check_only |-> FALSE, no_build_image |-> FALSE]
  /\ attempt = 0
  /\ changed = FALSE /\ valid = FALSE /\ built = FALSE
  /\ outcome = "none"
  /\ mishap = FALSE
  /\ promised = "nothing"

Step == \/ ArchiveVerified \/ ArchiveRefused \/ StartDownload
        \/ DownloadSucceeds \/ DownloadFails
        \/ DecideExtract \/ ExtractArchive \/ VerifyExpectedFiles
        \/ ReadMetadata \/ KeepImage \/ ImageNotFound
        \/ BuildRootfsImage \/ MkfsMissing \/ MkfsFails \/ MkfsWorks \/ WriteImageMetadata

Next == \/ \E f \in Flags : PrepareRootfs(f)
        \/ Step
        \/ Interrupt \/ Return \/ DiskChanges

Spec == Init /\ [][Next]_vars

----------------------------------------------------------------------------
(* Properties *)

\* Type invariant.
TypeOK ==
  /\ pinned \in Releases
  /\ archive \in [Names -> Archives]
  /\ rootfs \in {Missing} \cup Trees
  /\ image \in Images
  /\ metadata \in {Missing, Garbage, Undecodable} \cup Records
  /\ phase \in Busy \cup {"idle", "done"}
  /\ flags \in Flags
  /\ attempt \in 0..MaxAttempts
  /\ changed \in BOOLEAN /\ valid \in BOOLEAN /\ built \in BOOLEAN /\ mishap \in BOOLEAN
  /\ outcome \in {"none", "ok", "error", "killed"}
  /\ promised \in {"nothing", "rootfs", "image"}

Ok == phase = "done" /\ outcome = "ok"

(* docs/FIRECRACKER_ROOTFS.md:6 (reproducible verification and extraction):  *)
(* a run that answers status=ok, with --check-only or without, leaves the    *)
(* pinned archive and the expected files of the pinned release, whatever     *)
(* killed runs, wrong downloads and earlier releases left behind.            *)
OkMeansPinned ==
  Ok => /\ archive[archivePath] = Genuine(pinned)
        /\ rootfs \in {Tree(pinned, "whole"), Tree(pinned, "expected")}

(* --force starts afresh (line 73): when such a run is ok, the directory is  *)
(* complete and the image, if one was to be built, was made of it and is     *)
(* recorded as built, whatever was on disk before.                           *)
ForcedMeansCurrent ==
  Ok /\ Clearing(flags) =>
    /\ rootfs = Tree(pinned, "whole")
    /\ ~flags.no_build_image => image = Made(rootfs) /\ metadata = Record(archivePath, TRUE)

(* The workflow of docs/FIRECRACKER_ROOTFS.md:29-39: after a run that was    *)
(* ok, the same command with --check-only is ok as long as nobody touched    *)
(* the files or the manifest; checks may be repeated and mixed in between.   *)
CheckOnlyAgrees ==
  phase = "done" /\ outcome = "error" /\ flags.check_only /\ ~flags.force =>
    promised # "image" /\ (flags.no_build_image => promised # "rootfs")

(* docs/FIRECRACKER_ROOTFS.md:55 (the script re-downloads and re-extracts):  *)
(* whatever runs, kills and damage left on disk, a preparing run fails only  *)
(* when the network, mkfs or the machine failed during that very run, with   *)
(* one exception: a record that cannot be decoded (line 335) fails every     *)
(* run, with --force too, until somebody removes it.                         *)
ErrorsHaveCause ==
  phase = "done" /\ outcome = "error" /\ ~flags.check_only =>
    mishap \/ metadata = Undecodable

(* docs/FIRECRACKER_ROOTFS.md:49, "rootfs-image.json records whether image   *)
(* build happened": when a run ends ok with image.built = true, rootfs.ext4  *)
(* was made by mkfs.                                                         *)
MetadataHonest ==
  Ok /\ ~flags.check_only /\ metadata.built => image \notin {Missing, Blank}

\* How far a run still has to go.  ensure_archive is met up to three times and
\* the verification up to twice, each time with more of it done.
Stage ==
  CASE phase = "ensure_archive" ->
         IF Verified THEN 9 ELSE IF archive[archivePath] = Missing THEN 13 ELSE 11
    [] phase = "download" -> 12
    [] phase = "redownload" -> 10
    [] phase = "extract" -> 8
    [] phase = "verify" -> IF ExpectedFiles THEN 5 ELSE 7
    [] phase = "extracting" -> 6
    [] phase = "metadata" -> 4
    [] phase = "image" -> 3
    [] phase = "mkfs" -> 2
    [] phase = "write" -> 1
    [] OTHER -> 0

StepsLeft == Stage * (MaxAttempts + 1) - (IF phase \in Downloads THEN attempt ELSE 0)

(* The script repairs by repeating itself: failed attempts are repeated      *)
(* (lines 112-138), an archive that does not verify is downloaded again      *)
(* (225-253) and files that are not the expected ones are extracted again    *)
(* (464-472).  Whatever arrives and whatever was on disk, no run goes round  *)
(* for ever: each of its steps takes it nearer to its end, and so a run has  *)
(* at most 13 * (MaxAttempts + 1) of them.                                   *)
RunsEnd == [][(phase \in Busy) => StepsLeft' \in 0..(StepsLeft - 1)]_vars
=============================================================================
