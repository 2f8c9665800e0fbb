------------------------ MODULE RootfsPrepareProofs ------------------------
(***************************************************************************)
(* Theorems about RootfsPrepare, for every set of releases, every number   *)
(* of attempts, and with or without interruptions.                         *)
(***************************************************************************)
EXTENDS RootfsPrepare, Integers, TLAPS

\* Most steps leave these alone; the tuples are expanded everywhere.
USE DEF disk, run, notes

\* What the proofs need to know of the values on disk.
LEMMA Values ==
  /\ Missing \in Archives /\ Damaged \in Archives
  /\ \A r \in Releases : Genuine(r) \in Archives
  /\ Missing \in Images /\ Blank \in Images
  /\ \A tree \in Trees : Made(tree) \in Images
  /\ \A r \in Releases, part \in Parts : Tree(r, part) \in Trees
  /\ \A name \in Names, b \in BOOLEAN : Record(name, b) \in Records
  /\ Undecodable \notin Records
  /\ \A tree \in Trees : Torn(tree) \subseteq Trees
  /\ \A x : x \notin Trees => Torn(x) = {x}
  /\ "whole" \in Parts
<1>1. /\ Missing \in Archives /\ Damaged \in Archives
      /\ \A r \in Releases : Genuine(r) \in Archives
  BY DEF Archives
<1>2. /\ Missing \in Images /\ Blank \in Images
      /\ \A tree \in Trees : Made(tree) \in Images
  BY DEF Images
<1>3. \A r \in Releases, part \in Parts : Tree(r, part) \in Trees BY DEF Trees
<1>4. /\ \A name \in Names, b \in BOOLEAN : Record(name, b) \in Records
      /\ Undecodable \notin Records
  <2>1. \A name \in Names, b \in BOOLEAN : Record(name, b).is = "record" BY DEF Record
  <2>2. Undecodable.is # "record" BY DEF Undecodable
  <2> QED BY <2>1, <2>2 DEF Records
<1>5. ASSUME NEW tree \in Trees PROVE Torn(tree) \subseteq Trees
  <2>1. PICK r \in Releases, part \in Parts : tree = Tree(r, part) BY DEF Trees
  <2>2. tree.of = r /\ tree.part = part BY <2>1 DEF Tree
  <2>3. tree.part \in Parts /\ "less" \in Parts BY <2>2 DEF Parts
  <2> QED BY <1>3, <2>2, <2>3 DEF Torn
<1>6. \A x : x \notin Trees => Torn(x) = {x} BY DEF Torn
<1>7. "whole" \in Parts BY DEF Parts
<1> QED BY <1>1, <1>2, <1>3, <1>4, <1>5, <1>6, <1>7

LEMMA ArchivePathType == pinned \in Releases => archivePath \in Names
BY FileNameAssumption DEF archivePath

\* An archive that is verified has the pinned release in it.
LEMMA VerifiedOf == Verified => archive[archivePath].of = pinned
BY DEF Verified, Genuine

----------------------------------------------------------------------------
(* Type correctness, and what every run has verified by when *)

USE DEF Downloads, Busy

Later == {"metadata", "image", "mkfs", "write"}

\* From the end of ensure_archive on the archive is the pinned one, and from
\* the end of the verification on the expected files are the pinned ones.
Trusted ==
  /\ phase \in Later \cup {"extract", "extracting", "verify"} => Verified
  /\ phase \in Later => ExpectedFiles /\ rootfs \in Trees
  /\ phase = "done" /\ outcome = "ok" => Verified /\ ExpectedFiles

USE DEF Later

LEMMA NextType ==
  ASSUME TypeOK, Trusted, [Next]_vars
  PROVE  TypeOK'
<1>1. ASSUME NEW f \in Flags, PrepareRootfs(f) PROVE TypeOK'
  BY <1>1, Values, ArchivePathType DEF TypeOK, PrepareRootfs, Clearing
<1>2. CASE ArchiveVerified
  BY <1>2 DEF TypeOK, ArchiveVerified, Goto
<1>3. CASE ArchiveRefused
  BY <1>3 DEF TypeOK, ArchiveRefused, Raise, Stop
<1>4. CASE StartDownload
  BY <1>4, Values, ArchivePathType, AttemptsAssumption DEF TypeOK, StartDownload, Goto
<1>5. CASE DownloadSucceeds
  <2>1. PICK bytes \in {Damaged, Genuine(pinned)} : Received(bytes)
    BY <1>5 DEF DownloadSucceeds
  <2>2. bytes \in Archives BY <2>1, Values DEF TypeOK
  <2>3. archive' \in [Names -> Archives] /\ phase' \in {"ensure_archive", "done"}
    BY <2>1, <2>2, Values, ArchivePathType DEF TypeOK, Received, RaiseMishap, Stop
  <2>4. mishap' \in BOOLEAN BY <2>1 DEF TypeOK, Received, RaiseMishap
  <2>5. outcome' \in {"none", "ok", "error", "killed"} /\ UNCHANGED promised
    BY <2>1 DEF TypeOK, Received, RaiseMishap, Stop
  <2>6. attempt' \in 0..MaxAttempts BY <1>5, AttemptsAssumption DEF DownloadSucceeds
  <2> QED BY <1>5, <2>3, <2>4, <2>5, <2>6 DEF TypeOK, DownloadSucceeds
<1>6. CASE DownloadFails
  <2>1. attempt' \in 0..MaxAttempts
    BY <1>6, AttemptsAssumption DEF TypeOK, DownloadFails, LastAttempt
  <2> QED BY <1>6, <2>1 DEF TypeOK, DownloadFails, RaiseMishap, Stop
<1>7. CASE DecideExtract
  BY <1>7 DEF TypeOK, DecideExtract, Goto, Raise, Stop
<1>8. CASE ExtractArchive
  <2>1. archive[archivePath].of \in Releases BY <1>8, VerifiedOf DEF Trusted, TypeOK,
     ExtractArchive
  <2> QED BY <1>8, <2>1, Values DEF TypeOK, ExtractArchive, Goto
<1>9. CASE VerifyExpectedFiles
  BY <1>9 DEF TypeOK, VerifyExpectedFiles, Goto, Raise, Stop
<1>10. CASE ReadMetadata
  <2>1. valid' \in BOOLEAN /\ built' \in BOOLEAN BY <1>10 DEF TypeOK, ReadMetadata, ValidMetadata
  <2>2. /\ phase' \in Busy \cup {"done"}
        /\ outcome' \in {outcome, "error"}
        /\ UNCHANGED <<mishap, promised>>
    BY <1>10 DEF ReadMetadata, Goto, Raise, Stop
  <2> QED BY <1>10, <2>1, <2>2 DEF TypeOK, ReadMetadata
<1>11. CASE KeepImage
  BY <1>11 DEF TypeOK, KeepImage, Conclude, Goto, Stop
<1>12. CASE ImageNotFound
  BY <1>12 DEF TypeOK, ImageNotFound, Raise, Stop
<1>13. CASE BuildRootfsImage
  BY <1>13, Values DEF TypeOK, BuildRootfsImage, Goto
<1>14. CASE MkfsMissing
  BY <1>14 DEF TypeOK, MkfsMissing, RaiseMishap, Stop
<1>15. CASE MkfsFails
  BY <1>15, Values DEF TypeOK, MkfsFails, RaiseMishap, Stop
<1>16. CASE MkfsWorks
  <2>1. rootfs \in Trees BY <1>16 DEF Trusted, MkfsWorks
  <2> QED BY <1>16, <2>1, Values DEF TypeOK, MkfsWorks, Goto
<1>17. CASE WriteImageMetadata
  BY <1>17, Values, ArchivePathType DEF TypeOK, WriteImageMetadata, Stop
<1>18. CASE Interrupt
  <2>1. archive' \in [Names -> Archives]
    BY <1>18, Values, ArchivePathType DEF TypeOK, Interrupt
  <2>2. rootfs' \in {Missing} \cup Trees
    BY <1>18, Values DEF TypeOK, Interrupt, HalfExtracted
  <2>3. metadata' \in {Missing, Garbage, Undecodable} \cup Records
    BY <1>18 DEF TypeOK, Interrupt
  <2> QED BY <1>18, <2>1, <2>2, <2>3, AttemptsAssumption DEF TypeOK, Interrupt, Stop
<1>19. CASE Return
  BY <1>19 DEF TypeOK, Return
<1>20. CASE DiskChanges
  <2>1. archive' \in [Names -> Archives] BY <1>20, Values DEF TypeOK, DiskChanges
  <2>2. rootfs' \in {Missing} \cup Trees BY <1>20, Values DEF TypeOK, DiskChanges
  <2>3. image' \in Images BY <1>20, Values DEF TypeOK, DiskChanges
  <2> QED BY <1>20, <2>1, <2>2, <2>3 DEF TypeOK, DiskChanges
<1>21. CASE UNCHANGED vars
  BY <1>21 DEF TypeOK, vars
<1> QED
  BY <1>1, <1>2, <1>3, <1>4, <1>5, <1>6, <1>7, <1>8, <1>9, <1>10, <1>11, <1>12, <1>13,
     <1>14, <1>15, <1>16, <1>17, <1>18, <1>19, <1>20, <1>21 DEF Next, Step

LEMMA NextTrusted ==
  ASSUME TypeOK, Trusted, [Next]_vars
  PROVE  Trusted'
<1>1. ASSUME NEW f \in Flags, PrepareRootfs(f) PROVE Trusted'
  BY <1>1 DEF TypeOK, Trusted, Verified, ExpectedFiles, archivePath, PrepareRootfs, Clearing
<1>2. CASE ArchiveVerified
  BY <1>2 DEF TypeOK, Trusted, Verified, ExpectedFiles, archivePath, ArchiveVerified, Goto
<1>3. CASE ArchiveRefused
  BY <1>3 DEF TypeOK, Trusted, Verified, ExpectedFiles, archivePath, ArchiveRefused, Raise, Stop
<1>4. CASE StartDownload
  BY <1>4 DEF TypeOK, Trusted, Verified, ExpectedFiles, archivePath, StartDownload, Goto
<1>5. CASE DownloadSucceeds
  BY <1>5 DEF Trusted, Verified, ExpectedFiles, archivePath, DownloadSucceeds, Received,
     RaiseMishap, Stop
<1>6. CASE DownloadFails
  BY <1>6 DEF TypeOK, Trusted, Verified, ExpectedFiles, archivePath, DownloadFails,
     LastAttempt, RaiseMishap, Stop
<1>7. CASE DecideExtract
  BY <1>7 DEF TypeOK, Trusted, Verified, ExpectedFiles, archivePath, DecideExtract, Goto,
     Raise, Stop
<1>8. CASE ExtractArchive
  BY <1>8, Values DEF TypeOK, Trusted, Verified, ExpectedFiles, archivePath,
     ExtractArchive, Goto
<1>9. CASE VerifyExpectedFiles
  BY <1>9, Values
  DEF TypeOK, Trusted, Verified, ExpectedFiles, archivePath, Parts, VerifyExpectedFiles,
     Goto, Raise, Stop
<1>10. CASE ReadMetadata
  BY <1>10 DEF TypeOK, Trusted, Verified, ExpectedFiles, archivePath, ReadMetadata, Goto,
     Raise, Stop
<1>11. CASE KeepImage
  BY <1>11 DEF TypeOK, Trusted, Verified, ExpectedFiles, archivePath, KeepImage, Conclude,
     Goto, Stop
<1>12. CASE ImageNotFound
  BY <1>12 DEF TypeOK, Trusted, Verified, ExpectedFiles, archivePath, ImageNotFound, Raise, Stop
<1>13. CASE BuildRootfsImage
  BY <1>13 DEF TypeOK, Trusted, Verified, ExpectedFiles, archivePath, BuildRootfsImage, Goto
<1>14. CASE MkfsMissing
  BY <1>14 DEF TypeOK, Trusted, Verified, ExpectedFiles, archivePath, MkfsMissing,
     RaiseMishap, Stop
<1>15. CASE MkfsFails
  BY <1>15 DEF TypeOK, Trusted, Verified, ExpectedFiles, archivePath, MkfsFails,
     RaiseMishap, Stop
<1>16. CASE MkfsWorks
  BY <1>16 DEF TypeOK, Trusted, Verified, ExpectedFiles, archivePath, MkfsWorks, Goto
<1>17. CASE WriteImageMetadata
  BY <1>17 DEF TypeOK, Trusted, Verified, ExpectedFiles, archivePath, WriteImageMetadata, Stop
<1>18. CASE Interrupt
  BY <1>18 DEF TypeOK, Trusted, Verified, ExpectedFiles, archivePath, Interrupt, Stop
<1>19. CASE Return
  BY <1>19 DEF TypeOK, Trusted, Verified, ExpectedFiles, archivePath, Return
<1>20. CASE DiskChanges
  BY <1>20 DEF TypeOK, Trusted, Verified, ExpectedFiles, archivePath, DiskChanges
<1>21. CASE UNCHANGED vars
  BY <1>21 DEF TypeOK, Trusted, Verified, ExpectedFiles, archivePath, vars
<1> QED
  BY <1>1, <1>2, <1>3, <1>4, <1>5, <1>6, <1>7, <1>8, <1>9, <1>10, <1>11, <1>12, <1>13,
     <1>14, <1>15, <1>16, <1>17, <1>18, <1>19, <1>20, <1>21 DEF Next, Step

LEMMA SpecTrusted == Spec => [](TypeOK /\ Trusted)
<1>1. Init => TypeOK /\ Trusted
  <2> SUFFICES ASSUME Init PROVE TypeOK /\ Trusted OBVIOUS
  <2>1. archive \in [Names -> Archives] BY Values DEF Init
  <2>2. flags \in Flags BY DEF Init, Flags
  <2>3. attempt \in 0..MaxAttempts BY AttemptsAssumption DEF Init
  <2>4. image \in Images BY Values DEF Init
  <2> QED BY <2>1, <2>2, <2>3, <2>4 DEF Init, TypeOK, Trusted
<1>2. TypeOK /\ Trusted /\ [Next]_vars => (TypeOK /\ Trusted)' BY NextType, NextTrusted
<1> QED BY <1>1, <1>2, PTL DEF Spec

(***************************************************************************)
(* Type correctness; in particular downloads stop at their limit.          *)
(***************************************************************************)
THEOREM TypeCorrect == Spec => []TypeOK
BY SpecTrusted, PTL

(***************************************************************************)
(* A run that answers ok leaves the pinned archive and expected files,     *)
(* whatever earlier runs, kills and downloads left.                        *)
(***************************************************************************)
THEOREM OkAlwaysPinned == Spec => []OkMeansPinned
<1>1. Trusted => OkMeansPinned BY DEF Trusted, OkMeansPinned, Ok, Verified, ExpectedFiles
<1> QED BY <1>1, SpecTrusted, PTL

----------------------------------------------------------------------------
(* Runs with --force *)

\* A forced run works on a directory it extracted itself, and keeps no image
\* it found.
Forced ==
  /\ Clearing(flags) /\ phase \in Later \cup {"verify"} => rootfs = Tree(pinned, "whole")
  /\ Clearing(flags) /\ ~flags.no_build_image /\ phase = "write" =>
       image = Made(rootfs) /\ built = TRUE
  /\ phase = "done" /\ outcome = "ok" /\ Clearing(flags) =>
       /\ rootfs = Tree(pinned, "whole")
       /\ ~flags.no_build_image => image = Made(rootfs) /\ metadata = Record(archivePath, TRUE)

LEMMA NextForced ==
  ASSUME TypeOK, Trusted, Forced, [Next]_vars
  PROVE  Forced'
<1>1. ASSUME NEW f \in Flags, PrepareRootfs(f) PROVE Forced'
  BY <1>1 DEF TypeOK, Forced, Clearing, archivePath, PrepareRootfs
<1>2. CASE ArchiveVerified
  BY <1>2 DEF TypeOK, Forced, Clearing, archivePath, ArchiveVerified, Goto
<1>3. CASE ArchiveRefused
  BY <1>3 DEF TypeOK, Forced, Clearing, archivePath, ArchiveRefused, Raise, Stop
<1>4. CASE StartDownload
  BY <1>4 DEF TypeOK, Forced, Clearing, archivePath, StartDownload, Goto
<1>5. CASE DownloadSucceeds
  BY <1>5 DEF TypeOK, Forced, Clearing, archivePath, DownloadSucceeds, Received,
     RaiseMishap, Stop
<1>6. CASE DownloadFails
  BY <1>6 DEF TypeOK, Forced, Clearing, archivePath, DownloadFails, LastAttempt,
     RaiseMishap, Stop
<1>7. CASE DecideExtract
  BY <1>7 DEF TypeOK, Forced, Clearing, archivePath, DecideExtract, Goto, Raise, Stop,
     ShouldExtract
<1>8. CASE ExtractArchive
  <2>1. rootfs' = Tree(pinned, "whole")
    BY <1>8, VerifiedOf DEF Trusted, ExtractArchive
  <2> QED BY <1>8, <2>1 DEF Forced, Clearing, archivePath, ExtractArchive, Goto
<1>9. CASE VerifyExpectedFiles
  BY <1>9 DEF TypeOK, Forced, Clearing, archivePath, VerifyExpectedFiles, Goto, Raise, Stop
<1>10. CASE ReadMetadata
  BY <1>10 DEF TypeOK, Forced, Clearing, archivePath, ReadMetadata, Goto, Raise, Stop
<1>11. CASE KeepImage
  BY <1>11 DEF TypeOK, Forced, Clearing, archivePath, KeepImage, Conclude, Goto, Stop,
     ShouldBuildImage
<1>12. CASE ImageNotFound
  BY <1>12 DEF TypeOK, Forced, Clearing, archivePath, ImageNotFound, Raise, Stop
<1>13. CASE BuildRootfsImage
  BY <1>13 DEF TypeOK, Forced, Clearing, archivePath, BuildRootfsImage, Goto
<1>14. CASE MkfsMissing
  BY <1>14 DEF TypeOK, Forced, Clearing, archivePath, MkfsMissing, RaiseMishap, Stop
<1>15. CASE MkfsFails
  BY <1>15 DEF TypeOK, Forced, Clearing, archivePath, MkfsFails, RaiseMishap, Stop
<1>16. CASE MkfsWorks
  BY <1>16 DEF TypeOK, Forced, Clearing, archivePath, MkfsWorks, Goto
<1>17. CASE WriteImageMetadata
  BY <1>17 DEF TypeOK, Forced, Clearing, archivePath, WriteImageMetadata, Stop
<1>18. CASE Interrupt
  BY <1>18 DEF TypeOK, Forced, Clearing, archivePath, Interrupt, Stop
<1>19. CASE Return
  BY <1>19 DEF TypeOK, Forced, Clearing, archivePath, Return
<1>20. CASE DiskChanges
  BY <1>20 DEF TypeOK, Forced, Clearing, archivePath, DiskChanges
<1>21. CASE UNCHANGED vars
  BY <1>21 DEF TypeOK, Forced, Clearing, archivePath, vars
<1> QED
  BY <1>1, <1>2, <1>3, <1>4, <1>5, <1>6, <1>7, <1>8, <1>9, <1>10, <1>11, <1>12, <1>13,
     <1>14, <1>15, <1>16, <1>17, <1>18, <1>19, <1>20, <1>21 DEF Next, Step

(***************************************************************************)
(* --force heals: whatever was on disk, an ok of such a run stands for a   *)
(* complete directory and an image made of it.                             *)
(***************************************************************************)
THEOREM ForceHeals == Spec => []ForcedMeansCurrent
<1>1. Init => Forced BY DEF Init, Forced, Clearing
<1>2. Forced => ForcedMeansCurrent BY DEF Forced, ForcedMeansCurrent, Ok
<1> QED BY <1>1, <1>2, SpecTrusted, NextForced, PTL DEF Spec

----------------------------------------------------------------------------
(* Errors and checks *)

\* What has been promised is there, and only checks have run since.  Checks
\* change nothing, and errors of other runs have a cause.
Kept ==
  /\ phase \in Downloads \cup {"extracting", "mkfs", "write"} => ~flags.check_only
  /\ phase = "write" /\ ~flags.no_build_image => image # Missing
  /\ promised # "nothing" =>
       /\ Verified /\ ExpectedFiles /\ ValidMetadata
       /\ promised = "image" => image # Missing
       /\ phase \in Busy => flags.check_only
  /\ CheckOnlyAgrees
  /\ ErrorsHaveCause

USE DEF CheckOnlyAgrees, ErrorsHaveCause

LEMMA NextKept ==
  ASSUME TypeOK, Trusted, Kept, [Next]_vars
  PROVE  Kept'
<1>1. ASSUME NEW f \in Flags, PrepareRootfs(f) PROVE Kept'
  <2>1. CASE f.check_only
    BY <1>1, <2>1
    DEF Kept, Verified, ExpectedFiles, ValidMetadata, archivePath, PrepareRootfs, Clearing
  <2>2. CASE ~f.check_only
    BY <1>1, <2>2 DEF Kept, PrepareRootfs
  <2> QED BY <2>1, <2>2
<1>2. CASE ArchiveVerified
  BY <1>2 DEF Kept, Verified, ExpectedFiles, ValidMetadata, archivePath, ArchiveVerified, Goto
<1>3. CASE ArchiveRefused
  BY <1>3 DEF Kept, Verified, ExpectedFiles, ValidMetadata, archivePath, ArchiveRefused,
     Raise, Stop
<1>4. CASE StartDownload
  BY <1>4 DEF Kept, Verified, ExpectedFiles, ValidMetadata, archivePath, StartDownload, Goto
<1>5. CASE DownloadSucceeds
  BY <1>5 DEF Kept, Verified, ExpectedFiles, ValidMetadata, archivePath, DownloadSucceeds,
     Received, RaiseMishap, Stop
<1>6. CASE DownloadFails
  BY <1>6 DEF Kept, Verified, ExpectedFiles, ValidMetadata, archivePath, DownloadFails,
     LastAttempt, RaiseMishap, Stop
<1>7. CASE DecideExtract
  BY <1>7 DEF Kept, Verified, ExpectedFiles, ValidMetadata, archivePath, DecideExtract,
     Goto, Raise, Stop, ShouldExtract, Tree, Missing
<1>8. CASE ExtractArchive
  BY <1>8 DEF Kept, Verified, ExpectedFiles, ValidMetadata, archivePath, ExtractArchive, Goto
<1>9. CASE VerifyExpectedFiles
  BY <1>9 DEF Kept, Verified, ExpectedFiles, ValidMetadata, archivePath,
     VerifyExpectedFiles, Goto, Raise, Stop
<1>10. CASE ReadMetadata
  BY <1>10, Values DEF Kept, Verified, ExpectedFiles, ValidMetadata, archivePath,
     ReadMetadata, Goto, Raise, Stop
<1>11. CASE KeepImage
  BY <1>11 DEF Kept, Verified, ExpectedFiles, ValidMetadata, archivePath, KeepImage,
     Conclude, Goto, Stop, ShouldBuildImage
<1>12. CASE ImageNotFound
  BY <1>12 DEF Kept, Verified, ExpectedFiles, ValidMetadata, archivePath, ImageNotFound,
     Raise, Stop
<1>13. CASE BuildRootfsImage
  BY <1>13 DEF Kept, Verified, ExpectedFiles, ValidMetadata, archivePath, BuildRootfsImage, Goto
<1>14. CASE MkfsMissing
  BY <1>14 DEF Kept, Verified, ExpectedFiles, ValidMetadata, archivePath, MkfsMissing,
     RaiseMishap, Stop
<1>15. CASE MkfsFails
  BY <1>15 DEF Kept, Verified, ExpectedFiles, ValidMetadata, archivePath, MkfsFails,
     RaiseMishap, Stop
<1>16. CASE MkfsWorks
  <2>1. image' # Missing BY <1>16 DEF MkfsWorks, Made, Missing
  <2> QED
    BY <1>16, <2>1 DEF Kept, Verified, ExpectedFiles, ValidMetadata, archivePath,
     MkfsWorks, Goto
<1>17. CASE WriteImageMetadata
  <2>1. Verified /\ ExpectedFiles BY <1>17 DEF Trusted, WriteImageMetadata
  <2>2. metadata' \in Records /\ metadata'.archive = archivePath
    BY <1>17, Values, ArchivePathType DEF TypeOK, WriteImageMetadata, Record
  <2> QED
    BY <1>17, <2>1, <2>2
    DEF Kept, Verified, ExpectedFiles, ValidMetadata, archivePath, WriteImageMetadata, Stop
<1>18. CASE Interrupt
  BY <1>18 DEF Kept, Verified, ExpectedFiles, ValidMetadata, archivePath, Interrupt, Stop
<1>19. CASE Return
  BY <1>19 DEF Kept, Verified, ExpectedFiles, ValidMetadata, archivePath, Return
<1>20. CASE DiskChanges
  BY <1>20 DEF Kept, Verified, ExpectedFiles, ValidMetadata, archivePath, DiskChanges
<1>21. CASE UNCHANGED vars
  BY <1>21 DEF Kept, Verified, ExpectedFiles, ValidMetadata, archivePath, vars
<1> QED
  BY <1>1, <1>2, <1>3, <1>4, <1>5, <1>6, <1>7, <1>8, <1>9, <1>10, <1>11, <1>12, <1>13,
     <1>14, <1>15, <1>16, <1>17, <1>18, <1>19, <1>20, <1>21 DEF Next, Step

LEMMA SpecKept == Spec => []Kept
<1>1. Init => Kept BY DEF Init, Kept
<1> QED BY <1>1, SpecTrusted, NextKept, PTL DEF Spec

(***************************************************************************)
(* After a run that was ok, the check with the same flags is ok until      *)
(* somebody changes something.                                             *)
(***************************************************************************)
THEOREM ChecksAgree == Spec => []CheckOnlyAgrees
<1>1. Kept => CheckOnlyAgrees BY DEF Kept
<1> QED BY <1>1, SpecKept, PTL

(***************************************************************************)
(* Nothing that earlier runs, kills or damage left on disk makes a         *)
(* preparing run fail, except a record that cannot be decoded.             *)
(***************************************************************************)
THEOREM ErrorsAlwaysHaveCause == Spec => []ErrorsHaveCause
<1>1. Kept => ErrorsHaveCause BY DEF Kept
<1> QED BY <1>1, SpecKept, PTL
----------------------------------------------------------------------------
(* Every run ends *)

\* The attempts of the stage a run is in.
Tries == IF phase \in Downloads THEN attempt ELSE 0

\* However many attempts are left in a stage, the next stage is nearer the end.
LEMMA StageLess ==
  ASSUME NEW s \in 0..13, NEW t \in 0..13, t < s,
         NEW a \in 0..MaxAttempts, NEW b \in 0..MaxAttempts, t = 0 => b = 0
  PROVE  t * (MaxAttempts + 1) - b \in 0..(s * (MaxAttempts + 1) - a - 1)
<1>1. MaxAttempts \in Nat BY AttemptsAssumption
<1>2. (s - t - 1) * (MaxAttempts + 1) >= 0
  <2>1. s - t - 1 \in Nat OBVIOUS
  <2> QED BY <1>1, <2>1
<1>3. s * (MaxAttempts + 1) = t * (MaxAttempts + 1) + (MaxAttempts + 1)
                                + (s - t - 1) * (MaxAttempts + 1)
  BY <1>1
<1>4. t * (MaxAttempts + 1) >= b
  <2>1. CASE t = 0 BY <1>1, <2>1
  <2>2. CASE t > 0
    <3>1. (t - 1) * (MaxAttempts + 1) >= 0
      <4>1. t - 1 \in Nat BY <2>2
      <4> QED BY <1>1, <4>1
    <3>2. t * (MaxAttempts + 1) = (t - 1) * (MaxAttempts + 1) + MaxAttempts + 1 BY <1>1
    <3> QED BY <1>1, <3>1, <3>2
  <2> QED BY <2>1, <2>2
<1>5. t * (MaxAttempts + 1) \in Int /\ s * (MaxAttempts + 1) \in Int BY <1>1
<1> DEFINE x == t * (MaxAttempts + 1)
           y == s * (MaxAttempts + 1)
           z == (s - t - 1) * (MaxAttempts + 1)
<1>6. x \in Int /\ y \in Int /\ z \in Int /\ z >= 0 /\ y = x + (MaxAttempts + 1) + z /\ x >= b
  BY <1>1, <1>2, <1>3, <1>4, <1>5
<1> HIDE DEF x, y, z
<1>7. x - b \in 0..(y - a - 1) BY <1>1, <1>6
<1> QED BY <1>7 DEF x, y

\* Every step of a run reaches a stage nearer its end, or is an attempt more.
StageFalls ==
  \/ Stage' < Stage
  \/ Stage' = Stage /\ phase \in Downloads /\ phase' = phase /\ attempt' = attempt + 1

LEMMA NextStage ==
  ASSUME TypeOK, Trusted, Next, phase \in Busy
  PROVE  StageFalls
<1> USE DEF Stage, StageFalls, Verified, archivePath
<1>1. ASSUME NEW f \in Flags, PrepareRootfs(f) PROVE StageFalls
  BY <1>1 DEF PrepareRootfs
<1>2. CASE ArchiveVerified
  BY <1>2 DEF ArchiveVerified, Goto
<1>3. CASE ArchiveRefused
  BY <1>3 DEF ArchiveRefused, Raise, Stop
<1>4. CASE StartDownload
  BY <1>4 DEF StartDownload, Goto
<1>5. CASE DownloadSucceeds
  <2>1. PICK bytes \in {Damaged, Genuine(pinned)} : Received(bytes)
    BY <1>5 DEF DownloadSucceeds
  <2>2. archivePath \in Names /\ archive \in [Names -> Archives]
    BY ArchivePathType DEF TypeOK
  <2>3. UNCHANGED pinned /\ phase \in Downloads BY <1>5 DEF DownloadSucceeds
  <2>4. bytes # Missing BY <2>1 DEF Damaged, Genuine, Missing
  <2>5. CASE phase = "download"
    BY <2>1, <2>2, <2>3, <2>4, <2>5 DEF Received
  <2>6. CASE phase = "redownload" /\ bytes = Genuine(pinned)
    BY <2>1, <2>2, <2>3, <2>6 DEF Received
  <2>7. CASE phase = "redownload" /\ bytes # Genuine(pinned)
    BY <2>1, <2>3, <2>7 DEF Received, RaiseMishap, Stop
  <2> QED BY <2>3, <2>5, <2>6, <2>7
<1>6. CASE DownloadFails
  BY <1>6 DEF DownloadFails, RaiseMishap, Stop
<1>7. CASE DecideExtract
  BY <1>7 DEF DecideExtract, Goto, Raise, Stop
<1>8. CASE ExtractArchive
  <2>1. rootfs' = Tree(pinned, "whole") BY <1>8, VerifiedOf DEF Trusted, ExtractArchive
  <2>2. ExpectedFiles' BY <1>8, <2>1 DEF ExpectedFiles, ExtractArchive
  <2> QED BY <1>8, <2>2 DEF ExtractArchive, Goto
<1>9. CASE VerifyExpectedFiles
  BY <1>9 DEF VerifyExpectedFiles, Goto, Raise, Stop
<1>10. CASE ReadMetadata
  BY <1>10 DEF ReadMetadata, Goto, Raise, Stop
<1>11. CASE KeepImage
  BY <1>11 DEF KeepImage, Conclude, Goto, Stop
<1>12. CASE ImageNotFound
  BY <1>12 DEF ImageNotFound, Raise, Stop
<1>13. CASE BuildRootfsImage
  BY <1>13 DEF BuildRootfsImage, Goto
<1>14. CASE MkfsMissing
  BY <1>14 DEF MkfsMissing, RaiseMishap, Stop
<1>15. CASE MkfsFails
  BY <1>15 DEF MkfsFails, RaiseMishap, Stop
<1>16. CASE MkfsWorks
  BY <1>16 DEF MkfsWorks, Goto
<1>17. CASE WriteImageMetadata
  BY <1>17 DEF WriteImageMetadata, Stop
<1>18. CASE Interrupt
  BY <1>18 DEF Interrupt, Stop
<1>19. CASE Return
  BY <1>19 DEF Return
<1>20. CASE DiskChanges
  BY <1>20 DEF DiskChanges
<1> QED
  BY <1>1, <1>2, <1>3, <1>4, <1>5, <1>6, <1>7, <1>8, <1>9, <1>10, <1>11, <1>12, <1>13,
     <1>14, <1>15, <1>16, <1>17, <1>18, <1>19, <1>20 DEF Next, Step

LEMMA StepsLeftFalls ==
  ASSUME TypeOK, TypeOK', Trusted, Next, phase \in Busy
  PROVE  StepsLeft' \in 0..(StepsLeft - 1)
<1>1. Stage \in 0..13 /\ Stage' \in 0..13 /\ (phase' \in Busy => Stage' > 0)
  BY DEF Stage
<1>2. /\ Tries \in 0..MaxAttempts /\ Tries' \in 0..MaxAttempts
      /\ Stage' = 0 => Tries' = 0
      /\ MaxAttempts \in Nat
  BY <1>1, AttemptsAssumption DEF TypeOK, Tries
<1>3. /\ StepsLeft = Stage * (MaxAttempts + 1) - Tries
      /\ StepsLeft' = Stage' * (MaxAttempts + 1) - Tries'
  BY DEF StepsLeft, Tries
<1>4. CASE Stage' < Stage
  BY <1>1, <1>2, <1>3, <1>4, StageLess
<1>5. CASE Stage' = Stage /\ phase \in Downloads /\ phase' = phase /\ attempt' = attempt + 1
  <2>1. Tries' = Tries + 1 BY <1>5 DEF Tries
  <2> DEFINE x == Stage * (MaxAttempts + 1)
  <2>2. x \in Int /\ x >= MaxAttempts + 1
    <3>1. Stage - 1 \in Nat BY <1>1, <1>5
    <3>2. (Stage - 1) * (MaxAttempts + 1) >= 0 BY <1>2, <3>1
    <3>3. x = (Stage - 1) * (MaxAttempts + 1) + MaxAttempts + 1 BY <1>1, <1>2
    <3> QED BY <1>1, <1>2, <3>2, <3>3
  <2>3. StepsLeft = x - Tries /\ StepsLeft' = x - Tries' BY <1>3, <1>5
  <2> HIDE DEF x
  <2> QED BY <1>2, <2>1, <2>2, <2>3
<1> QED BY <1>4, <1>5, NextStage DEF StageFalls

(***************************************************************************)
(* No run repairs for ever: each step of a run takes it nearer to its end, *)
(* whatever is downloaded and whatever was on disk.                        *)
(***************************************************************************)
THEOREM RunsAlwaysEnd == Spec => RunsEnd
<1>1. TypeOK /\ Trusted /\ TypeOK' /\ [Next]_vars
        => [(phase \in Busy) => StepsLeft' \in 0..(StepsLeft - 1)]_vars
  BY StepsLeftFalls
<1> QED BY <1>1, SpecTrusted, PTL DEF Spec, RunsEnd
=============================================================================
