------------------------------ MODULE Downloads ------------------------------
(* What the download page offers: the releases found under public/downloads
   (lib/releases/local.ts), and what components/DownloadSection.tsx derives from
   them, from the browser and from the reader's choices; and the release that
   components/SiteFooter.tsx names, which it finds for itself.

   A directory is [tag, release, notes, files, sums, signed]: its tag, whether
   its name starts with "v", whether it has a VERSION.txt, its other files in
   the order they are read, which of them a .sha256 file lists, and the checksum
   bundle's files.  A tag is [version, rank]: its three numbers, or None when
   it is not plain vX.Y.Z, and its place among the tags in locale order.  The
   name of a file is [prefix, role, tag, target, ext], the parts it is put
   together from.  Hashes, sizes and dates are left out, and the name of a file
   is taken to be found in its own .sha256 file. *)
EXTENDS Integers, Sequences, SequencesExt

CONSTANT None

Roles == {"inside", "outside"}
Signing == {"checksums.txt", "checksums.sig", "checksums.pub"}

-----------------------------------------------------------------------------
(* local.ts *)

Older(a, b) ==
    IF a.version = None \/ b.version = None THEN a.rank < b.rank
    ELSE \E i \in 1 .. 3 :
           /\ a.version[i] < b.version[i]
           /\ \A j \in 1 .. i - 1 : a.version[j] = b.version[j]

Kind(name) ==
    IF name.ext \in {".tar.gz", ".zip"} THEN name.ext ELSE "bin"

(* What is left of a name after the tag, an ending of an archive taken off. *)
TargetOf(name) ==
    IF Kind(name) = "bin" /\ name.ext # "" THEN name.target \o name.ext ELSE name.target

RoleAndTarget(tag, name) ==
    LET role == IF name.prefix = "" THEN None ELSE name.role
    IN [role |-> role,
        target |-> IF role # None /\ name.tag = tag THEN TargetOf(name) ELSE None]

Artifact(dir, name) ==
    [name |-> name, kind |-> Kind(name), sum |-> name \in dir.sums, from |-> dir.tag,
     role |-> RoleAndTarget(dir.tag, name).role,
     target |-> RoleAndTarget(dir.tag, name).target]

Release(dir) ==
    [tag |-> dir.tag, signed |-> dir.signed,
     artifacts |-> [i \in DOMAIN dir.files |-> Artifact(dir, dir.files[i])]]

(* Newest first.  One directory that cannot be read hides all releases. *)
Releases(store) ==
    LET dirs == {d \in store.dirs : d.release}
    IN IF store.unreadable THEN <<>>
       ELSE Reverse(SetToSortSeq({Release(d) : d \in dirs}, LAMBDA r, s : Older(r.tag, s.tag)))

(* SiteFooter.tsx: the last of the directories, if it has a VERSION.txt. *)
FooterRelease(store) ==
    LET dirs == {d \in store.dirs : d.release}
        last == {d \in dirs : \A e \in dirs \ {d} : Older(e.tag, d.tag)}
    IN IF last = {} \/ \A d \in last : ~d.notes THEN None
       ELSE (CHOOSE d \in last : TRUE).tag

-----------------------------------------------------------------------------
(* The browser: useOsDetection.ts and detectArchFromNavigator *)

(* What its user agent names first, in the order the code asks. *)
DetectedOS(browser) ==
    LET asked == SelectSeq(<<"android", "ios", "windows", "macos", "linux">>,
                           LAMBDA os : os \in browser.names)
    IN IF asked = <<>> THEN "unknown" ELSE Head(asked)

(* Until the effects of the page have run, nothing is known of it.  Every
   system the code can name it names with confidence enough. *)
Detection(page) == IF page.ready THEN DetectedOS(page.browser) ELSE "unknown"
SupportsAuto(page) == Detection(page) # "unknown"

PickPlatform(os, arch) ==
    CASE os = "android" -> "android"
      [] os = "linux" /\ arch = "arm64" -> "linux-arm64"
      [] os = "linux" /\ arch = "amd64" -> "linux-amd64"
      [] OTHER -> "unknown"

AutoPlatform(page) ==
    IF SupportsAuto(page) THEN PickPlatform(Detection(page), page.browser.arch) ELSE "unknown"

Platforms == {"linux-amd64", "linux-arm64", "raspberrypi-arm64", "android", "source"}

(* The reader's choice goes before what was detected. *)
Platform(page) == IF page.manual # "unknown" THEN page.manual ELSE AutoPlatform(page)

-----------------------------------------------------------------------------
(* The recommendation *)

First(s) == IF s = <<>> THEN None ELSE Head(s)

(* The release picked, or the newest. *)
Selected(releases, page) ==
    First(SelectSeq(releases, LAMBDA r : r.tag = page.tag) \o releases)

Mentions(name, target) == name.target = target

FindArtifact(release, role, target) ==
    LET exact == SelectSeq(release.artifacts, LAMBDA a : a.role = role /\ a.target = target)
        mentioned == SelectSeq(release.artifacts,
                               LAMBDA a : a.role = role /\ Mentions(a.name, target))
    IN First(exact \o mentioned)

(* app-release.apk, and a name that ends in -app-release.apk. *)
AppRelease == {"app-release", "android-app-release"}

Apk(release) ==
    LET apks == SelectSeq(release.artifacts,
                          LAMBDA a : a.name.ext = ".apk" /\ a.name.target \in AppRelease)
    IN IF apks # <<>> THEN First(apks) ELSE FindArtifact(release, "inside", "android-arm64")

(* Faulty variant: the role is forgotten. *)
RecommendedInside(release, page) ==
    IF release = None THEN None
    ELSE CASE Platform(page) = "linux-amd64" -> FindArtifact(release, "inside", "linux-amd64")
           [] Platform(page) \in {"linux-arm64", "raspberrypi-arm64"} ->
                FindArtifact(release, "inside", "linux-arm64")
           [] Platform(page) = "android" -> Apk(release)
           [] OTHER -> None

Recommended(release, page) ==
    IF release = None THEN None
    ELSE CASE Platform(page) = "linux-amd64" -> FindArtifact(release, page.role, "linux-amd64")
           [] Platform(page) \in {"linux-arm64", "raspberrypi-arm64"} ->
                FindArtifact(release, page.role, "linux-arm64")
           [] Platform(page) = "android" /\ page.role = "inside" -> Apk(release)
           [] OTHER -> None

Support(page) ==
    CASE Platform(page) = "android" /\ page.role = "inside" -> "experimental"
      [] Platform(page) = "raspberrypi-arm64" -> "experimental"
      [] Platform(page) \in {"linux-amd64", "linux-arm64"} -> "stable"
      [] OTHER -> "unsupported"

(* The card of a platform in the grid, which has code of its own. *)
Card(release, page, platform) ==
    IF release = None THEN None
    ELSE CASE platform = "source" -> None
           [] platform = "android" -> IF page.role = "inside" THEN Apk(release) ELSE None
           [] platform = "raspberrypi-arm64" -> FindArtifact(release, "inside", "linux-arm64")
           [] OTHER -> FindArtifact(release, page.role, platform)

-----------------------------------------------------------------------------
(* The commands: what "1) Download" leaves in the directory, and what "2)
   Verify" and "3) Install" open: files, .sha256 files and the checksum bundle.
   sha256sum also opens the file that the .sha256 file names. *)

ApkName == [prefix |-> "", role |-> None, tag |-> None, target |-> "app-release", ext |-> ".apk"]

(* Faulty variant: the signing key is not downloaded. *)
FetchedWithoutKey(release, a, name) ==
    [files |-> {name}, sums |-> IF a.sum THEN {name} ELSE {},
     bundle |-> release.signed \ {"checksums.pub"}]

(* What the release lacks leaves a placeholder, that fetches nothing. *)
Fetched(release, a, name) ==
    [files |-> {name}, sums |-> IF a.sum THEN {name} ELSE {}, bundle |-> release.signed]

Commands(release, page) ==
    LET a == Recommended(release, page)
        android == Platform(page) = "android"
        local == IF android THEN ApkName ELSE a.name
        bundle == IF ~android \/ Signing \subseteq release.signed THEN Signing ELSE {}
    IN IF a = None \/ ~page.ready THEN None
       ELSE [download |-> Fetched(release, a, local),
             opened |-> [files |-> {a.name, local}, sums |-> {local}, bundle |-> bundle]]

(* What the panel says of the recommended artifact and its release. *)
Verified(release, page) ==
    LET a == Recommended(release, page)
    IN [checksum |-> a # None /\ a.sum, signature |-> release # None /\ Signing \subseteq release.signed]
=============================================================================
