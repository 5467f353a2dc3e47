------------------------------ MODULE IsoCache ------------------------------
(***************************************************************************)
(* create_and_mount_iso() of pxeboot.py with create_iso_file(), mount_iso() *)
(* and check_files() of common_dpu.py: where the ISO comes from, the copy  *)
(* that is kept on the host's disk, and what ends up mounted.  HostSetup    *)
(* goes on from there, and has the runs one after the other.               *)
(***************************************************************************)
EXTENDS Naturals

\* What a file or a server's answer may hold: an ISO of one of the two kinds;
\* an RHCOS ISO whose efiboot.img is of no use; an ISO with files that cannot
\* be read; the first part of a download; an answer that is no ISO at all.
Contents == {"rhel", "rhcos", "rhcos_without_efi", "unreadable", "partial", "page"}
IsoKinds == {"rhel", "rhcos"}

VARIABLES
  iso,             \* the argument: "rhel:", "url" or "path"
  cfg_iso_kind,    \* --iso-kind
  pc,
  is_retry, cached_http_file,
  iso_kind,        \* the kind that was found, or "none"
  file, tmp,       \* the file at iso2 and the one at iso2_tmp
  mnt,             \* what is mounted at MNT_PATH
  efi,             \* efiboot.img is mounted at MNT_EFIBOOT_PATH
  downloads        \* history: curl calls of this run

argVars == <<iso, cfg_iso_kind>>
diskVars == <<file, tmp>>
mountVars == <<mnt, efi>>
isoVars == <<argVars, is_retry, cached_http_file, iso_kind, diskVars, mountVars, downloads>>

IsoPoints == {"iso", "create", "curl", "mv", "mount", "detect", "nested", "broken"}

IsoTypeOK ==
  /\ iso \in {"rhel:", "url", "path"}
  /\ cfg_iso_kind \in IsoKinds \cup {"auto"}
  /\ is_retry \in BOOLEAN /\ cached_http_file \in BOOLEAN
  /\ iso_kind \in IsoKinds \cup {"none"}
  /\ {file, tmp, mnt} \subseteq Contents \cup {"none"}
  /\ efi \in BOOLEAN
  /\ downloads \in Nat

\* The user's own file, or what is left of earlier runs and of the disk.
IsoInit ==
  /\ iso \in {"rhel:", "url", "path"}
  /\ cfg_iso_kind \in IsoKinds \cup {"auto"}
  /\ is_retry = FALSE /\ cached_http_file = FALSE /\ iso_kind = "none"
  /\ file \in (Contents \ {"partial"}) \cup {"none"}
  /\ tmp = "none" /\ mnt = "none" /\ efi = FALSE
  /\ downloads = 0

-----------------------------------------------------------------------------
\* A mount that an earlier run left behind would keep the outer one busy.
UmountEfiboot ==
  /\ pc = "iso"
  /\ efi' = FALSE
  /\ is_retry' = FALSE
  /\ pc' = "create"
  /\ UNCHANGED <<argVars, cached_http_file, iso_kind, diskVars, mnt, downloads>>

(* create_iso_file() *)

\* "failure to detect URL for RHEL ISO image"; a retry has the URL already.
UrlUnknown ==
  /\ pc = "create" /\ iso = "rhel:" /\ ~is_retry
  /\ pc' = "failed"
  /\ UNCHANGED isoVars

UseCached ==
  /\ pc = "create" /\ iso # "path" /\ ~is_retry /\ file # "none"
  /\ cached_http_file' = TRUE
  /\ pc' = "mount"
  /\ UNCHANGED <<argVars, is_retry, iso_kind, diskVars, mountVars, downloads>>

\* Mutant: curl writes to the place of the file.
CurlInPlace ==
  /\ pc = "create" /\ iso # "path" /\ (is_retry \/ file = "none")
  /\ cached_http_file' = FALSE
  /\ downloads' = downloads + 1
  /\ file' = "partial"
  /\ pc' = "curl"
  /\ UNCHANGED <<argVars, is_retry, iso_kind, tmp, mountVars>>

Curl ==
  /\ pc = "create" /\ iso # "path" /\ (is_retry \/ file = "none")
  /\ cached_http_file' = FALSE
  /\ downloads' = downloads + 1
  /\ tmp' = "partial"
  /\ pc' = "curl"
  /\ UNCHANGED <<argVars, is_retry, iso_kind, file, mountVars>>

\* Without --fail the error page of a server is as good as an ISO.
CurlDone ==
  /\ pc = "curl"
  /\ tmp' \in Contents \ {"partial"}
  /\ pc' = "mv"
  /\ UNCHANGED <<argVars, is_retry, cached_http_file, iso_kind, file, mountVars, downloads>>

CurlFails ==
  /\ pc = "curl"
  /\ pc' = "failed"
  /\ UNCHANGED isoVars

Mv ==
  /\ pc = "mv"
  /\ file' = tmp /\ tmp' = "none"
  /\ pc' = "mount"
  /\ UNCHANGED <<argVars, is_retry, cached_http_file, iso_kind, mountVars, downloads>>

UsePath ==
  /\ pc = "create" /\ iso = "path"
  /\ cached_http_file' = FALSE
  /\ pc' = IF file = "none" THEN "failed" ELSE "mount"
  /\ UNCHANGED <<argVars, is_retry, iso_kind, diskVars, mountVars, downloads>>

-----------------------------------------------------------------------------
(* mount_iso(), detect_from_iso() and mount_nested_iso() *)

\* Mutant: what is mounted already stays.
MountOver ==
  /\ pc = "mount"
  /\ mnt' = IF mnt # "none" THEN mnt ELSE IF file = "page" THEN "none" ELSE file
  /\ pc' = IF mnt' = "none" THEN "broken" ELSE "detect"
  /\ UNCHANGED <<argVars, is_retry, cached_http_file, iso_kind, diskVars, efi, downloads>>

\* The first part of an ISO can be mounted, and so can one with bad files.
Mount ==
  /\ pc = "mount"
  /\ mnt' = IF file = "page" THEN "none" ELSE file
  /\ pc' = IF file = "page" THEN "broken" ELSE "detect"
  /\ UNCHANGED <<argVars, is_retry, cached_http_file, iso_kind, diskVars, efi, downloads>>

\* The kind whose files are all there and can be read.  Of a partial ISO these
\* files may be there and the others not.
KindsFound ==
  CASE mnt \in IsoKinds -> {mnt}
    [] mnt = "rhcos_without_efi" -> {"rhcos"}
    [] mnt = "partial" -> IsoKinds
    [] OTHER -> {}

Asked(kind) == cfg_iso_kind \in {"auto", kind}

\* Mutant: the kind is what the ISO calls itself.
DetectByName ==
  /\ pc = "detect"
  /\ iso_kind' = mnt
  /\ pc' = IF mnt = "rhcos" THEN "nested" ELSE "mounted"
  /\ UNCHANGED <<argVars, is_retry, cached_http_file, diskVars, mountVars, downloads>>

Detect ==
  /\ pc = "detect"
  /\ \E kind \in KindsFound :
       /\ Asked(kind)
       /\ iso_kind' = kind
       /\ pc' = IF kind = "rhcos" THEN "nested" ELSE "mounted"
  /\ UNCHANGED <<argVars, is_retry, cached_http_file, diskVars, mountVars, downloads>>

DetectNothing ==
  /\ pc = "detect"
  /\ mnt = "partial" \/ \A kind \in KindsFound : ~Asked(kind)
  /\ mnt' = "none"
  /\ pc' = "broken"
  /\ UNCHANGED <<argVars, is_retry, cached_http_file, iso_kind, diskVars, efi, downloads>>

MountNested ==
  /\ pc = "nested" /\ mnt \in {"rhcos", "partial"}
  /\ efi' = TRUE
  /\ pc' = "mounted"
  /\ UNCHANGED <<argVars, is_retry, cached_http_file, iso_kind, diskVars, mnt, downloads>>

\* "Failure to mount efiboot image" and "Cannot find expected files"
NestedFails ==
  /\ pc = "nested" /\ mnt \in {"rhcos_without_efi", "partial"}
  /\ efi' \in BOOLEAN
  /\ pc' = "failed"
  /\ UNCHANGED <<argVars, is_retry, cached_http_file, iso_kind, diskVars, mnt, downloads>>

\* Mutant: the second attempt is not remembered.
RetryForgotten ==
  /\ pc = "broken"
  /\ pc' = IF iso = "path" THEN "failed" ELSE "create"
  /\ is_retry' = (iso # "path")
  /\ UNCHANGED <<argVars, cached_http_file, iso_kind, diskVars, mountVars, downloads>>

\* A file that was on disk may be broken: download it once.
RetryIso ==
  /\ pc = "broken"
  /\ IF is_retry \/ ~cached_http_file
     THEN pc' = "failed" /\ UNCHANGED is_retry
     ELSE pc' = "create" /\ is_retry' = TRUE
  /\ UNCHANGED <<argVars, cached_http_file, iso_kind, diskVars, mountVars, downloads>>

IsoNext ==
  \/ UmountEfiboot
  \/ UrlUnknown \/ UseCached \/ Curl \/ CurlDone \/ CurlFails \/ Mv \/ UsePath
  \/ Mount \/ Detect \/ DetectNothing \/ MountNested \/ NestedFails \/ RetryIso

-----------------------------------------------------------------------------
\* However often a run is killed, the file on disk is never the first part of a
\* download: the next run would take it, as nobody reads all of an ISO.
CacheWhole == file # "partial"

\* What the services offer is the file as it is on disk now, re-downloaded or
\* not, with the nested image of the same ISO.
MountedIsFile ==
  pc = "mounted" => mnt = file /\ iso_kind = mnt /\ (efi <=> iso_kind = "rhcos")

\* A run downloads the ISO once at most, a broken one in the cache or not.
DownloadsOnce == downloads <= 1

\* A broken file that was found on disk is not fatal: it is downloaded again.
BrokenCacheIsNotFatal ==
  pc = "failed" /\ cached_http_file => is_retry
=============================================================================
