------------------------------- MODULE ImageCache -------------------------------
(* The cached base image of one source on one node's storage: worker.py        *)
(* 443-551, 1011-1032, image_cache.py, proxmox.py 65-88, 400-450.  One worker  *)
(* runs the jobs; a download is a task of the node, which may outlive the      *)
(* worker, and its file outlives both.                                         *)
EXTENDS Integers, FiniteSets

CONSTANTS
  Base,       \* base_disk_filename: the name made of URL and checksum
  Fresh,      \* names of refreshes, which have a random part
  MaxImageJobs,    \* bound: jobs begun
  Faults      \* which of "unreadable" (a listing) and "record" (a commit) may happen

ASSUME BaseNotFresh == Base \notin Fresh
ASSUME MaxJobsNatural == MaxImageJobs \in Nat
ASSUME KnownFaults == Faults \subseteq {"unreadable", "record"}

VARIABLES
  checksummed, \* whether the source declares a checksum
  file,        \* the volumes of the storage
  marker,      \* image_cache_validation settings
  active,      \* image_cache_active setting
  worker,      \* place and filename of the job that runs
  orphans,     \* files that downloads write which nobody waits for any longer
  taken,       \* names made so far
  jobs,        \* how many jobs were begun
  used         \* files that were handed to an import

images == <<checksummed, file, marker, active, worker, orphans, taken, jobs, used>>

Names == {Base} \cup Fresh
Resting == [pc |-> "idle", name |-> Base]

\* An image of an earlier version may be there; it has no marker.
ImagesInit ==
  /\ checksummed \in BOOLEAN
  /\ file \in {[n \in Names |-> "absent"], [n \in Names |-> IF n = Base THEN "complete" ELSE "absent"]}
  /\ marker = [n \in Names |-> "none"]
  /\ active = Base
  /\ worker = Resting
  /\ orphans = {} /\ taken = {Base} /\ jobs = 0 /\ used = {}

AtWork(pc) == worker.pc = pc
Proceed(pc) == worker' = [worker EXCEPT !.pc = pc]
Rest == worker' = Resting
With(pc, n) == worker' = [pc |-> pc, name |-> n] /\ taken' = taken \cup {n}

\* A name with a new random part
IsNew(n) == n \in Names \ taken

\* A deploy, rebuild or synchronisation begins; force_refresh keeps what is there.
BeginJob ==
  /\ AtWork("idle") /\ jobs < MaxImageJobs
  /\ jobs' = jobs + 1
  /\ \/ With("look", active)
     \/ \E n \in Names : IsNew(n) /\ With("look", n)
  /\ UNCHANGED <<checksummed, file, marker, active, orphans, used>>

Distrusted(n) == (checksummed /\ marker[n] # "verified") \/ marker[n] = "untrusted"

\* storage_has_volume and the decision on what it finds
Look ==
  LET n == worker.name
      seen == file[n] # "absent"
  IN
  /\ AtWork("look")
  /\ \/ seen /\ ~Distrusted(n) /\ Proceed("use") /\ UNCHANGED taken
     \/ seen /\ Distrusted(n) /\ \E k \in Names : IsNew(k) /\ With("distrust", k)
     \/ (~seen \/ "unreadable" \in Faults) /\ Proceed("distrust") /\ UNCHANGED taken
  /\ UNCHANGED <<checksummed, file, marker, active, orphans, jobs, used>>

\* Mutant of Mark: the marker is left as it is until the download has ended.
MarkLater(n) == marker

\* Distrust is committed before any work is submitted.
Mark(n) == [marker EXCEPT ![n] = "untrusted"]
Distrust ==
  /\ AtWork("distrust")
  /\ marker' = Mark(worker.name)
  /\ Proceed("submit")
  /\ UNCHANGED <<checksummed, file, active, orphans, taken, jobs, used>>

\* download_url is accepted, or refused, or its answer is lost.
SubmitDownload ==
  /\ AtWork("submit")
  /\ \/ file[worker.name] = "absent" /\ Proceed("wait") /\ UNCHANGED orphans
     \/ file[worker.name] = "absent" /\ Proceed("discard") /\ orphans' = orphans \cup {worker.name}
     \/ Proceed("discard") /\ UNCHANGED orphans
  /\ UNCHANGED <<checksummed, file, marker, active, taken, jobs, used>>

\* A download puts its file in place when it is complete; one that fails may leave a part.
Downloaded(n, good) ==
  IF good THEN file' = [file EXCEPT ![n] = "complete"]
  ELSE \E left \in {"absent", "partial"} :
         file' = [file EXCEPT ![n] = IF @ = "absent" THEN left ELSE @]

WaitEnds ==
  /\ AtWork("wait")
  /\ \E good \in BOOLEAN :
       /\ Downloaded(worker.name, good)
       /\ Proceed(IF good THEN "verify" ELSE "discard")
  /\ UNCHANGED <<checksummed, marker, active, orphans, taken, jobs, used>>

OrphanEnds(n) ==
  /\ n \in orphans
  /\ orphans' = orphans \ {n}
  /\ \E good \in BOOLEAN : Downloaded(n, good)
  /\ UNCHANGED <<checksummed, marker, active, worker, taken, jobs, used>>

\* wait_task is canceled, times out or loses the node; the task is stopped or goes on.
WaitFails ==
  /\ AtWork("wait")
  /\ orphans' \in {orphans, orphans \cup {worker.name}}
  /\ Proceed("discard")
  /\ UNCHANGED <<checksummed, file, marker, active, taken, jobs, used>>

\* Two commits: the marker, then record_download.
Verify ==
  /\ AtWork("verify")
  /\ \/ marker' = [marker EXCEPT ![worker.name] = "verified"] /\ Proceed("record")
     \/ "record" \in Faults /\ Proceed("discard") /\ UNCHANGED marker
  /\ UNCHANGED <<checksummed, file, active, orphans, taken, jobs, used>>
Record ==
  /\ AtWork("record")
  /\ \/ active' = worker.name /\ Proceed("use")
     \/ "record" \in Faults /\ Proceed("discard") /\ UNCHANGED active
  /\ UNCHANGED <<checksummed, file, marker, orphans, taken, jobs, used>>

\* Mutant of Leftover: what goes is the image that deploys import.
ActiveImage == active

Leftover == worker.name

\* _discard_base_disk, best effort
Discard ==
  /\ AtWork("discard")
  /\ file' \in {file, [file EXCEPT ![Leftover] = "absent"]}
  /\ Rest
  /\ UNCHANGED <<checksummed, marker, active, orphans, taken, jobs, used>>

\* The job imports the file, or is content that it is there.
Use ==
  /\ AtWork("use")
  /\ used' = used \cup {worker.name}
  /\ Rest
  /\ UNCHANGED <<checksummed, file, marker, active, orphans, taken, jobs>>

\* The process dies; what it waited for goes on.
Crash ==
  /\ ~AtWork("idle")
  /\ orphans' = orphans \cup IF AtWork("wait") THEN {worker.name} ELSE {}
  /\ Rest
  /\ UNCHANGED <<checksummed, file, marker, active, taken, jobs, used>>

ImagesNext ==
  \/ BeginJob \/ Look \/ Distrust \/ SubmitDownload \/ WaitEnds \/ WaitFails
  \/ Verify \/ Record \/ Discard \/ Use \/ Crash
  \/ \E n \in Names : OrphanEnds(n)

ImagesSpec == ImagesInit /\ [][ImagesNext]_images

--------------------------------------------------------------------------------
ImagesTypeOK ==
  /\ checksummed \in BOOLEAN
  /\ file \in [Names -> {"absent", "partial", "complete"}]
  /\ marker \in [Names -> {"none", "untrusted", "verified"}]
  /\ active \in Names
  /\ worker \in [pc : {"idle", "look", "distrust", "submit", "wait", "verify", "record", "discard", "use"},
                 name : Names]
  /\ orphans \subseteq Names /\ taken \subseteq Names /\ used \subseteq Names
  /\ jobs \in 0..MaxImageJobs

\* "cancellation, process death, task failure, or checksum mismatch can then never make a
\* leftover reusable" (worker.py 509-510): a job imports complete files only, and of a
\* source with a checksum only what a task of this installation has verified.
UsedIsComplete ==
  AtWork("use") => /\ file[worker.name] = "complete"
                   /\ checksummed => marker[worker.name] = "verified"

\* "Keep every previously usable volume intact" (worker.py 489): a file that an import may
\* still read, or an older VM refer to, is neither removed nor damaged by later jobs,
\* refreshes, failures and late downloads.
UsedStays == [][\A n \in used : file[n] = "complete" => file'[n] = "complete"]_images
================================================================================
