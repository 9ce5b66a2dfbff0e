------------------------------ MODULE BackupStore ------------------------------
(* What the backups of app/backup.py promise to somebody who restores one: a   *)
(* directory of whole snapshots.  A new one is the newest by name and by       *)
(* content, and one is dropped only when enough newer ones are there.  What a  *)
(* loss of power leaves depends on whether the directory could be flushed.     *)
EXTENDS Integers, FiniteSets

CONSTANT Keep   \* GOBLINDOCK_BACKUP_KEEP

VARIABLES
  seen,   \* the backups in the directory
  firm,   \* those that the last flush of it, or loss of power, left on the disk
  doubt   \* whether a backup that can be seen was never flushed

Newer(b, s) == {c \in s : c.name > b.name}
\* _rotate keeps max(1, keep)
Kept == IF Keep < 1 THEN 1 ELSE Keep

StoreInit == seen = {} /\ firm = {} /\ doubt = FALSE

\* Those that appear are newer than all that were there; those that vanish are
\* outnumbered by newer ones that stay.
Renewed(old, new) == \A b \in new \ old, c \in old : c.name < b.name /\ c.version <= b.version
Turnover(old, new) ==
  /\ Renewed(old, new)
  /\ \A c \in old \ new : Cardinality(Newer(c, new)) >= Kept

\* The process publishes and rotates; when it dies nothing changes.
Turn == Turnover(seen, seen') /\ UNCHANGED <<firm, doubt>>

Settle == firm' = seen /\ doubt' = FALSE /\ UNCHANGED seen

\* A flush fails, or nobody is left to make it.
Unsettle == ~(seen \subseteq firm) /\ doubt' = TRUE /\ UNCHANGED <<seen, firm>>

\* A loss of power takes back any of the changes that are not firm.  Without doubt that is
\* a turnover as well: enough backups stay.  With doubt those are lost that enough newer
\* ones had replaced, which may be lost too.
Lose ==
  /\ seen \cap firm \subseteq seen' /\ seen' \subseteq seen \cup firm
  /\ firm' = seen' /\ doubt' = FALSE
  /\ IF doubt
     THEN /\ Renewed(firm, seen')
          /\ \A c \in firm \ seen' : Cardinality(Newer(c, seen)) >= Kept
     ELSE Turnover(firm, seen')

StoreNext == Turn \/ Settle \/ Unsettle \/ Lose
StoreSpec == StoreInit /\ [][StoreNext]_<<seen, firm, doubt>>
================================================================================
