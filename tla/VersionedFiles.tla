--------------------------- MODULE VersionedFiles ---------------------------
(***************************************************************************)
(* What the storage engine promises about files and their history, with    *)
(* the calls, locks and partial contents of RfsStore abstracted away.      *)
(*                                                                         *)
(* Each file has a current upload and an archive of earlier ones by the    *)
(* time they were put aside.  A file is changed in sessions, one at a time:*)
(* a WRITE session archives the current upload and then publishes a new    *)
(* one or gives up; an RM session erases everything.  Nothing else ever    *)
(* changes a file, an archived upload is never replaced, and uploads are   *)
(* archived in time order.                                                 *)
(*                                                                         *)
(* Calls on the directory may fail.  Only in a session in which one has    *)
(* does a WRITE overwrite the current upload instead of archiving it, and  *)
(* does an RM leave something behind.                                      *)
(***************************************************************************)
EXTENDS Integers

CONSTANTS
  Names, Uploads, MaxStamp, None, InitCurrent, InitArchive,
  CanFail   \* may calls on the directory fail?

VARIABLES
  current,  \* [Names -> Uploads + None]
  archive,  \* [Names -> [1 .. MaxStamp -> Uploads + None]]
  session,  \* [Names -> {"none", "write", "remove"}]
  trouble   \* [Names -> BOOLEAN]: has a call of the session failed?

vars == <<current, archive, session, trouble>>

Init ==
  /\ current = InitCurrent
  /\ archive = InitArchive
  /\ session = [n \in Names |-> "none"]
  /\ trouble = [n \in Names |-> FALSE]

Begin(n) ==
  /\ session[n] = "none"
  /\ \E kind \in {"write", "remove"} : session' = [session EXCEPT ![n] = kind]
  /\ UNCHANGED <<current, archive, trouble>>

End(n) ==
  /\ session' = [session EXCEPT ![n] = "none"]
  /\ trouble' = [trouble EXCEPT ![n] = FALSE]

\* A call fails; the session goes on.
CallFails(n) ==
  /\ CanFail
  /\ session[n] # "none"
  /\ trouble' = [trouble EXCEPT ![n] = TRUE]
  /\ UNCHANGED <<current, archive, session>>

\* The current upload becomes the newest of the archive.
Archive(n) ==
  /\ session[n] = "write" /\ ~trouble[n]
  /\ current[n] # None
  /\ \E s \in 1 .. MaxStamp :
       /\ \A r \in s .. MaxStamp : archive[n][r] = None
       /\ archive' = [archive EXCEPT ![n][s] = current[n]]
  /\ current' = [current EXCEPT ![n] = None]
  /\ UNCHANGED <<session, trouble>>

\* The current upload could not be archived, and is lost.
Overwrite(n) ==
  /\ session[n] = "write" /\ trouble[n]
  /\ current' = [current EXCEPT ![n] = None]
  /\ UNCHANGED <<archive, session, trouble>>

\* The session ends with a new upload, or what has arrived of it, which no file
\* held before.
Publish(n) ==
  /\ session[n] = "write"
  /\ current[n] = None
  /\ \E u \in Uploads :
       /\ \A m \in Names : current[m] # u /\ \A s \in 1 .. MaxStamp : archive[m][s] # u
       /\ current' = [current EXCEPT ![n] = u]
  /\ End(n)
  /\ UNCHANGED archive

\* A failed WRITE leaves the file without a current upload, or with the one it
\* could not archive.
GiveUp(n) ==
  /\ session[n] = "write"
  /\ current[n] = None \/ trouble[n]
  /\ End(n)
  /\ UNCHANGED <<current, archive>>

EraseCurrent(n) ==
  /\ session[n] = "remove"
  /\ current' = [current EXCEPT ![n] = None]
  /\ UNCHANGED <<archive, session, trouble>>

EraseArchived(n) ==
  /\ session[n] = "remove"
  /\ \E s \in 1 .. MaxStamp : archive' = [archive EXCEPT ![n][s] = None]
  /\ UNCHANGED <<current, session, trouble>>

\* RM ends when nothing is left, unless a call has failed.
EndRemove(n) ==
  /\ session[n] = "remove"
  /\ \/ current[n] = None /\ \A s \in 1 .. MaxStamp : archive[n][s] = None
     \/ trouble[n]
  /\ End(n)
  /\ UNCHANGED <<current, archive>>

Next ==
  \E n \in Names :
    \/ Begin(n) \/ CallFails(n)
    \/ Archive(n) \/ Overwrite(n) \/ Publish(n) \/ GiveUp(n)
    \/ EraseCurrent(n) \/ EraseArchived(n) \/ EndRemove(n)

Spec == Init /\ [][Next]_vars
=============================================================================
