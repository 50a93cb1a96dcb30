------------------------------- MODULE RfsScan -------------------------------
(***************************************************************************)
(* The numbering of versions as an algorithm: the scan of the directory    *)
(* into the array of resolve_version_path and of handle_ls_request, the    *)
(* exchange sort, and the index or the display.  RfsStore takes scan and   *)
(* sort for one step and says by AtIndex what may come of it; here is why. *)
(*                                                                         *)
(* The directory does not change meanwhile (RfsStore lets it).  Arrays of  *)
(* the code begin at 0, so versions[i] is versions[i + 1] here.            *)
(***************************************************************************)
EXTENDS Integers, Sequences, FiniteSets

CONSTANTS
  Entries,   \* the entries that may be in the directory
  Latest,    \* bound on the seconds in the names
  Limit,     \* length of the versions array (100 in the code)
  Numbers,   \* the version numbers clients ask for
  None       \* "no version"

Seconds == 0 .. Latest

ASSUME ScanAssumption ==
  /\ IsFiniteSet(Entries)
  /\ Latest \in Nat /\ Limit \in Nat \ {0}
  /\ Numbers \subseteq Int
  /\ None \notin Entries

VARIABLES
  matching,  \* the entries that begin with full_path".v"
  timestamp, \* extract_version_timestamp of each entry; 0 if there is none in it
  unread,    \* what readdir has not returned yet
  versions,  \* the array, up to version_count
  i, j,      \* the indices of the sort; i also that of the display
  pc,        \* where the code is
  number,    \* the version number asked for
  result,    \* version_path, or None for return -1
  shown      \* the lines LS has printed: pairs of number and entry

scanVars == <<matching, timestamp, unread>>
vars     == <<scanVars, versions, i, j, pc, number, result, shown>>

version_count == Len(versions)
At(k) == timestamp[versions[k + 1]]

-----------------------------------------------------------------------------

\* Mutant: room for one more.
Full_OffByOne == version_count > Limit

\* version_count < 100 fails.
Full == version_count >= Limit

\* readdir returns an entry, which goes into the array if it matches.
ReadDirectory ==
  /\ pc = "readdir" /\ ~Full
  /\ \E e \in unread :
       /\ unread' = unread \ {e}
       /\ versions' = IF e \in matching THEN Append(versions, e) ELSE versions
  /\ UNCHANGED <<matching, timestamp, i, j, pc, number, result, shown>>

\* The loop ends: nothing is left, or the array is full; the sort begins.
ScanEnds ==
  /\ pc = "readdir" /\ (unread = {} \/ Full)
  /\ pc' = "outer"
  /\ i' = 0
  /\ UNCHANGED <<scanVars, versions, j, number, result, shown>>

\* Mutant: the inner loop ends one early.
InnerEnds_Early == j >= version_count - 1

\* j < version_count fails.
InnerEnds == j >= version_count

\* for (i = 0; i < version_count - 1; i++)
OuterLoop ==
  /\ pc = "outer"
  /\ IF i < version_count - 1 THEN j' = i + 1 /\ pc' = "inner" /\ UNCHANGED i
                              ELSE i' = 0 /\ pc' = "sorted" /\ UNCHANGED j
  /\ UNCHANGED <<scanVars, versions, number, result, shown>>

\* The array with elements i and j exchanged.
Exchanged == [versions EXCEPT ![i + 1] = versions[j + 1], ![j + 1] = versions[i + 1]]

\* Mutant: one of the two assignments is missing.
Exchange_Lossy == IF At(j) > At(i) THEN [versions EXCEPT ![i + 1] = versions[j + 1]]
                  ELSE versions

\* if (versions[j].timestamp > versions[i].timestamp) they change places.
Exchange == IF At(j) > At(i) THEN Exchanged ELSE versions

\* for (j = i + 1; j < version_count; j++)
InnerLoop ==
  /\ pc = "inner"
  /\ IF InnerEnds THEN i' = i + 1 /\ pc' = "outer" /\ UNCHANGED <<versions, j>>
                  ELSE versions' = Exchange /\ j' = j + 1 /\ UNCHANGED <<i, pc>>
  /\ UNCHANGED <<scanVars, number, result, shown>>

\* versions[version_count - version_number].  Newest first is the order of the array:
\* this makes version 1 the oldest, whatever the comment above it says.
Index(n) == version_count - n

\* resolve_version_path, for GETVERSION: return -1 if there is no such version.
Resolve ==
  /\ pc = "sorted"
  /\ pc' = "resolved"
  /\ \E n \in Numbers :
       /\ number' = n
       /\ result' = IF Index(n) \in 0 .. version_count - 1
                    THEN versions[Index(n) + 1] ELSE None
  /\ UNCHANGED <<scanVars, versions, i, j, shown>>

\* The display loop of handle_ls_request: "[VERSION version_count - i]".
Display ==
  /\ pc \in {"sorted", "display"}
  /\ IF i < version_count
     THEN /\ shown' = shown \cup {<<version_count - i, versions[i + 1]>>}
          /\ i' = i + 1
          /\ pc' = "display"
     ELSE pc' = "displayed" /\ UNCHANGED <<i, shown>>
  /\ UNCHANGED <<scanVars, versions, j, number, result>>

Init ==
  /\ unread \in SUBSET Entries
  /\ matching \in SUBSET unread
  /\ timestamp \in [Entries -> Seconds]
  /\ versions = <<>>
  /\ i = 0 /\ j = 0
  /\ pc = "readdir"
  /\ number = 0 /\ result = None
  /\ shown = {}

Step == ReadDirectory \/ ScanEnds \/ OuterLoop \/ InnerLoop \/ Resolve \/ Display
Ended == pc \in {"resolved", "displayed"}
Next == Step \/ (Ended /\ UNCHANGED vars)
Spec == Init /\ [][Next]_vars

-----------------------------------------------------------------------------

\* The entries in the array.
Listed == {versions[k] : k \in 1 .. version_count}

\* The array never has more than its length, and no entry twice; every access of the
\* loops is to an element that has been filled.
TypeOK ==
  /\ matching \subseteq Entries /\ unread \subseteq Entries
  /\ timestamp \in [Entries -> Seconds]
  /\ versions \in Seq(matching)
  /\ version_count <= Limit
  /\ \A k, l \in 1 .. version_count : versions[k] = versions[l] => k = l
  /\ i \in Nat /\ j \in Nat
  /\ pc \in {"readdir", "outer", "inner", "sorted", "display", "resolved", "displayed"}
  /\ pc = "inner" => i < j /\ j <= version_count
  /\ number \in Int
  /\ result \in matching \cup {None}
  /\ shown \subseteq Int \X matching

\* The sort keeps what it sorts: whatever order readdir returns, the array holds the
\* matching entries, all of them unless they are more than its length.
ArrayComplete ==
  pc # "readdir" =>
    /\ Listed \subseteq matching
    /\ Cardinality(matching) <= Limit => Listed = matching

\* As RfsStore has it: where entry e of S may stand, newest first.
AtIndex(S, e, k) ==
  /\ Cardinality({f \in S : timestamp[f] > timestamp[e]}) <= k
  /\ k < Cardinality({f \in S : timestamp[f] >= timestamp[e]})

\* What GETVERSION resolves is what RfsStore allows: the entry at the index belonging
\* to the number, of some order by seconds; nothing if and only if the number is out
\* of range.
ResolvesAtIndex ==
  pc = "resolved" =>
    IF number \in 1 .. version_count
    THEN result # None /\ AtIndex(Listed, result, version_count - number)
    ELSE result = None

\* Number k counts from the oldest, not from the newest as the comments of the code have
\* it, for any names versions can have, as long as there are no more than fit into the
\* array and no two of one second.
NumberIsAge ==
  /\ pc = "resolved" /\ number \in 1 .. Cardinality(matching)
  /\ Cardinality(matching) <= Limit
  /\ \A e, f \in matching : timestamp[e] = timestamp[f] => e = f
  => Cardinality({e \in matching : timestamp[e] <= timestamp[result]}) = number

\* LS prints each version of the array once, and its number is one GETVERSION may
\* resolve to it ("Client can check which version number with LS OP").
DisplayMatchesResolve ==
  pc = "displayed" =>
    /\ {line[1] : line \in shown} = 1 .. version_count
    /\ {line[2] : line \in shown} = Listed
    /\ \A line \in shown : AtIndex(Listed, line[2], Index(line[1]))
=============================================================================
