-------------------------- MODULE DirectoryCompare --------------------------
(***************************************************************************)
(* The directory comparison both ends of a delta deployment run:           *)
(* DirectoryScanner and ScanResult (a scan of a folder into a dictionary   *)
(* path -> SHA256) and DirectoryScannerComparer.CollectMismatches (what to *)
(* copy to the device and what to delete there).                           *)
(*                                                                         *)
(* A dictionary is a function on Path whose value is NoFile where the      *)
(* dictionary has no key. A hash stands for the content it is the hash of. *)
(* Fold[p] is the name OrdinalIgnoreCase sees: two paths that differ in    *)
(* case only have the same Fold.                                           *)
(***************************************************************************)
CONSTANTS Path,     \* relative paths, as a case-sensitive file system has them
          Fold,     \* Fold[p]: the path p with its case folded
          NoFile    \* "no such file"

SameName(p, q) == Fold[p] = Fold[q]

(***************************************************************************)
(* The paths no other path differs from in case only.                      *)
(***************************************************************************)
OwnName == {p \in Path : \A q \in Path : SameName(p, q) => q = p}

(***************************************************************************)
(* What a case-insensitive dictionary (or the Windows file system) holds   *)
(* for p.                                                                  *)
(***************************************************************************)
Holders(f, p) == {q \in Path : SameName(p, q) /\ f[q] # NoFile}

TryGetValue(f, p) ==
  IF Holders(f, p) = {} THEN NoFile ELSE f[CHOOSE q \in Holders(f, p) : TRUE]

(***************************************************************************)
(* ScanResult.AddHash on an OrdinalIgnoreCase dictionary: the first key is *)
(* kept, the last value wins.                                              *)
(***************************************************************************)
AddHash(f, p, hash) ==
  LET key == IF Holders(f, p) = {} THEN p ELSE CHOOSE q \in Holders(f, p) : TRUE
  IN  [f EXCEPT ![key] = hash]

(***************************************************************************)
(* The dictionaries a scan of the folder f may end with, file after file   *)
(* in some order: of the files of one name, one gives the key and another  *)
(* the value.                                                              *)
(***************************************************************************)
Last(f, p) == IF Holders(f, p) = {p} THEN {p} ELSE Holders(f, p) \ {p}

Scans(f) ==
  {g \in [Path -> {f[p] : p \in Path} \cup {NoFile}] : \A p \in Path :
     /\ g[p] # NoFile => f[p] # NoFile /\ \E q \in Last(f, p) : g[p] = f[q]
     /\ f[p] # NoFile =>
          \E q \in Path : \A r \in Path : SameName(p, r) /\ g[r] # NoFile <=> r = q}

(***************************************************************************)
(* The contents an OrdinalIgnoreCase HashSet may end with when the members *)
(* of S are added in some order: one member of every class of names.       *)
(***************************************************************************)
HashSets(S) ==
  {T \in SUBSET S : \A p \in S : \E q \in T : \A r \in T : SameName(p, r) <=> r = q}

(***************************************************************************)
(* CollectMismatches. "actual" is what the device has, from a JSON object  *)
(* with case-sensitive keys; "expected" is the local scan.                 *)
(***************************************************************************)
\* Variant: the hashes are not compared.
DifferingByName(actual, expected) ==
  {p \in Path : actual[p] # NoFile /\ TryGetValue(expected, p) # NoFile}

Differing(actual, expected) ==
  {p \in Path : /\ actual[p] # NoFile
                /\ TryGetValue(expected, p) \notin {NoFile, actual[p]}}

NewFiles(actual, expected) ==
  {p \in Path : expected[p] # NoFile /\ actual[p] = NoFile}

Extra(actual, expected) ==
  {p \in Path : actual[p] # NoFile /\ TryGetValue(expected, p) = NoFile}

(***************************************************************************)
(* filesToCopy receives the differing files first; a new file whose name   *)
(* is already in the set in another case is not added.                     *)
(***************************************************************************)
CopySets(actual, expected) ==
  {D \cup {p \in NewFiles(actual, expected) : \A q \in D : ~ SameName(p, q)} :
      D \in HashSets(Differing(actual, expected))}

DeleteSets(actual, expected) == HashSets(Extra(actual, expected))
=============================================================================
