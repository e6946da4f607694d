----------------------------- MODULE AtomicFile ------------------------------
(* The small JSON state files of the Studio, src/storage/atomic-file.ts: a new *)
(* version goes to a synced temporary file, the old one is copied to path.bak, *)
(* and a rename puts the new one in its place.  A reader falls back to path.bak *)
(* when path does not parse.                                                    *)
(*                                                                              *)
(* The temporary file has a random name and is never read, so the awaits up to  *)
(* the copy are one step.  copyFile is not atomic: until it ends path.bak is    *)
(* torn, and a death of the process may come before or after its end.           *)
EXTENDS Naturals

VARIABLES
    file,       \* path
    bak,        \* path.bak
    tmp         \* the temporary file of the write under way

fileVars == <<file, bak, tmp>>

Absent == [kind |-> "absent"]
Torn == [kind |-> "torn"]
Whole(v) == [kind |-> "whole", data |-> v]

IsContents(c, V) == c \in {Absent, Torn} \/ (c.kind = "whole" /\ c.data \in V)

FileTypeOK(V) == IsContents(file, V) /\ IsContents(bak, V) /\ IsContents(tmp, V)

FileInit == file = Absent /\ bak = Absent /\ tmp = Absent

\* What readJsonWithBackup returns; Absent stands for its error.
ReadJson ==
    IF file.kind = "whole" THEN file
    ELSE IF bak.kind = "whole" THEN bak ELSE Absent

\* The new version is synced and, if there is an old one, its copy has begun.
WriteStarts(v) ==
    /\ tmp = Absent
    /\ tmp' = Whole(v)
    /\ bak' = IF file = Absent THEN bak ELSE Torn
    /\ UNCHANGED file

\* The copy ends, well or with an error that is swallowed.
Copied(ok) == bak' = IF ok /\ file # Absent THEN file ELSE bak

WriteCommits(ok) ==
    /\ tmp # Absent
    /\ Copied(ok)
    /\ file' = tmp
    /\ tmp' = Absent

\* The rename, or the temporary file before it, fails: the old version stays.
WriteRejects ==
    /\ tmp # Absent
    /\ Copied(TRUE)
    /\ tmp' = Absent
    /\ UNCHANGED file

\* The process dies, inside a write or not.
WriteAbandoned(ok) ==
    /\ IF tmp = Absent THEN UNCHANGED bak ELSE Copied(ok)
    /\ tmp' = Absent
    /\ UNCHANGED file

=============================================================================
