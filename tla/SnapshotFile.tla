---------------------------- MODULE SnapshotFile ----------------------------
(***************************************************************************)
(* The file a snapshot of the excludes is kept in                          *)
(* (writeDynamicExcludesSnapshot in src/dynamic_excludes.go): written      *)
(* under a temporary name and renamed.  All writers use the same temporary *)
(* name.  An inode is a number, its content what json.Unmarshal would make *)
(* of it.                                                                  *)
(***************************************************************************)
EXTENDS Naturals

CONSTANT Writers

NoFile == 0
Inodes == 1..3       \* two writers never need more: a free one is used again

VARIABLES
  content,        \* of each inode: "none", "empty", "intact", "torn"
  path, tmp,      \* the inode at path and at path + ".tmp"
  writer,         \* each writer: "idle", "opened", "filled"
  fd,             \* the inode it has open
  overlapped      \* history: two writers were at work at a time

snapshotVars == <<content, path, tmp, writer, fd, overlapped>>

\* An earlier process left a snapshot or none, and may have died while it wrote.
SnapshotInit ==
  /\ \E p \in {"none", "intact"}, t \in {"none", "torn"} :
       /\ content = [i \in Inodes |-> IF i = 1 THEN p ELSE IF i = 2 THEN t ELSE "none"]
       /\ path = IF p = "none" THEN NoFile ELSE 1
       /\ tmp = IF t = "none" THEN NoFile ELSE 2
  /\ writer = [w \in Writers |-> "idle"]
  /\ fd = [w \in Writers |-> NoFile]
  /\ overlapped = FALSE

Writing(w) == writer[w] # "idle"

Unused == Inodes \ ({path, tmp} \cup {fd[w] : w \in Writers})

\* os.WriteFile opens the file with O_CREATE and O_TRUNC.
Open(w) ==
  LET i == IF tmp # NoFile THEN tmp ELSE CHOOSE n \in Unused : TRUE IN
  /\ writer[w] = "idle"
  /\ tmp' = i
  /\ content' = [content EXCEPT ![i] = "empty"]
  /\ fd' = [fd EXCEPT ![w] = i]
  /\ writer' = [writer EXCEPT ![w] = "opened"]
  /\ overlapped' = (overlapped \/ \E v \in Writers : Writing(v))
  /\ UNCHANGED path

\* The bytes go to the start of the file.  What another writer put there is
\* covered, or is longer and sticks out.
Written(i) == IF content[i] = "empty" THEN {"intact"} ELSE {"intact", "torn"}

Fill(w) ==
  /\ writer[w] = "opened"
  /\ \E c \in Written(fd[w]) : content' = [content EXCEPT ![fd[w]] = c]
  /\ writer' = [writer EXCEPT ![w] = "filled"]
  /\ UNCHANGED <<path, tmp, fd, overlapped>>

AfterErrorRenames == "filled"                \* fault: the error is not looked at
AfterError == "idle"

\* The write fails with part of the bytes in the file.
FillFails(w) ==
  /\ writer[w] = "opened"
  /\ content' = [content EXCEPT ![fd[w]] = "torn"]
  /\ writer' = [writer EXCEPT ![w] = AfterError]
  /\ fd' = [fd EXCEPT ![w] = NoFile]
  /\ UNCHANGED <<path, tmp, overlapped>>

\* os.Rename moves what is at the temporary name, whoever wrote it; when nothing
\* is there it fails.
Rename(w) ==
  /\ writer[w] = "filled"
  /\ path' = IF tmp # NoFile THEN tmp ELSE path
  /\ tmp' = NoFile
  /\ writer' = [writer EXCEPT ![w] = "idle"]
  /\ fd' = [fd EXCEPT ![w] = NoFile]
  /\ content' = [i \in Inodes |-> IF i \in Unused' THEN "none" ELSE content[i]]
  /\ UNCHANGED overlapped
=============================================================================
