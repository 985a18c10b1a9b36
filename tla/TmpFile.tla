------------------------------ MODULE TmpFile ------------------------------
(***************************************************************************)
(* How internal/hosts and internal/config replace a file: os.WriteFile on  *)
(* a temporary file whose name is fixed, then os.Rename over the file.     *)
(* Nothing is locked, so two processes may have the same temporary file    *)
(* open; a rename takes it away from under the other one.                  *)
(*                                                                         *)
(* f is the pair of files: [file, tmp, fd], with fd[p] what process p has  *)
(* open for writing: nothing, the temporary file, what has become the      *)
(* file, or one that no name leads to any more.                            *)
(***************************************************************************)
Torn == [torn |-> TRUE]
NoTmp == [torn |-> FALSE]

Files(file, procs) ==
  [file |-> file, tmp |-> NoTmp, fd |-> [p \in procs |-> "none"]]

FDs == {"none", "tmp", "file", "gone"}

\* WriteFile opens and empties the file ...
OpenTmp(f, p) == [f EXCEPT !.tmp = Torn, !.fd[p] = "tmp"]

\* ... and writes.  Over what another process has just written, a shorter
\* text leaves the end of the longer one.
Over(old, new) == IF old \in {Torn, new} THEN {new} ELSE {new, Torn}

FillTmp(f, p, text) ==
  LET shut == [f EXCEPT !.fd[p] = "none"]
  IN  CASE f.fd[p] = "tmp" -> {[shut EXCEPT !.tmp = t] : t \in Over(f.tmp, text)}
        [] f.fd[p] = "file" -> {[shut EXCEPT !.file = t] : t \in Over(f.file, text)}
        [] OTHER -> {shut}

CanRename(f) == f.tmp # NoTmp

RenameTmp(f) ==
  [file |-> f.tmp, tmp |-> NoTmp,
   fd |-> [p \in DOMAIN f.fd |->
            CASE f.fd[p] = "tmp" -> "file" [] f.fd[p] = "file" -> "gone" [] OTHER -> f.fd[p]]]

\* Another file is renamed over the file.
ReplaceFile(f, text) ==
  [file |-> text, tmp |-> f.tmp,
   fd |-> [p \in DOMAIN f.fd |-> IF f.fd[p] = "file" THEN "gone" ELSE f.fd[p]]]

\* p is killed: what it has open is closed.
ShutTmp(f, p) == [f EXCEPT !.fd[p] = "none"]
=============================================================================
