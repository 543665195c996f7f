------------------------------ MODULE FileCopy ------------------------------
(* What a file transfer promises: the file at the receiver grows by the     *)
(* next chunk of the file sent, and by nothing else. Once the connection    *)
(* was made anew it may also start over with the first chunk.               *)
EXTENDS Naturals, Sequences

CONSTANT Chunks   \* length of the file in chunks; the n-th is named by n
VARIABLES
  file,
  madeAnew

Copy == Len(file) < Chunks /\ file' = Append(file, Len(file) + 1)

Continues(n) == n = 1 \/ (file # <<>> /\ n = file[Len(file)] + 1)

CopyAnew ==
  /\ madeAnew
  /\ \E n \in 1 .. Chunks : Continues(n) /\ file' = Append(file, n)

Spec == file = <<>> /\ [][Copy \/ CopyAnew]_file
=============================================================================
