------------------------------- MODULE Corpus -------------------------------
(***************************************************************************)
(* What ingestion promises the readers of the chunks table about the text  *)
(* of one document: it changes only by one whole version at a time.  A     *)
(* version replaces the chunks it has and leaves the others as they are.   *)
(***************************************************************************)
CONSTANTS
  Slots,                        \* the chunk ids of the document
  Versions,                     \* the versions of it that exist
  Chunks,                       \* the chunk ids each version has
  Absent                        \* no such row

VARIABLE text                   \* the version each row's text is of

Init == text = [s \in Slots |-> Absent]

Publish(v) ==
  text' = [s \in Slots |-> IF s \in Chunks[v] THEN v ELSE text[s]]

Next == \E v \in Versions : Publish(v)

Spec == Init /\ [][Next]_text

=============================================================================
