----------------------------- MODULE MCDataPath -----------------------------
(***************************************************************************)
(* Instances of DataPath for TLC.                                          *)
(***************************************************************************)
EXTENDS DataPath

KeysUpTo4 == 1..4

\* The n-th MemTable holds the n-th value; some of them delete a key.
Puts(keys, n) == [key : keys, entry : {n}]
Deletes(keys) == [key : keys, entry : {Tombstone}]
FourFlushes ==
  <<Puts({1, 2, 4}, 1), Puts(1..4, 2) \cup Deletes({1}),
    Puts(2..4, 3) \cup Deletes({3}), Puts(1..4, 4) \cup Deletes({2})>>
OneToFour == 1..4

\* Hashes that differ, overlap and run past the word size.
SomeHashOne == <<6, 1, 7, 3>>
SomeHashTwo == <<5, 7, 2, 7>>
=============================================================================
