-------------------------- MODULE MCReaderLocation --------------------------
(***************************************************************************)
(* Small files: a stub, a directory of at most one header, zip64 records   *)
(* or not, an end record and what follows it.                              *)
(***************************************************************************)
EXTENDS ReaderLocation, FiniteSets, TLC

\* The zip64 part between directory and end record.
Zip64Parts == {"none", "full", "lost", "behind"}

Part64(z) == IF z = "none" THEN 0 ELSE Eocd64Size + LocatorSize

(***************************************************************************)
(* An archive behind a stub of s undeclared bytes, with n headers, a       *)
(* comment of c bytes of which t are there, and maybe the signature of an  *)
(* end record again in the comment.                                        *)
(***************************************************************************)
Archive(s, n, z, sentinel, c, t, again) ==
  LET cd == s
      eocd64 == cd + n * CentralSize
      at == eocd64 + Part64(z)
      announced == CASE z = "lost" -> 1
                     [] z = "behind" -> at + EocdSize
                     [] OTHER -> eocd64
      true_end == [cd_offset |-> 0, cd_size |-> n * CentralSize,
                   comment_len |-> c, sentinel |-> sentinel]
      false_end == [cd_offset |-> 0, cd_size |-> 1, comment_len |-> 1,
                    sentinel |-> TRUE]
  IN  [size |-> at + EocdSize + t,
       ends |-> (at :> true_end) @@
                (IF again THEN (at + EocdSize) :> false_end ELSE <<>>),
       locators |-> IF z = "none" THEN <<>>
                    ELSE (at - LocatorSize) :> announced,
       records64 |-> IF z = "none" THEN <<>>
                     ELSE eocd64 :> [cd_offset |-> cd, cd_size |-> n * CentralSize],
       centrals |-> IF n = 0 THEN {} ELSE {cd}]

\* At most one of the unusual things happens behind the end record.
Tails == {<<0, 0, FALSE>>, <<2, 2, FALSE>>, <<2, 1, FALSE>>, <<5, 5, TRUE>>,
          <<2, 2, TRUE>>, <<20, 20, FALSE>>}

SmallArchives ==
  {Archive(s, n, z, sentinel, tail[1], tail[2], tail[3]) :
     s \in {0, 2}, n \in {0, 1}, z \in Zip64Parts, sentinel \in BOOLEAN,
     tail \in Tails}

SignatureSets == {DOMAIN f.ends : f \in SmallArchives}

AllEnds == 0..(2 + CentralSize + Eocd64Size + LocatorSize + EocdSize + 20)

\* Shorter than one record or another, or longer than all; the windows the
\* search takes of them hold nothing but the signature, or all of the end.
SomeBuffers == {1, 2, 3, 4, 6, 9, 18, 26}
AnySpace == {9, 60}

\* The premise of LocatesLikeSlice and NothingMissed, true of these files.
ASSUME RecordsApartHere == RecordsApart

=============================================================================
