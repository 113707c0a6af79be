-------------------------------- MODULE Uris --------------------------------
(***************************************************************************)
(* Resolution of references (src/dom/src/dae/daeURI.cpp): _setURI(),       *)
(* _setURI_concat(), resolve_RFC3986() and its normalization.              *)
(*                                                                         *)
(* A path is a sequence of segments; a trailing slash is an empty last     *)
(* segment. A location is a resolved URI: its path begins behind the       *)
(* authority. A reference is what is written in a document; its path is    *)
(* empty in one like "#id". Segments are words, one-letter words, "." and  *)
(* ".."; empty segments inside of a path are not valid. The library works  *)
(* on one buffer of characters, with the query and the fragment behind the  *)
(* path; of that it is kept whether they are still part of the string.     *)
(***************************************************************************)
EXTENDS Integers, SequencesExt

CONSTANTS Words, Letters,    \* segments: words, and words of one letter
          Query, Fragment, NoPart,
          MaxSegments,       \* bound: segments of a reference
          MaxPath            \* bound: segments of a location

ASSUME UrisAssumption ==
  /\ (Words \union Letters) \intersect {".", "..", ""} = {} /\ NoPart \notin {Query, Fragment}
  /\ {MaxSegments, MaxPath} \subseteq Nat \ {0}

VARIABLE location    \* [path, query, fragment, directory]

Uri(path, query, fragment, directory) ==
  [path |-> path, query |-> query, fragment |-> fragment, directory |-> directory]

\* The number of "../" a relative path begins with.
Ups(path) == CHOOSE n \in 0..Len(path) :
  /\ \A i \in 1..n : path[i] = ".." /\ n < Len(path)
  /\ n < Len(path) - 1 => path[n + 1] # ".."
-----------------------------------------------------------------------------
(* daeURI_cpp_RFC3986_normalize() *)

\* Cases (c) and (d): "." goes, and so do empty segments.
Undotted(path, absolute) ==
  LET kept == SelectSeq(path, LAMBDA s : s \notin {".", ""})
  IN  IF kept = <<>> THEN (IF absolute THEN <<"">> ELSE <<>>)
      ELSE IF Last(path) \in {".", ""} THEN Append(kept, "") ELSE kept

\* Cases (e) and (f): a segment and the ".." behind it go, and the segment before them
\* is looked at again, if there is one. The first character of the buffer is not
\* taken for one.
RECURSIVE Collapsed(_, _, _)
Collapsed(path, i, absolute) ==
  IF i >= Len(path) THEN (IF absolute \/ path # <<"">> THEN path ELSE <<>>)
  ELSE IF path[i] = ".." \/ path[i + 1] # ".." THEN Collapsed(path, i + 1, absolute)
  ELSE IF i + 1 = Len(path)
    THEN IF i = 1 /\ ~absolute THEN <<>> ELSE Append(SubSeq(path, 1, i - 1), "")
  ELSE Collapsed(SubSeq(path, 1, i - 1) \o SubSeq(path, i + 2, Len(path)),
                 IF i = 1 \/ (i = 2 /\ ~absolute /\ path[1] \in Letters) THEN i ELSE i - 1,
                 absolute)

\* Case (g): "We discard them from the final path."
Grounded(path) ==
  LET ups == CHOOSE n \in 0..Len(path) :
               /\ \A i \in 1..n : path[i] = ".."
               /\ n < Len(path) => path[n + 1] # ".."
  IN  SubSeq(path, ups + 1, Len(path))

\* The reference with its path normalized. The length that is returned is that of the
\* path after (d), or after (g) where that applies: what follows the path is put behind
\* the terminator of one that (e) or (f) have shortened.
Normalized(ref) ==
  LET n == IF ref.absolute THEN 0 ELSE Ups(ref.path)
      undotted == Undotted(SubSeq(ref.path, n + 1, Len(ref.path)), ref.absolute)
      collapsed == Collapsed(undotted, 1, ref.absolute)
      discards == ref.absolute /\ collapsed[1] = ".."
      path == IF discards THEN Grounded(collapsed)
              ELSE IF n > 0 /\ collapsed = <<>> THEN SubSeq(ref.path, 1, n) \o <<"">>
              ELSE SubSeq(ref.path, 1, n) \o collapsed
      kept == discards \/ collapsed = undotted
  IN  [absolute |-> ref.absolute /\ path # <<>>, path |-> path,
       query |-> IF kept THEN ref.query ELSE NoPart,
       fragment |-> IF kept THEN ref.fragment ELSE NoPart]
-----------------------------------------------------------------------------
(* _setURI() and _setURI_concat() *)

\* Mutant: the directory is trimmed once.
TrimmedOnce(dir, ups) ==
  IF ups = 0 \/ dir = <<>> THEN dir \o [i \in 1..ups |-> ".."] ELSE Front(dir)

\* "Trim the ../ directives": what is left of the directory, and of the ups.
RECURSIVE Trimmed(_, _)
Trimmed(dir, ups) ==
  IF ups = 0 \/ dir = <<>> THEN dir \o [i \in 1..ups |-> ".."]
  ELSE IF Last(dir) = "." THEN Trimmed(Front(dir), ups)
  ELSE IF Last(dir) = ".." THEN Trimmed(Front(dir), ups + 1)
  ELSE Trimmed(Front(dir), ups - 1)

\* A base that is directory-like (an archive) has all of its path for a directory, and
\* is not trimmed where that has no slash at its end.
Based(base, path) ==
  LET n == Ups(path)
      rest == SubSeq(path, n + 1, Len(path))
  IN  IF base.directory /\ Last(base.path) # "" THEN base.path \o path
      ELSE Trimmed(Front(base.path), n) \o rest

Concatenated(base, ref) ==
  IF ref.absolute THEN Uri(ref.path, ref.query, ref.fragment, FALSE)
  ELSE IF ref.path # <<>> THEN Uri(Based(base, ref.path), ref.query, ref.fragment, FALSE)
  ELSE LET path == IF base.directory /\ Last(base.path) # "" THEN Append(base.path, "")
                   ELSE base.path
       IN  Uri(path, IF ref.query # NoPart THEN ref.query ELSE base.query, ref.fragment, FALSE)

\* resolve_RFC3986(); the empty string is not based on anything.
Resolved(base, ref) ==
  LET short == Normalized(ref)
  IN  IF short.path = <<>> /\ short.query = NoPart /\ short.fragment = NoPart
      THEN Uri(<<>>, NoPart, NoPart, FALSE)
      ELSE Concatenated(base, short)
-----------------------------------------------------------------------------
Segments == Words \union Letters
Tails == {NoPart, Query} \X {NoPart, Fragment}

\* Paths as they are written: no segment but the last one is empty.
Walks == UNION {[1..n -> Segments \union {".", ".."}] : n \in 1..MaxSegments}
Paths == Walks \union {Append(p, "") : p \in Walks}
Ref(path, absolute, tail) ==
  [path |-> path, absolute |-> absolute, query |-> tail[1], fragment |-> tail[2]]
Written == {Ref(p, FALSE, t) : p \in Paths \union {<<>>}, t \in Tails} \union
              {Ref(p, TRUE, t) : p \in Paths \union {<<"">>}, t \in Tails}

WellFormed(u) == u.path # <<>> /\ \A i \in 1..Len(u.path) :
                   u.path[i] \in Segments \/ (i = Len(u.path) /\ u.path[i] = "")

UrisTypeOK ==
  location \in [path : Seq(Segments \union {".", "..", ""}), query : {NoPart, Query},
                fragment : {NoPart, Fragment}, directory : BOOLEAN]

UrisInit == \E s \in Words : location = Uri(<<s>>, NoPart, NoPart, FALSE)

\* A document or an archive is opened at a reference that is written in another one.
Follow(ref, directory) ==
  /\ WellFormed(location)
  /\ LET u == Resolved(location, ref)
     IN  /\ Len(u.path) <= MaxPath
         /\ location' = [u EXCEPT !.directory = directory]

UrisNext == \E ref \in Written, directory \in BOOLEAN : Follow(ref, directory)
UrisSpec == UrisInit /\ [][UrisNext]_location
-----------------------------------------------------------------------------
\* Properties.

\* RFC 3986, 5.2.4: "." goes, ".." goes together with the segment before it.
Step(stack, s) == IF s \in {".", ""} THEN stack
                  ELSE IF s # ".." THEN Append(stack, s)
                  ELSE IF stack = <<>> THEN <<>> ELSE Front(stack)
Climbs(path) == \E i \in 1..Len(path) :
  path[i] = ".." /\ FoldLeft(Step, <<>>, SubSeq(path, 1, i - 1)) = <<>>
WithoutDots(path) ==
  LET walked == FoldLeft(Step, <<>>, path)
  IN  IF Last(path) \in {".", "..", ""} THEN Append(walked, "") ELSE walked

\* RFC 3986, 5.2.2 and 5.2.3; a directory is a base with a slash behind it.
Merged(base, ref) ==
  IF ref.absolute THEN ref.path
  ELSE (IF base.directory /\ Last(base.path) # "" THEN base.path ELSE Front(base.path)) \o ref.path
ByRFC3986(base, ref) ==
  IF ref.path # <<>> THEN Uri(WithoutDots(Merged(base, ref)), ref.query, ref.fragment, FALSE)
  ELSE Uri(IF base.directory /\ Last(base.path) # "" THEN Append(base.path, "") ELSE base.path,
           IF ref.query # NoPart THEN ref.query ELSE base.query, ref.fragment, FALSE)

\* The library takes the empty string, and a path of which nothing is left, for no
\* reference at all.
NamesNothing(ref) ==
  ~ref.absolute /\ <<ref.query, ref.fragment>> = <<NoPart, NoPart>> /\ Normalized(ref).path = <<>>

\* A path that climbs above the root keeps its "..", and one that climbs out of an
\* archive goes into the archive.
ClimbsOut(base, ref) ==
  /\ ~ref.absolute /\ ref.path # <<>>
  /\ Climbs(Merged(base, ref)) \/ (base.directory /\ Last(base.path) # "" /\ Climbs(ref.path))

\* A path that gets shorter loses the query and the fragment that are behind it.
Shortens(path) == \E i, j \in 1..Len(path) : i < j /\ path[i] \in Segments /\ path[j] = ".."
LosesTail(ref) ==
  /\ Shortens(ref.path) /\ (ref.absolute => ~Climbs(ref.path))
  /\ <<ref.query, ref.fragment>> # <<NoPart, NoPart>>

Departs(base, ref) == NamesNothing(ref) \/ ClimbsOut(base, ref) \/ LosesTail(ref)

\* A letter in front is not seen when what follows has gone. Neither this nor a path
\* that ends in a directory makes a difference to every base.
LetterMissed(path) == \E i \in 1..Len(path) :
  path[i] \in Letters /\ Climbs(SubSeq(path, i + 1, Len(path)))
NamesFile(ref) ==
  Last(ref.path) \in Segments /\ (ref.absolute \/ ~LetterMissed(ref.path))

\* "This does RFC3986's resolution/canonicalization recommendations"
\* (resolve_RFC3986()): what names a file or a part of a document is resolved as the RFC
\* says, whatever the location the references before have led to, but where the library
\* departs from it; and there it never gives what the RFC says.
DepartsAsListed ==
  WellFormed(location) =>
    \A ref \in Written :
      LET agrees == Resolved(location, ref) = ByRFC3986(location, ref)
      IN  IF Departs(location, ref) THEN ~agrees ELSE (ref.path = <<>> \/ NamesFile(ref)) => agrees
=============================================================================
