------------------------------ MODULE Streams ------------------------------
(***************************************************************************)
(* Byte ranges and the file streams of the gateway (ipfs.go, httprange.go).*)
(* A file is known by its length; a byte by its position.                  *)
(***************************************************************************)
EXTENDS Integers

(***************************************************************************)
(* HTTPRangeSpec: none (the nil specification), bytes=s-e (e = -1 when it  *)
(* is left out), and the suffix bytes=-k, which has s = -k.                *)
(***************************************************************************)
NoRange     == [suffix |-> FALSE, start |-> 0, end |-> -1, none |-> TRUE]
Bytes(s, e) == [suffix |-> FALSE, start |-> s, end |-> e, none |-> FALSE]
Suffix(k)   == [suffix |-> TRUE, start |-> -k, end |-> -1, none |-> FALSE]

IsRangeSpec(h) ==
  /\ h \in [suffix : BOOLEAN, start : Int, end : Int, none : BOOLEAN]
  /\ IF h.none THEN h = NoRange
     ELSE IF h.suffix THEN h.start < 0 /\ h.end = -1
     ELSE h.start >= 0 /\ (h.end = -1 \/ h.start <= h.end)

(* GetLength refuses a range that begins behind the end. *)
IsInvalidRange(h, size) == ~h.none /\ ~h.suffix /\ h.start >= size

GetLength(h, size) ==
  IF h.none THEN size
  ELSE IF h.suffix THEN IF -h.start > size THEN size ELSE -h.start
  ELSE IF h.end > -1 THEN (IF size <= h.end THEN size - 1 ELSE h.end) - h.start + 1
  ELSE size - h.start

GetOffset(h, size) ==
  IF ~h.suffix THEN h.start
  ELSE IF size + h.start < 0 THEN 0 ELSE size + h.start

(* What a range means: the positions of a file of that size it asks for. *)
InRange(h, size, i) ==
  /\ 0 <= i /\ i < size
  /\ IF h.suffix THEN i >= size + h.start
     ELSE i >= h.start /\ (h.end = -1 \/ i <= h.end)

(***************************************************************************)
(* The loop of ipfsFileDownload.  start and length are its parameters,     *)
(* which it counts down; pos is how much of the file it has received; n    *)
(* how much it has written, namely the positions from..from+n-1, unless    *)
(* torn says that a write did not continue the one before it.              *)
(***************************************************************************)
Download(start, length) ==
  [sub |-> start # 0 \/ length # 0, start |-> start, length |-> length,
   pos |-> 0, n |-> 0, from |-> 0, torn |-> FALSE]

(* A chunk of c bytes is received and what is wanted of it written. *)
Received(s, c) ==
  LET cut  == IF s.sub THEN s.start ELSE 0
      rest == c - cut
      k    == IF s.sub /\ rest > s.length THEN s.length ELSE rest
  IN  IF s.sub /\ c < s.start
      THEN [s EXCEPT !.start = @ - c, !.pos = @ + c]
      ELSE [s EXCEPT !.start = IF s.sub THEN 0 ELSE @,
                     !.length = IF s.sub THEN @ - k ELSE @,
                     !.pos = @ + c,
                     !.n = @ + k,
                     !.from = IF s.n = 0 THEN s.pos + cut ELSE @,
                     !.torn = @ \/ (s.n > 0 /\ s.from + s.n # s.pos + cut)]

IsComplete(s, c) == s.sub /\ ~(c < s.start) /\ Received(s, c).length = 0
=============================================================================
