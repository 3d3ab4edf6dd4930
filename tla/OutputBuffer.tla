---------------------------- MODULE OutputBuffer ----------------------------
(***************************************************************************)
(* The buffers fmt writes to (base.h, format.h, format-inl.h): memory that *)
(* grows, a string, an output iterator behind a small buffer, with or      *)
(* without a limit, an array, a counter that keeps no text, and the buffer *)
(* of a FILE.  The characters of a text are the numbers 1, 2, 3, ... in    *)
(* order; what a buffer had before is negative; 0 is not written yet.      *)
(***************************************************************************)
EXTENDS Integers, Sequences, SequencesExt

CONSTANTS
  Kinds,      \* buffers tried: "memory", "container", "iterator", "array", "counting", "file"
  Limits,     \* of format_to_n()
  Inline,     \* characters a memory buffer holds itself: SIZE
  BufferSize, \* of the small buffer: buffer_size
  FileRoom,   \* of the buffer of a FILE
  MaxPiece,   \* characters written by one call
  MaxText     \* bound: characters of a text

VARIABLES
  kind,
  limit,     \* limit_ of an iterator or array
  ptr,       \* where the characters are: "store", "heap", "out"
  chars,     \* the characters in the buffer: size_ is their number
  capacity,  \* capacity_
  count,     \* count_: characters that have left the buffer
  out,       \* what has arrived
  pending,   \* in the FILE, ahead of this buffer
  heap,      \* blocks that are allocated
  written,   \* characters written so far
  life       \* "open", "moved", "closed", "thrown"

fixedVars == <<kind, limit>>
vars == <<fixedVars, ptr, chars, capacity, count, out, pending, heap, written, life>>

SmallerOf(a, b) == IF a < b THEN a ELSE b

\* All that grow_ may change, as one value.
Buffer == [kind |-> kind, limit |-> limit, ptr |-> ptr, chars |-> chars, capacity |-> capacity,
           count |-> count, out |-> out, pending |-> pending, heap |-> heap]
Take(b) ==
  /\ ptr' = b.ptr /\ chars' = b.chars /\ capacity' = b.capacity /\ count' = b.count
  /\ out' = b.out /\ pending' = b.pending /\ heap' = b.heap

\* The constructors.  A string has its own characters first, and so has a FILE.
Init ==
  /\ kind \in Kinds
  /\ limit \in IF kind \in {"iterator", "array"} THEN Limits ELSE {MaxText}
  /\ ptr = CASE kind = "array" -> "out" [] kind = "container" -> "heap" [] OTHER -> "store"
  /\ chars \in IF kind = "container" THEN {<<>>, <<-1>>} ELSE {<<>>}
  /\ pending \in IF kind = "file" THEN {<<>>, <<-1>>} ELSE {<<>>}
  /\ capacity = CASE kind = "memory" -> Inline [] kind = "container" -> Len(chars)
                  [] kind = "array" -> limit [] kind = "file" -> FileRoom - Len(pending)
                  [] OTHER -> BufferSize
  /\ count = 0 /\ out = <<>> /\ heap = 0 /\ written = 0 /\ life = "open"

-----------------------------------------------------------------------------
(* Making room.                                                            *)

\* Mutant: a limit that is not counted down.
FlushEachLimited(b) ==
  LET n == SmallerOf(Len(b.chars), b.limit)
      b1 == [b EXCEPT !.count = @ + Len(b.chars), !.chars = <<>>]
  IN  [b1 EXCEPT !.out = @ \o SubSeq(b.chars, 1, n),
                 !.ptr = "store", !.capacity = BufferSize]

\* flush() of an iterator_buffer: as many characters as the limit still allows
\* arrive; an array is left for the small buffer.
Flush(b) ==
  LET room == IF b.limit > b.count THEN b.limit - b.count ELSE 0
      n == SmallerOf(Len(b.chars), room)
      b1 == [b EXCEPT !.count = @ + Len(b.chars), !.chars = <<>>]
  IN  CASE b.kind = "iterator" -> [b1 EXCEPT !.out = @ \o SubSeq(b.chars, 1, n)]
        [] b.kind = "array" /\ b.ptr = "out" ->
             [b1 EXCEPT !.out = @ \o SubSeq(b.chars, 1, n), !.ptr = "store", !.capacity = BufferSize]
        [] OTHER -> b1

\* advance_write_buffer(), and fflush() when there is no room left.
Advance(b) ==
  LET all == b.pending \o b.chars  full == Len(all) = FileRoom  IN
  [b EXCEPT !.chars = <<>>, !.pending = IF full THEN <<>> ELSE all,
            !.out = IF full THEN @ \o all ELSE @,
            !.capacity = FileRoom - (IF full THEN 0 ELSE Len(all))]

\* grow_: memory gets half as much again, or what is asked for; a string gets
\* that; the others empty their buffer, if it is full.
Grow(b, size) ==
  CASE b.kind = "memory" ->
         LET half == b.capacity + b.capacity \div 2 IN
         [b EXCEPT !.capacity = IF size > half THEN size ELSE half, !.ptr = "heap",
                   !.heap = @ + 1 - (IF b.ptr = "heap" THEN 1 ELSE 0)]
    [] b.kind = "container" -> [b EXCEPT !.capacity = size]
    [] b.kind \in {"iterator", "array"} ->
         IF Len(b.chars) = b.capacity THEN Flush(b) ELSE b
    [] b.kind = "counting" ->
         IF Len(b.chars) = BufferSize THEN [b EXCEPT !.count = @ + BufferSize, !.chars = <<>>] ELSE b
    [] b.kind = "file" -> Advance(b)

TryReserve(b, size) == IF size > b.capacity THEN Grow(b, size) ELSE b

-----------------------------------------------------------------------------
(* Writing.                                                                *)

Piece(n) == [k \in 1 .. n |-> written + k]

PushBack(b, c) == [TryReserve(b, Len(b.chars) + 1) EXCEPT !.chars = Append(@, c)]
PushAll(b, text) == FoldLeft(PushBack, b, text)

\* append(): as much as there is room for, again and again.
RECURSIVE AppendTo(_, _)
AppendTo(b, text) ==
  IF text = <<>> THEN b
  ELSE LET short == b.capacity - Len(b.chars) < Len(text)
           g == IF short THEN Grow(b, Len(b.chars) + Len(text)) ELSE b
           n == SmallerOf(Len(text), g.capacity - Len(g.chars))
       IN  AppendTo([g EXCEPT !.chars = @ \o SubSeq(text, 1, n)], SubSeq(text, n + 1, Len(text)))

\* to_pointer(): room for n characters in one piece, if there is; else they are
\* written one by one.
ToPointer(b, n) ==
  LET r == TryReserve(b, Len(b.chars) + n) IN
  IF r.capacity < Len(r.chars) + n THEN PushAll(r, Piece(n))
  ELSE [r EXCEPT !.chars = @ \o Piece(n)]

\* reserve() for a field of n characters, which are written one by one.
Reserve(b, n) == PushAll(TryReserve(b, Len(b.chars) + n), Piece(n))

\* A piece of the text, in one of the ways fmt writes it.
Write(n) ==
  /\ life \in {"open", "moved"} /\ written + n <= MaxText
  /\ \/ Take(AppendTo(Buffer, Piece(n)))
     \/ Take(ToPointer(Buffer, n))
     \/ Take(Reserve(Buffer, n))
  /\ written' = written + n
  /\ UNCHANGED <<fixedVars, life>>

\* allocate() throws; what the buffer has stays, and its destructor runs.
AllocationFails(n) ==
  /\ kind = "memory" /\ life = "open" /\ Len(chars) + n > capacity
  /\ life' = "thrown"
  /\ heap' = 0
  /\ UNCHANGED <<fixedVars, ptr, chars, capacity, count, out, pending, written>>

\* The move constructor of basic_memory_buffer; the old object is destroyed.
Move ==
  /\ kind = "memory" /\ life = "open"
  /\ life' = "moved"
  /\ capacity' = IF ptr = "store" THEN Inline ELSE capacity
  /\ UNCHANGED <<fixedVars, ptr, chars, count, out, pending, heap, written>>

\* needs_flush(): newlines are the multiples of 3, in a FILE with lines.
Newline(c) == c > 0 /\ c % 3 = 0
NeedsFlush(text) == \E k \in DOMAIN text : Newline(text[k])

\* out() and the destructor; of a FILE, with fflush() if it must.
Close ==
  /\ life \in {"open", "moved"}
  /\ life' = "closed"
  /\ CASE kind \in {"iterator", "array"} -> Take(Flush(Buffer))
       [] kind = "file" ->
            LET all == pending \o chars IN
            /\ chars' = <<>>
            /\ IF NeedsFlush(all) THEN out' = out \o all /\ pending' = <<>>
               ELSE out' = out /\ pending' = all
            /\ UNCHANGED <<ptr, capacity, count, heap>>
       [] OTHER -> heap' = 0 /\ UNCHANGED <<ptr, chars, capacity, count, out, pending>>
  /\ UNCHANGED <<fixedVars, written>>

Next ==
  \/ \E n \in 1 .. MaxPiece : Write(n) \/ AllocationFails(n)
  \/ Move
  \/ Close

Spec == Init /\ [][Next]_vars

-----------------------------------------------------------------------------
(* Properties.                                                             *)

Text(n) == [k \in 1 .. n |-> k]
Own(s) == SelectSeq(s, LAMBDA c : c >= 0)

\* However a text is cut into pieces, all of it is in the buffer or has arrived,
\* in order and once; of a limited output the first characters only
\* (base.h:1852-1872, 1911-2000; format.h:809-835; format-inl.h:1660-1690).
TextWhole ==
  /\ Len(chars) <= capacity
  /\ kind \in {"memory", "container"} => Own(chars) = Text(written)
  /\ kind = "file" => Own(out \o pending \o chars) = Text(written)
  /\ kind \in {"iterator", "array"} =>
       /\ Len(out) <= limit /\ IsPrefix(out, Text(written))
       /\ life = "closed" => Len(out) = SmallerOf(limit, written)

\* What was counted is what was written, past the limit too, and a string ends
\* up with the text and nothing behind it.
CountExact ==
  /\ kind \in {"iterator", "array", "counting"} => count + Len(chars) = written
  /\ kind = "container" => capacity = Len(chars)

\* Memory is given back: one block at most, and none when all is done; and a
\* line that has ended is not kept back.
NothingLeft ==
  /\ heap = IF life \in {"open", "moved"} /\ ptr = "heap" /\ kind = "memory" THEN 1 ELSE 0
  /\ kind = "file" /\ life = "closed" => ~NeedsFlush(pending)

=============================================================================
