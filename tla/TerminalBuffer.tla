--------------------------- MODULE TerminalBuffer ---------------------------
(***************************************************************************)
(* What a host keeps of a terminal's output for a client that comes back   *)
(* (server/terminal_service.rs): the reader cuts what it reads from the    *)
(* shell at UTF-8 characters, the output buffer keeps whole lines and      *)
(* drops the oldest, and a replay takes its end.  A byte is its kind: a    *)
(* newline, another ASCII byte, the lead of a character of 2 or 3 bytes,   *)
(* or a continuation byte.                                                 *)
(***************************************************************************)
EXTENDS Naturals, Sequences, FiniteSets, SequencesExt

CONSTANTS Kinds,      \* kinds of bytes the shell writes
          Text,       \* the shell writes UTF-8 text, else any bytes
          MaxBytes,   \* MAX_OUTPUT_BUFFER_SIZE
          MaxLines,   \* MAX_BUFFER_LINES
          MaxRead,    \* bound: bytes of one read
          MaxText     \* bound: bytes the shell writes

BufferAssumption ==
    /\ Kinds \subseteq {"nl", "a", "lead2", "lead3", "cont"}
    /\ Text \in BOOLEAN
    /\ {MaxBytes, MaxLines, MaxRead, MaxText} \subseteq Nat \ {0}

VARIABLES text,        \* all the shell has written
          ended,       \* it has exited
          remainder,   \* Utf8ChunkAccumulator
          emitted,     \* all that was sent to the output channel
          lines, total_size, last_line_incomplete   \* OutputBuffer

buffer == <<lines, total_size, last_line_incomplete>>
vars == <<text, ended, remainder, emitted, buffer>>

Init ==
    /\ text = <<>> /\ ended = FALSE /\ remainder = <<>> /\ emitted = <<>>
    /\ lines = <<>> /\ total_size = 0 /\ last_line_incomplete = FALSE

SeqLen(b) == CASE b = "lead2" -> 2 [] b = "lead3" -> 3 [] OTHER -> 1

(* Every byte is where UTF-8 allows it; the last character may be cut.     *)
Utf8Start(s) ==
    \A i \in 1..Len(s) :
        /\ s[i] = "cont" => \E j \in 1..(i - 1) :
              /\ i - j < SeqLen(s[j]) /\ \A k \in (j + 1)..i : s[k] = "cont"
        /\ \A k \in (i + 1)..Len(s) : k - i < SeqLen(s[i]) => s[k] = "cont"

Whole(s) == \A i \in 1..Len(s) : i + SeqLen(s[i]) - 1 <= Len(s)

(* std::str::from_utf8 *)
IsUtf8(s) == Utf8Start(s) /\ Whole(s)

Joined(ss) == FoldLeft(LAMBDA a, b : a \o b, <<>>, ss)

-----------------------------------------------------------------------------
(* find_utf8_split_point: the last byte of the last three that is no       *)
(* continuation decides; it is cut off when its character is not whole.    *)
SplitPoint(s) ==
    LET n == Len(s)
        others == {i \in 1..n : i > n - 3 /\ s[i] # "cont"}
        i == Max(others)
    IN  IF others = {} \/ n - i + 1 >= SeqLen(s[i]) THEN n ELSE i - 1

(* push_chunk: what goes on, and what is held back *)
PushChunk(chunk) ==
    LET data == remainder \o chunk
        split == SplitPoint(data)
        hold == split < Len(data)
                /\ (remainder # <<>> \/ split = 0 \/ IsUtf8(SubSeq(data, 1, split)))
        cut == IF hold THEN split ELSE Len(data)
    IN  [out |-> SubSeq(data, 1, cut), rest |-> SubSeq(data, cut + 1, Len(data))]

(* A text cut behind its newlines *)
Lines(s) ==
    LET ends == {i \in 1..Len(s) : s[i] = "nl" \/ i = Len(s)}
        line(i) == SubSeq(s, Max({0} \union {j \in ends : j < i}) + 1, i)
    IN  [k \in 1..Cardinality(ends) |->
            line(CHOOSE i \in ends : Cardinality({j \in ends : j <= i}) = k)]

(* The oldest lines go until both limits are kept *)
Kept(ls, size) ==
    LET fits(k) == /\ size - Len(Joined(SubSeq(ls, 1, k))) <= MaxBytes
                   /\ Len(ls) - k <= MaxLines
        dropped == Min({k \in 0..Len(ls) : fits(k)})
    IN  SubSeq(ls, dropped + 1, Len(ls))

(* OutputBuffer::append *)
AppendOutput(data) ==
    LET eol == {i \in 1..Len(data) : data[i] = "nl"}
        first == IF ~last_line_incomplete THEN 0 ELSE IF eol = {} THEN Len(data) ELSE Min(eol)
        grown == IF first = 0 THEN lines
                 ELSE [lines EXCEPT ![Len(lines)] = @ \o SubSeq(data, 1, first)]
        added == grown \o Lines(SubSeq(data, first + 1, Len(data)))
        size == total_size + Len(data)
        kept == Kept(added, size)
    IN  IF last_line_incomplete /\ eol = {}
        THEN /\ lines' = grown
             /\ total_size' = size
             /\ UNCHANGED last_line_incomplete
        ELSE /\ lines' = kept
             /\ total_size' = size - (Len(Joined(added)) - Len(Joined(kept)))
             /\ last_line_incomplete' = (kept # <<>> /\ Last(data) # "nl")

(* OutputBuffer::get_recent: whole lines, or the end of the last one from  *)
(* a character on                                                          *)
Recent(max) ==
    LET n == Len(lines)
        end(k) == Joined(SubSeq(lines, k, n))
        fit == {k \in 1..n : Len(end(k)) <= max}
        line == Last(lines)
        from == Len(line) - max + 1
        skip == Min({s \in 0..3 : s = 3 \/ from + s > Len(line) \/ line[from + s] # "cont"})
    IN  IF n = 0 \/ max = 0 THEN <<>>
        ELSE IF fit # {} THEN end(Min(fit))
        ELSE SubSeq(line, from + skip, Len(line))

-----------------------------------------------------------------------------
(* The reader thread reads, and read_outputs appends what it let through *)
Read(chunk) ==
    /\ ~ended
    /\ Len(text) + Len(chunk) <= MaxText
    /\ Text => Utf8Start(text \o chunk)
    /\ LET pushed == PushChunk(chunk)
       IN  /\ remainder' = pushed.rest
           /\ emitted' = emitted \o pushed.out
           /\ text' = text \o chunk
           /\ UNCHANGED ended
           /\ IF pushed.out = <<>> THEN UNCHANGED buffer ELSE AppendOutput(pushed.out)

(* finish: the shell has ended *)
Finish ==
    /\ ~ended /\ ended' = TRUE
    /\ emitted' = emitted \o remainder
    /\ IF remainder = <<>> THEN UNCHANGED buffer ELSE AppendOutput(remainder)
    /\ remainder' = <<>>
    /\ UNCHANGED text

Next == (\E n \in 1..MaxRead : \E chunk \in [1..n -> Kinds] : Read(chunk)) \/ Finish

Spec == Init /\ [][Next]_vars

-----------------------------------------------------------------------------
(* The shape of the buffer: lines end where a newline is, and only the     *)
(* last may lack one.                                                      *)
TypeOK ==
    /\ total_size \in Nat
    /\ \A k \in 1..Len(lines) :
          /\ lines[k] # <<>>
          /\ \A i \in 1..(Len(lines[k]) - 1) : lines[k][i] # "nl"
          /\ k < Len(lines) => Last(lines[k]) = "nl"
    /\ last_line_incomplete <=> (lines # <<>> /\ Last(Last(lines)) # "nl")

(* No byte is lost or moved between the shell and the channel.             *)
Lossless == emitted \o remainder = text /\ Len(remainder) <= 2

(* "This accumulator only prevents splitting a trailing UTF-8 code point   *)
(* across PTY reads": text goes on in whole characters, however the reads  *)
(* cut it.                                                                 *)
EmittedWhole == Text /\ ~ended => IsUtf8(emitted)

(* total_size is the size of the lines, so that the trimming never         *)
(* underflows, and the lines are the end of the output.                    *)
BufferIsSuffix ==
    /\ total_size = Len(Joined(lines))
    /\ IsSuffix(Joined(lines), emitted)

(* A replay is the end of the output, no longer than asked for, and begins *)
(* with a whole character ("Align offset forward to a UTF-8 char           *)
(* boundary").                                                             *)
RecentIsSuffix ==
    \A max \in 0..(MaxBytes + 1) :
        LET r == Recent(max)
        IN  /\ IsSuffix(r, emitted) /\ Len(r) <= max
            /\ (Text /\ IsUtf8(emitted)) => IsUtf8(r)

(* "1MB per terminal" (MAX_OUTPUT_BUFFER_SIZE)                             *)
BufferBounded == total_size <= MaxBytes
=============================================================================
