-------------------------------- MODULE LogFile --------------------------------
(***************************************************************************)
(* crawler/logwriter.py: a gzipped log.  Every process appends a member of *)
(* its own, flushed every few lines; a kill cuts the member anywhere.  The *)
(* reader decodes the file member by member, a block at a time, and goes   *)
(* on behind a damaged member at the next header it finds.                 *)
(*                                                                         *)
(* The file is a sequence of cells: headers, trailers, and the halves of   *)
(* lines in compressed form.  A cell of data may contain the bytes of a    *)
(* header by chance.  A header met inside a member is an error of the      *)
(* decoder, which then returns nothing of the block it was given.          *)
(***************************************************************************)
EXTENDS Integers, FiniteSetsExt, SequencesExt

CONSTANTS
  FlushEvery,     \* flush_every
  Block,          \* _READ_CHUNK, in cells
  Lookalike,      \* the lines whose first half looks like a header
  MaxLines,       \* bound: lines written
  MaxMembers      \* bound: processes that write

ASSUME LogFileAssumption ==
  /\ FlushEvery \in Nat \ {0} /\ Block \in Nat \ {0}
  /\ MaxLines \in Nat /\ MaxMembers \in Nat

Header == [is |-> "header", line |-> 0]
Trailer == [is |-> "trailer", line |-> 0]
Line(n) == <<[is |-> "first", line |-> n], [is |-> "second", line |-> n]>>
IsData(cell) == cell.is \in {"first", "second"}

VARIABLES
  disk,       \* the file
  buffer,     \* what the writer has compressed and not yet written
  writing,    \* a process has the file open
  since,      \* _since_flush
  \* history
  written,    \* lines written
  member,     \* the lines of the member being written, or last written
  members,
  intact      \* the lines of closed members

loggingVars == <<disk, buffer, writing, since, written, member, members, intact>>

-------------------------------------------------------------------------------
(* Writing. *)

Open ==
  /\ ~ writing /\ members < MaxMembers
  /\ writing' = TRUE /\ since' = 0
  /\ buffer' = <<Header>>
  /\ members' = members + 1 /\ member' = {}
  /\ UNCHANGED <<disk, written, intact>>

\* Fault: one line too late.
FlushLate(n) == n > FlushEvery

FlushDue(n) == n >= FlushEvery

Write ==
  /\ writing /\ written < MaxLines
  /\ written' = written + 1
  /\ member' = member \cup {written'}
  /\ LET cells == buffer \o Line(written')
     IN IF FlushDue(since + 1)
        THEN disk' = disk \o cells /\ buffer' = <<>> /\ since' = 0
        ELSE buffer' = cells /\ since' = since + 1 /\ UNCHANGED disk
  /\ UNCHANGED <<writing, members, intact>>

\* The buffers below the writer are full and go to the file by themselves.
Spill ==
  /\ buffer # <<>>
  /\ disk' = Append(disk, Head(buffer)) /\ buffer' = Tail(buffer)
  /\ UNCHANGED <<writing, since, written, member, members, intact>>

Close ==
  /\ writing /\ writing' = FALSE
  /\ disk' = (disk \o buffer) \o <<Trailer>> /\ buffer' = <<>>
  /\ intact' = intact \cup member
  /\ UNCHANGED <<since, written, member, members>>

Kill ==
  /\ writing /\ writing' = FALSE
  /\ buffer' = <<>>
  /\ UNCHANGED <<disk, since, written, member, members, intact>>

-------------------------------------------------------------------------------
(* Reading.  A position is the index of a cell of the file f. *)

\* _split_lines: the incomplete tail and the complete lines.
Lines(cells) ==
  LET ends == {i \in DOMAIN cells : cells[i].is = "second"}
      from(i) == Max({j \in ends \cup {0} : j < i}) + 1
  IN [tail |-> SubSeq(cells, Max(ends \cup {0}) + 1, Len(cells)),
      whole |-> [k \in 1 .. Cardinality(ends) |->
                   LET i == CHOOSE e \in ends : Cardinality({j \in ends : j <= e}) = k
                   IN SubSeq(cells, from(i), i)]]

\* _find_next_member: what looks like a header after pos, or 0.
FindNextMember(f, pos) ==
  LET found == {i \in pos + 1 .. Len(f) :
                  f[i] = Header \/ (f[i].is = "first" /\ f[i].line \in Lookalike)}
  IN IF found = {} THEN 0 ELSE Min(found)

\* Where the decoder that starts at pos finds no more data.
EndOfData(f, pos) == Min({i \in pos + 1 .. Len(f) : ~ IsData(f[i])} \cup {Len(f) + 1})

\* Whether the member at pos ends as it should.
Complete(f, pos) ==
  f[pos] = Header /\ EndOfData(f, pos) <= Len(f) /\ f[EndOfData(f, pos)] = Trailer

\* What the loop over blocks decodes: everything, unless a block holds what is
\* neither data nor a trailer; then what the blocks before it hold.
Decoded(f, pos) ==
  LET end == EndOfData(f, pos)
  IN IF f[pos] # Header THEN <<>>
     ELSE IF Complete(f, pos) \/ end > Len(f) THEN SubSeq(f, pos + 1, end - 1)
     ELSE SubSeq(f, pos + 1, pos + Block * ((end - pos) \div Block) - 1)

\* Fault: a damaged member is not tried again.
NoRetry(f, pos, nxt) == <<>>

\* _decode_bounded, of what lies before the next header.
DecodeBounded(f, pos, nxt) ==
  IF f[pos] = Header THEN SubSeq(f, pos + 1, Min({nxt, EndOfData(f, pos)}) - 1) ELSE <<>>

\* Fault: what the decoder has left of its last block is not given back.
BlockEnd(f, pos, nxt) ==
  IF Complete(f, pos) THEN pos + Block * (((EndOfData(f, pos) - pos) \div Block) + 1)
  ELSE IF nxt > 0 THEN nxt ELSE Len(f) + 1

\* Where the next member begins: where the decoder has stopped, or, behind
\* damage, at the next header.
NextPos(f, pos, nxt) ==
  IF Complete(f, pos) THEN EndOfData(f, pos) + 1
  ELSE IF nxt > 0 THEN nxt ELSE Len(f) + 1

\* Fault: a cut line goes on in the next member.
CarryOn(f, pos, tail) == tail

\* carry at the start of the next member.
Carry(f, pos, tail) == <<>>

\* A position is where the reader is, what it carries, and the lines it has
\* yielded; ReadMember takes it from one member to the next.
ReadMember(f, at) ==
  LET nxt   == FindNextMember(f, at.pos)
      once  == Decoded(f, at.pos)
      again == ~ Complete(f, at.pos) /\ once = <<>> /\ nxt > 0
      read  == Lines(at.carry \o (IF again THEN DecodeBounded(f, at.pos, nxt) ELSE once))
      rest  == IF Complete(f, at.pos) /\ read.tail # <<>> THEN <<read.tail>> ELSE <<>>
  IN [pos   |-> NextPos(f, at.pos, nxt),
      carry |-> Carry(f, at.pos, read.tail),
      lines |-> at.lines \o read.whole \o rest]

\* read_lines: a member is longer than no cells, so the file has no more members
\* than cells.
Reader[n \in 0 .. Len(disk)] ==
  IF n = 0 THEN [pos |-> 1, carry |-> <<>>, lines |-> <<>>]
  ELSE LET at == Reader[n - 1]
       IN IF at.pos > Len(disk) THEN at ELSE ReadMember(disk, at)

ReadLines == Reader[Len(disk)].lines

-------------------------------------------------------------------------------

LoggingInit ==
  /\ disk = <<>> /\ buffer = <<>> /\ writing = FALSE /\ since = 0
  /\ written = 0 /\ member = {} /\ members = 0 /\ intact = {}

LoggingNext == Open \/ Write \/ Spill \/ Close \/ Kill

-------------------------------------------------------------------------------
(* Properties. *)

LoggingTypeOK ==
  /\ \A i \in DOMAIN disk : disk[i] \in {Header, Trailer} \cup UNION {Range(Line(n)) : n \in 1 .. written}
  /\ writing \in BOOLEAN
  /\ buffer # <<>> => writing
  /\ since \in 0 .. FlushEvery - 1
  /\ written \in 0 .. MaxLines /\ members \in 0 .. MaxMembers
  /\ member \cup intact \subseteq 1 .. written

OnDisk == {n \in 1 .. written : Range(Line(n)) \subseteq Range(disk)}
Yielded == {n \in 1 .. written : Line(n) \in Range(ReadLines)}

\* A kill loses less than one buffer of lines (logwriter.py:6-7).
KillLosesOneBuffer == Cardinality(member \ OnDisk) < FlushEvery

\* Every line of a member that was closed is read, whatever kills have left
\* around it and whatever its bytes look like (logwriter.py:97-100, 150-154).
IntactMembersRead == intact \subseteq Yielded

\* Nothing is read that was not written, and nothing twice: the lines come
\* out whole and in their order (logwriter.py:176-178).
OnlyRealLines ==
  \A i \in DOMAIN ReadLines :
    /\ \E n \in 1 .. written : ReadLines[i] = Line(n)
    /\ \A j \in 1 .. i - 1 : ReadLines[j][1].line < ReadLines[i][1].line

\* A damaged member is recovered as far as it is on disk (logwriter.py:109-111),
\* if no line looks like a header and what follows the damage is in the block
\* that the member begins in.
DamagedRecoveredInBlock ==
  /\ \A n \in Lookalike : n > written
  /\ \A pos \in DOMAIN disk :
       disk[pos] = Header /\ EndOfData(disk, pos) <= Len(disk) /\ ~ Complete(disk, pos)
         => EndOfData(disk, pos) - pos < Block
  => OnDisk \subseteq Yielded

===============================================================================
