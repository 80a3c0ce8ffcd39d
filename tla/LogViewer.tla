------------------------------- MODULE LogViewer -------------------------------
(***************************************************************************)
(* The admin log viewer of litestar_backend and the file it reads: worker  *)
(* processes append JSON lines through a WatchedFileHandler, logrotate or  *)
(* an operator renames, removes or truncates the file, and a reader        *)
(* follows it (FileLogReader.follow), pages backwards through it           *)
(* (read_tail, read_before) or exports it (stream_all).                    *)
(*                                                                         *)
(* A file is a sequence of pieces.  The piece -n ends line n with its      *)
(* newline; a long line has a piece n in front of it.  Positions in a file *)
(* count pieces, as the code's offsets count bytes.  Each inode is used    *)
(* once and stands for one incarnation of the path.  Readers share nothing *)
(* with each other, so a behaviour has one, chosen at its start.           *)
(***************************************************************************)
EXTENDS Integers, Sequences, FiniteSets, FiniteSetsExt, Functions

CONSTANTS
    Writer,         \* worker processes that log
    MaxLines,       \* bound on the lines written
    Long,           \* lines long enough to have more than one piece
    Malformed,      \* lines cut at max_line_bytes: no JSON any more
    MaxFiles,       \* bound on the inodes the path goes through
    MaxTruncations, \* bound on truncations in place
    Readers,        \* the readers a behaviour may have
    TornFor,        \* the readers that long lines may reach in two writes
    TailLimit,      \* tail_lines
    Limit,          \* load_more_lines
    Chunk           \* chunk_bytes, in pieces

ASSUME LogViewerAssumption ==
    /\ Writer # {}
    /\ MaxLines \in Nat /\ MaxFiles \in Nat \ {0} /\ MaxTruncations \in Nat
    /\ Long \subseteq 1..MaxLines /\ Malformed \subseteq Long
    /\ Readers \subseteq {"follow", "page", "export"} /\ TornFor \subseteq Readers
    /\ TailLimit \in Nat \ {0} /\ Limit \in Nat \ {0} /\ Chunk \in Nat \ {0}

VARIABLES
    content,    \* the pieces in each inode, by inode
    path,       \* the inode log_file_path resolves to, 0 when it is missing
    truncated,  \* history: the inodes that were truncated
    truncations,
    fd,         \* the inode each writer has open
    emit,       \* "idle", or what the writer does next: "write" or "rest"
    half,       \* the line whose rest the writer still has to write
    lines,      \* lines so far
    reader,     \* the reader of this behaviour
    rstep,      \* where it is
    disturbed,  \* history: no rename, removal or truncation since it started,
                \* one "between" two of its reads, or one "during" a read
    inode,      \* follow, page: the inode it believes in; export: the one it holds
    pos,        \* its offset in the file
    carry,      \* follow, export: the partial line it keeps
    stat,       \* follow: the last os.stat
    out,        \* the lines it has been given, oldest first
    start,      \* history: where the range of a follower begins, where that of a
                \* pager ends, how large the file of an export was when it was opened
    known       \* history: the lines that were complete when it started

fileVars == <<content, path, truncated, truncations>>
writerVars == <<fd, emit, half, lines>>
readVars == <<inode, pos, carry, stat, out, start, known>>
logVars == <<fileVars, writerVars, reader, rstep, disturbed, readVars>>

-----------------------------------------------------------------------------
(* Lines *)

Text(n) == IF n \in Long THEN <<n, -n>> ELSE <<-n>>

Newlines(s) == {i \in DOMAIN s : s[i] < 0}
LastNewline(s) == Max(Newlines(s) \cup {0})
Upto(s, i) == SubSeq(s, 1, i)
From(s, i) == SubSeq(s, i + 1, Len(s))

\* The line that ends at position i of s is what one writer wrote, and parses.
Parses(s, i) ==
    LET n == -s[i]  first == LastNewline(Upto(s, i - 1)) + 1 IN
    /\ n \notin Malformed
    /\ SubSeq(s, first, i) = Text(n)

\* The lines that end at the positions in ends, in order.
LinesAt(s, ends) ==
    LET upto[i \in 0..Len(s)] ==
            IF i = 0 THEN <<>>
            ELSE IF i \in ends THEN Append(upto[i - 1], -s[i]) ELSE upto[i - 1]
    IN  upto[Len(s)]

\* Every line of s, and the entries _map and follow make of them: malformed
\* lines and a trailing partial line are dropped.
RawLines(s) == LinesAt(s, Newlines(s))
Entries(s) == LinesAt(s, {i \in Newlines(s) : Parses(s, i)})

-----------------------------------------------------------------------------
(* The writers and the rotation *)

\* The reader has looked at the path and acts on what it saw.
MidRead == rstep \in {"size", "drain_stat", "drain", "read", "tail", "older"}

Disturb == disturbed' = CASE MidRead \/ disturbed = "during" -> "during"
                          [] rstep = "new" -> "no"
                          [] OTHER -> "between"

\* A new file under the path.
NewFile ==
    /\ Len(content) < MaxFiles
    /\ content' = Append(content, <<>>)
    /\ path' = Len(content')
    /\ Disturb

\* emit first stats the path and opens it anew if the inode has changed, which
\* creates the file when it is missing.
Reopen(w) ==
    /\ emit[w] = "idle"
    /\ lines < MaxLines
    /\ IF path = 0 THEN NewFile ELSE UNCHANGED <<content, path, disturbed>>
    /\ fd' = [fd EXCEPT ![w] = path']
    /\ emit' = [emit EXCEPT ![w] = "write"]
    /\ UNCHANGED <<truncated, truncations, half, lines, reader, rstep, readVars>>

\* O_APPEND: the pieces of one write stay together.
AppendTo(w, pieces) == content' = [content EXCEPT ![fd[w]] = @ \o pieces]

\* The line is written at once.
WriteLine(w) ==
    /\ emit[w] = "write" /\ lines < MaxLines
    /\ AppendTo(w, Text(lines + 1))
    /\ lines' = lines + 1
    /\ emit' = [emit EXCEPT ![w] = "idle"]
    /\ UNCHANGED <<path, truncated, truncations, fd, half, reader, rstep, disturbed, readVars>>

\* A line larger than the stream's buffer takes two writes.
WriteFirst(w) ==
    /\ emit[w] = "write" /\ lines < MaxLines
    /\ lines + 1 \in Long /\ reader \in TornFor
    /\ AppendTo(w, <<lines + 1>>)
    /\ lines' = lines + 1
    /\ half' = [half EXCEPT ![w] = lines + 1]
    /\ emit' = [emit EXCEPT ![w] = "rest"]
    /\ UNCHANGED <<path, truncated, truncations, fd, reader, rstep, disturbed, readVars>>

WriteRest(w) ==
    /\ emit[w] = "rest"
    /\ AppendTo(w, <<-half[w]>>)
    /\ half' = [half EXCEPT ![w] = 0]
    /\ emit' = [emit EXCEPT ![w] = "idle"]
    /\ UNCHANGED <<path, truncated, truncations, fd, lines, reader, rstep, disturbed, readVars>>

\* logrotate renames the file, or somebody removes it.
Rename ==
    /\ path # 0
    /\ path' = 0
    /\ Disturb
    /\ UNCHANGED <<content, truncated, truncations, writerVars, reader, rstep, readVars>>

\* logrotate creates the new file, unless a writer came first.
Create ==
    /\ path = 0
    /\ NewFile
    /\ UNCHANGED <<truncated, truncations, writerVars, reader, rstep, readVars>>

\* copytruncate.
Truncate ==
    /\ path # 0 /\ truncations < MaxTruncations
    /\ content' = [content EXCEPT ![path] = <<>>]
    /\ truncated' = truncated \cup {path}
    /\ truncations' = truncations + 1
    /\ Disturb
    /\ UNCHANGED <<path, writerVars, reader, rstep, readVars>>

-----------------------------------------------------------------------------
(* follow *)

Size == IF path = 0 THEN 0 ELSE Len(content[path])
Proceed(s) == rstep' = s
Reads == UNCHANGED <<fileVars, writerVars, reader, disturbed>>
Know == known' = (1..lines) \ {half[w] : w \in Writer}

\* The first two looks at the path: its inode, then its size.
FollowInode ==
    /\ reader = "follow" /\ rstep = "new"
    /\ inode' = path
    /\ Know /\ Proceed("size")
    /\ Reads /\ UNCHANGED <<pos, carry, stat, out, start>>

FollowSize ==
    /\ reader = "follow" /\ rstep = "size"
    /\ pos' = Size /\ start' = Size
    /\ Proceed("poll")
    /\ Reads /\ UNCHANGED <<inode, carry, stat, out, known>>

\* One os.stat per cycle.  A missing file is waited for; an inode that changed
\* or a file that shrank was rotated.
Poll ==
    /\ reader = "follow" /\ rstep = "poll"
    /\ path # 0
    /\ stat' = [inode |-> path, size |-> Size]
    /\ Proceed(IF path # inode \/ Size < pos THEN "drain_stat"
            ELSE IF Size > pos THEN "read" ELSE "poll")
    /\ Reads /\ UNCHANGED <<inode, pos, carry, out, start, known>>

\* Mutant of Switch: the position of the old file is kept.
SwitchInPlace ==
    /\ inode' = stat.inode /\ carry' = <<>> /\ start' = 0 /\ UNCHANGED pos
    /\ Proceed(IF stat.size > pos THEN "read" ELSE "poll")

\* What follows a rotation: read the file found from its beginning.
Switch ==
    /\ inode' = stat.inode /\ pos' = 0 /\ carry' = <<>> /\ start' = 0
    /\ Proceed(IF stat.size > 0 THEN "read" ELSE "poll")

\* Only an inode that is still in place can be drained; another one is left.
DrainStat ==
    /\ reader = "follow" /\ rstep = "drain_stat"
    /\ IF path = inode /\ path # 0
       THEN Proceed("drain") /\ UNCHANGED <<inode, pos, carry, start>>
       ELSE Switch
    /\ Reads /\ UNCHANGED <<stat, out, known>>

\* _read_delta: what was kept and what is new, cut after the last newline.
Delta(kept) == kept \o From(content[path], pos)

Drain ==
    /\ reader = "follow" /\ rstep = "drain"
    /\ out' = IF path = 0 THEN out
              ELSE out \o Entries(Upto(Delta(<<>>), LastNewline(Delta(<<>>))))
    /\ Switch
    /\ Reads /\ UNCHANGED <<stat, known>>

\* Mutant of ReadDelta: the position moves to the size seen by the poll.
ReadToStat ==
    /\ reader = "follow" /\ rstep = "read"
    /\ IF path = 0 THEN UNCHANGED <<pos, carry, out>>
       ELSE LET data == Delta(carry)  consumed == LastNewline(data) IN
            /\ out' = out \o Entries(Upto(data, consumed))
            /\ pos' = stat.size
            /\ carry' = From(data, consumed)
    /\ Proceed("poll")
    /\ Reads /\ UNCHANGED <<inode, stat, start, known>>

\* The position moves by the whole of what was consumed, the part that had been
\* kept from the last cycle included.
ReadDelta ==
    /\ reader = "follow" /\ rstep = "read"
    /\ IF path = 0 THEN UNCHANGED <<pos, carry, out>>
       ELSE LET data == Delta(carry)  consumed == LastNewline(data) IN
            /\ out' = out \o Entries(Upto(data, consumed))
            /\ pos' = pos + consumed
            /\ carry' = From(data, consumed)
    /\ Proceed("poll")
    /\ Reads /\ UNCHANGED <<inode, stat, start, known>>

-----------------------------------------------------------------------------
(* read_tail and read_before *)

\* The reverse read goes back from q by whole chunks until it has seen one
\* newline more than the page has lines, or to the beginning of the file.
ReadFrom(s, q, limit) ==
    LET Enough(p) == Cardinality({i \in Newlines(s) : p < i /\ i <= q}) > limit IN
    Max({0} \cup {p \in 0..q - 1 : (q - p) % Chunk = 0 /\ Enough(p)})

\* The offset of the first of the last `limit` lines that end by offset end, when
\* the reverse read starts at q.
PageStart(s, q, end, limit) ==
    LET p == ReadFrom(s, q, limit)
        all == {i \in p..end - 1 : i = p \/ s[i] < 0} IN
    IF Cardinality(all) <= limit THEN p
    ELSE CHOOSE i \in all : Cardinality({j \in all : j >= i}) = limit

Least(a, b) == IF a < b THEN a ELSE b

\* read_tail: the inode by its path, then the file by its path.
TailInode ==
    /\ reader = "page" /\ rstep = "new"
    /\ path # 0
    /\ inode' = path
    /\ Know /\ Proceed("tail")
    /\ Reads /\ UNCHANGED <<pos, carry, stat, out, start>>

TailRead ==
    /\ reader = "page" /\ rstep = "tail"
    /\ IF path = 0 THEN Proceed("failed") /\ UNCHANGED <<pos, out, start>>
       ELSE LET s == content[path]  q == LastNewline(s) IN
            /\ pos' = PageStart(s, Len(s), q, TailLimit)
            /\ out' = Entries(SubSeq(s, pos' + 1, q))
            /\ start' = q
            /\ Proceed("older?")
    /\ Reads /\ UNCHANGED <<inode, carry, stat, known>>

\* /older: a cursor into another inode ends the paging.
CheckInode ==
    /\ reader = "page" /\ rstep = "older?"
    /\ Proceed(IF path = 0 THEN "failed" ELSE IF path = inode THEN "older" ELSE "rotated")
    /\ Reads /\ UNCHANGED readVars

\* Mutant of OlderRead: a page with fewer entries than Limit is taken for the last.
OlderShort ==
    /\ reader = "page" /\ rstep = "older"
    /\ IF path = 0 THEN Proceed("failed") /\ UNCHANGED <<pos, out>>
       ELSE LET s == content[path]  q == Least(pos, Len(s))
                page == Entries(SubSeq(s, PageStart(s, pos, q, Limit) + 1, q)) IN
            /\ pos' = PageStart(s, pos, q, Limit)
            /\ out' = page \o out
            /\ Proceed(IF Len(page) < Limit THEN "stopped" ELSE "older?")
    /\ Reads /\ UNCHANGED <<inode, carry, stat, start, known>>

\* The page that ends at the cursor; an empty one tells the client to stop.
OlderRead ==
    /\ reader = "page" /\ rstep = "older"
    /\ IF path = 0 THEN Proceed("failed") /\ UNCHANGED <<pos, out>>
       ELSE LET s == content[path]  q == Least(pos, Len(s))
                page == Entries(SubSeq(s, PageStart(s, pos, q, Limit) + 1, q)) IN
            /\ pos' = PageStart(s, pos, q, Limit)
            /\ out' = page \o out
            /\ Proceed(IF page = <<>> THEN "stopped" ELSE "older?")
    /\ Reads /\ UNCHANGED <<inode, carry, stat, start, known>>

-----------------------------------------------------------------------------
(* stream_all *)

Open ==
    /\ reader = "export" /\ rstep = "new"
    /\ path # 0
    /\ inode' = path /\ start' = Size
    /\ Know /\ Proceed("export")
    /\ Reads /\ UNCHANGED <<pos, carry, stat, out>>

\* Mutant of ExportChunk: what was asked for counts as read.
ExportOvercounts ==
    /\ reader = "export" /\ rstep = "export"
    /\ LET s == content[inode]
           chunk == SubSeq(s, pos + 1, Least(pos + Chunk, Len(s)))
           data == carry \o chunk
           consumed == LastNewline(data) IN
       /\ pos' = pos + Chunk
       /\ out' = out \o RawLines(Upto(data, consumed))
       /\ carry' = From(data, consumed)
       /\ Proceed(IF chunk = <<>> THEN "closed" ELSE "export")
    /\ Reads /\ UNCHANGED <<inode, stat, start, known>>

\* One chunk of the open file; the lines it completes are streamed.
ExportChunk ==
    /\ reader = "export" /\ rstep = "export"
    /\ LET s == content[inode]
           chunk == SubSeq(s, pos + 1, Least(pos + Chunk, Len(s)))
           data == carry \o chunk
           consumed == LastNewline(data) IN
       /\ pos' = pos + Len(chunk)
       /\ out' = out \o RawLines(Upto(data, consumed))
       /\ carry' = From(data, consumed)
       /\ Proceed(IF chunk = <<>> THEN "closed" ELSE "export")
    /\ Reads /\ UNCHANGED <<inode, stat, start, known>>

-----------------------------------------------------------------------------
NoStat == [inode |-> 0, size |-> 0]

LogInit ==
    /\ content = <<<<>>>> /\ path = 1
    /\ truncated = {} /\ truncations = 0
    /\ fd = [w \in Writer |-> 1]
    /\ emit = [w \in Writer |-> "idle"]
    /\ half = [w \in Writer |-> 0]
    /\ lines = 0
    /\ reader \in Readers
    /\ rstep = "new" /\ disturbed = "no"
    /\ inode = 0 /\ pos = 0 /\ carry = <<>> /\ stat = NoStat /\ out = <<>>
    /\ start = 0 /\ known = {}

WriterStep(w) == Reopen(w) \/ WriteLine(w) \/ WriteFirst(w) \/ WriteRest(w)
Follow == FollowInode \/ FollowSize \/ Poll \/ DrainStat \/ Drain \/ ReadDelta
Paging == TailInode \/ TailRead \/ CheckInode \/ OlderRead
Export == Open \/ ExportChunk

LogNext ==
    \/ \E w \in Writer : WriterStep(w)
    \/ Rename \/ Create \/ Truncate
    \/ Follow \/ Paging \/ Export

LogSpec == LogInit /\ [][LogNext]_logVars

\* The polling loop runs as long as its client is connected.
FairLogSpec == LogSpec /\ WF_logVars(Follow)

-----------------------------------------------------------------------------
(* Properties *)

Inode == 1..MaxFiles
Piece == (-MaxLines..MaxLines) \ {0}
Offset == 0..2 * MaxLines

\* Every variable has its type, and no reader gets ahead of all that was written.
LogTypeOK ==
    /\ content \in Seq(Seq(Piece)) /\ path \in 0..Len(content)
    /\ truncated \subseteq Inode /\ truncations \in 0..MaxTruncations
    /\ fd \in [Writer -> Inode]
    /\ emit \in [Writer -> {"idle", "write", "rest"}]
    /\ half \in [Writer -> 0..MaxLines] /\ lines \in 0..MaxLines
    /\ reader \in Readers
    /\ rstep \in {"new", "size", "poll", "drain_stat", "drain", "read", "tail", "older?",
                   "older", "rotated", "stopped", "failed", "export", "closed"}
    /\ disturbed \in {"no", "between", "during"}
    /\ inode \in Inode \cup {0} /\ pos \in Offset /\ start \in Offset
    /\ carry \in Seq(Piece)
    /\ stat \in [inode : Inode \cup {0}, size : Offset]
    /\ out \in Seq(1..MaxLines) /\ known \subseteq 1..MaxLines

\* A follower is never sent a line that was there before it came, through any
\* rotation and truncation; ILogFollower.follow promises it.
HistoryNotReplayed == reader = "follow" => Range(out) \cap known = {}

\* A follower gets no line twice and none out of order across a rename, unless
\* the file is exchanged between a poll's stat and the read it leads to: then the
\* new file is read at the old offset and once more from its start.  A file that
\* was truncated and grows again before it is drained is read twice as well.
AtMostOnce ==
    reader = "follow" /\ disturbed # "during" /\ truncated = {} =>
        \A i, j \in 1..Len(out) : i < j => out[i] < out[j]

\* While nobody rotates or truncates the file, a follower has been sent exactly
\* the entries between where it came and where it is.
FollowExact ==
    reader = "follow" /\ disturbed = "no" /\ rstep \notin {"new", "size"} /\ inode # 0 =>
        out = Entries(SubSeq(content[inode], start + 1, pos))

\* An export is the beginning of the file it opened, line by line, and has all
\* that was there when it was opened: rotation and half-written lines included.
ExportIsPrefix ==
    reader = "export" /\ rstep # "new" /\ inode \notin truncated =>
        /\ out = RawLines(Upto(content[inode], pos - Len(carry)))
        /\ rstep = "closed" => pos >= start

\* What a client receives of a file is what is in it, line for line, once and in
\* order: a follower from where it came in, an export from the start.
ReadersAreExact == HistoryNotReplayed /\ AtMostOnce /\ FollowExact /\ ExportIsPrefix

\* It is at the end of the live file and has been sent what it found there.
UpToDate ==
    /\ inode = path /\ pos = Size
    /\ inode \notin truncated => Range(Entries(From(content[inode], start))) \subseteq Range(out)

\* However often the file is renamed, created late or truncated, a follower comes
\* to the end of the file that is live, and misses nothing of a file it began at
\* its start unless that one is truncated.
SurvivesRotation ==
    []<>(reader = "follow" /\ path # 0 => UpToDate)

\* The pages a client has loaded are one run of the file, none of it missing or
\* twice, whatever the chunk size, the torn lines and the lines that were added.
PagesAreContiguous ==
    /\ reader = "page" /\ rstep \in {"older?", "older", "rotated", "stopped"}
    /\ disturbed # "during" /\ inode \notin truncated
    => out = Entries(SubSeq(content[inode], pos + 1, start))

\* A client that was told to stop has all there was, but for what is hidden
\* behind a whole page of malformed lines.
StopIsTheEnd ==
    /\ reader = "page" /\ rstep = "stopped"
    /\ disturbed # "during" /\ inode \notin truncated
    => LET read == RawLines(SubSeq(content[inode], pos + 1, start)) IN
       \/ Entries(Upto(content[inode], pos)) = <<>>
       \/ Len(read) >= Limit /\ \A j \in 1..Limit : read[j] \notin Range(out)

\* The pages of a walk back through the history leave nothing out, and the walk
\* ends only when there is nothing left.
PagesWalkTheFile == PagesAreContiguous /\ StopIsTheEnd
=============================================================================
