------------------------------- MODULE Records -------------------------------
(***************************************************************************)
(* The records of the journal (plugmem-core/src/journal.rs): how an        *)
(* operation becomes a frame, how frames are found again in a file that a  *)
(* crash may have cut, and how a payload becomes an operation.             *)
(*                                                                         *)
(* A file is a sequence of cells; a number is one cell, and so is a        *)
(* character.  The checksum of a body is the body itself: two bodies never *)
(* share one.                                                              *)
(***************************************************************************)
EXTENDS Integers, Sequences
LOCAL INSTANCE SequencesExt

CONSTANTS
  Ops,          \* the operations a session journals
  NoId,         \* FactId::NONE
  Unlimited,    \* u32::MAX: the HNSW budget of a record that does not say
  ByteWidth,    \* 256: a count of tags or links is a byte
  MaxRecords    \* bound: records of a journal

ASSUME RecordsAssumption ==
  /\ {NoId, Unlimited, ByteWidth, MaxRecords} \subseteq Nat
  /\ \A op \in Ops : op.kind = "remember" => Len(op.tags) < ByteWidth /\ Len(op.links) < ByteWidth

VARIABLES
  journal,    \* the cells of the file
  written,    \* history: the operations whose append was acknowledged
  crash       \* "none", or what the crash left: "clean" or "torn"

recordVars == <<journal, written, crash>>

-----------------------------------------------------------------------------
(* Payloads.                                                               *)

Str(s) == <<Len(s)>> \o s
Pairs(list) == FlattenSeq([i \in DOMAIN list |-> Str(list[i][1]) \o Str(list[i][2])])

Payload(op) ==
  CASE op.kind = "remember" ->
         <<op.now, op.validFrom, op.revises, op.assigned>>
           \o (IF op.entity = <<>> THEN <<0>> ELSE <<1>> \o Str(op.entity[1]))
           \o Str(op.text)
           \o <<Len(op.tags) % ByteWidth>> \o FlattenSeq([i \in DOMAIN op.tags |-> Str(op.tags[i])])
           \o <<Len(op.links) % ByteWidth>> \o Pairs(op.links)
           \o Str(op.vector)
           \o <<Len(op.metadata)>> \o Pairs(op.metadata)
    [] op.kind = "forget"   -> <<op.now, op.fact>>
    [] op.kind = "link"     -> <<op.now, op.fact>> \o Str(op.src) \o Str(op.rel) \o Str(op.dst)
    [] op.kind = "unlink"   -> <<op.now>> \o Str(op.src) \o Str(op.rel) \o Str(op.dst)
    [] op.kind = "maintain" -> <<op.now, op.mode, op.budget>>
    [] op.kind = "removeTag" -> <<op.now>> \o Str(op.tag)
    [] op.kind = "setVectorSpace" -> Str(op.space)

Code(op) ==
  CASE op.kind = "remember" -> IF op.revises = NoId THEN 1 ELSE 2
    [] op.kind = "forget"   -> 3
    [] op.kind = "link"     -> 4
    [] op.kind = "maintain" -> 5
    [] op.kind = "unlink"   -> 6
    [] op.kind = "removeTag" -> 7
    [] op.kind = "setVectorSpace" -> 8

-----------------------------------------------------------------------------
(* Reading a payload: a cursor is what is left and what was taken, or bad. *)

Bad == [ok |-> FALSE]
Cursor(left, took) == [ok |-> TRUE, left |-> left, took |-> took]
TakeCell(c) == IF ~c.ok \/ c.left = <<>> THEN Bad ELSE Cursor(Tail(c.left), Append(c.took, Head(c.left)))
TakeCells(c, n) == FoldLeft(LAMBDA d, i : TakeCell(d), c, [i \in 1..n |-> i])
\* take_str, take_vec_f32: a length past the end of the record is corruption.
TakeStr(c) ==
  IF ~c.ok \/ c.left = <<>> \/ Head(c.left) > Len(c.left) - 1 THEN Bad
  ELSE Cursor(SubSeq(c.left, Head(c.left) + 2, Len(c.left)),
              Append(c.took, SubSeq(c.left, 2, Head(c.left) + 1)))
TakeStrs(c, n) == FoldLeft(LAMBDA d, i : TakeStr(d), c, [i \in 1..n |-> i])

\* A count, then so many groups of strings, taken as one list.
TakeList(c, group) ==
  LET n == Head(c.left)
      r == TakeStrs(Cursor(Tail(c.left), <<>>), n * group)
  IN  IF ~c.ok \/ c.left = <<>> THEN Bad
      ELSE IF ~r.ok THEN Bad
      ELSE Cursor(r.left, Append(c.took,
             [i \in 1..n |-> IF group = 1 THEN r.took[i] ELSE <<r.took[2 * i - 1], r.took[2 * i]>>]))

\* The flag of the subject, and its name.
TakeEntity(c) ==
  IF ~c.ok \/ c.left = <<>> \/ Head(c.left) \notin {0, 1} THEN Bad
  ELSE IF Head(c.left) = 0 THEN Cursor(Tail(c.left), Append(c.took, <<>>))
  ELSE LET r == TakeStr(Cursor(Tail(c.left), <<>>))
       IN  IF r.ok THEN Cursor(r.left, Append(c.took, <<r.took[1]>>)) ELSE Bad

\* Trailing cells are corruption.
Whole(c) == c.ok /\ c.left = <<>>

\* Op::decode: {} where it is an error.
DecodedOp(code, payload) ==
  LET start == Cursor(payload, <<>>)
      remember == TakeList(TakeStr(TakeList(TakeList(TakeStr(TakeEntity(TakeCells(start, 4))),
                                                     1), 2)), 2)
      budget == TakeCells(start, IF Len(payload) = 1 THEN 1 ELSE 3)
      taken(c, op(_)) == IF Whole(c) THEN {op(c.took)} ELSE {}
  IN  CASE code \in {1, 2} ->
             {op \in taken(remember, LAMBDA t :
                [kind |-> "remember", now |-> t[1], validFrom |-> t[2], revises |-> t[3],
                 assigned |-> t[4], entity |-> t[5], text |-> t[6], tags |-> t[7],
                 links |-> t[8], vector |-> t[9], metadata |-> t[10]]) :
                (code = 2) = (op.revises # NoId)}
        [] code = 3 -> taken(TakeCells(start, 2), LAMBDA t : [kind |-> "forget", now |-> t[1], fact |-> t[2]])
        [] code = 4 -> taken(TakeStrs(TakeCells(start, 2), 3), LAMBDA t :
                         [kind |-> "link", now |-> t[1], fact |-> t[2], src |-> t[3], rel |-> t[4], dst |-> t[5]])
        [] code = 5 -> taken(budget, LAMBDA t :
                         [kind |-> "maintain", now |-> t[1],
                          mode |-> IF Len(payload) = 1 THEN 0 ELSE t[2],
                          budget |-> IF Len(payload) = 1 THEN Unlimited ELSE t[3]])
        [] code = 6 -> taken(TakeStrs(TakeCells(start, 1), 3), LAMBDA t :
                         [kind |-> "unlink", now |-> t[1], src |-> t[2], rel |-> t[3], dst |-> t[4]])
        [] code = 7 -> taken(TakeStr(TakeCells(start, 1)), LAMBDA t :
                         [kind |-> "removeTag", now |-> t[1], tag |-> t[2]])
        [] code = 8 -> taken(TakeStr(start), LAMBDA t : [kind |-> "setVectorSpace", space |-> t[1]])
        [] OTHER -> {}

-----------------------------------------------------------------------------
(* Frames.                                                                 *)

OpBody(op) == <<Code(op)>> \o Payload(op)
\* encode_entry: the length, the checksum, the body.
Frame(body) == <<Len(body), body>> \o body
Header == 2

\* A bug TornTail must not have: a frame of its full length is never torn.
TornTailShort(rest) == Len(rest) < Header \/ Len(rest) < Header + rest[1]
\* What a crash inside the last append leaves: less than a frame, or a frame up to the
\* very end of the file that its checksum does not fit.
TornTail(rest) ==
  \/ Len(rest) < Header \/ Len(rest) < Header + rest[1]
  \/ Len(rest) = Header + rest[1] /\ SubSeq(rest, Header + 1, Len(rest)) # rest[2]

\* scan: the bodies of the whole frames, and whether a torn tail was dropped.
Scan(file) ==
  LET scan[pos \in 1..Len(file) + 1] ==
        LET rest == SubSeq(file, pos, Len(file))
            body == SubSeq(rest, Header + 1, Header + rest[1])
            next == scan[pos + Header + rest[1]]
        IN  IF rest = <<>> THEN [ok |-> TRUE, bodies |-> <<>>, torn |-> FALSE]
            ELSE IF TornTail(rest) THEN [ok |-> TRUE, bodies |-> <<>>, torn |-> TRUE]
            ELSE IF rest[1] = 0 \/ body # rest[2] THEN [ok |-> FALSE, bodies |-> <<>>, torn |-> FALSE]
            ELSE [next EXCEPT !.bodies = <<body>> \o @]
  IN  scan[1]

\* What replay is given.
Replayable(file) == LET bodies == Scan(file).bodies
                    IN  [i \in DOMAIN bodies |-> DecodedOp(Head(bodies[i]), Tail(bodies[i]))]

-----------------------------------------------------------------------------
(* Actions.                                                                *)

RecordsInit == journal = <<>> /\ written = <<>> /\ crash = "none"

Running == crash = "none" /\ Len(written) < MaxRecords

AppendRecord(op) ==
  /\ Running
  /\ journal' = journal \o Frame(OpBody(op))
  /\ written' = Append(written, op)
  /\ UNCHANGED crash

\* A marker of an older build: no mode and no budget.
AppendOldMarker(now) ==
  /\ Running
  /\ journal' = journal \o Frame(<<5, now>>)
  /\ written' = Append(written, [kind |-> "maintain", now |-> now, mode |-> 0, budget |-> Unlimited])
  /\ UNCHANGED crash

CrashBetween == Running /\ crash' = "clean" /\ UNCHANGED <<journal, written>>

\* A crash inside an append: a part of the frame, or all of it with its end unwritten.
CrashInside(op) ==
  LET frame == Frame(OpBody(op))
      cut   == {SubSeq(frame, 1, n) : n \in 1..Len(frame) - 1}
      blank == {[i \in DOMAIN frame |-> IF i > n THEN 0 ELSE frame[i]] : n \in Header..Len(frame) - 1}
  IN  /\ Running
      /\ \E left \in cut \cup (blank \ {frame}) : journal' = journal \o left
      /\ crash' = "torn"
      /\ UNCHANGED written

RecordsNext ==
  \/ \E op \in Ops : AppendRecord(op) \/ CrashInside(op)
  \/ AppendOldMarker(1)
  \/ CrashBetween
RecordsSpec == RecordsInit /\ [][RecordsNext]_recordVars

-----------------------------------------------------------------------------
\* Every acknowledged operation is read back as it was journaled, in its order and
\* nothing more, whatever a crash inside the next append left behind it; and that tail
\* is dropped and reported, never taken for corruption (the rule of the module's
\* header, journal.rs:13-27).
RecordsReadBack ==
  /\ Scan(journal).ok
  /\ Scan(journal).torn = (crash = "torn")
  /\ Replayable(journal) = [i \in DOMAIN written |-> {written[i]}]
=============================================================================
