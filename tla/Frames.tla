-------------------------------- MODULE Frames --------------------------------
(***************************************************************************)
(* From rows to data frames: getFrames and fixFrameForLongToMulti of       *)
(* query.go, and the size of the result.                                   *)
(*                                                                         *)
(* A frame has at most a time column and a string column besides its value *)
(* columns: as much as decides how the SDK converts it.  A row is its time *)
(* and its string.                                                         *)
(***************************************************************************)
EXTENDS Integers, SequencesExt

CONSTANT Null  \* a null time

\* time    "none", "time" or "nullable"
\* labels  whether there is a string column
\* values  the value columns
Frame(rows, time, labels, values) ==
    [rows |-> rows, time |-> time, labels |-> labels, values |-> values]

Formats == {"timeseries", "multi", "table", "logs", "trace"}

\* The formats in which no rows are an error.
NeedsRows(format) == format \in {"timeseries", "multi"}

\* frame.TimeSeriesSchema().Type = TimeSeriesTypeLong
IsLong(frame) == frame.time # "none" /\ frame.labels /\ frame.values # {}

\* sqlutil.FrameFromRows: the first rows, as many as the limit allows.
FromRows(source, limit) ==
    Frame(IF limit < 0 \/ Len(source.rows) <= limit THEN source.rows
          ELSE SubSeq(source.rows, 1, limit),
          source.time, source.labels, source.values)

HasNullTime(frame) == \E n \in DOMAIN frame.rows : frame.rows[n].time = Null

\* Mutant of Fixable: null times are let through.
FixableAnyway(frame) == frame.time # "none"

\* fixFrameForLongToMulti makes the time column non-nullable, which it can
\* unless a time is null.
Fixable(frame) ==
    frame.time # "none" /\ ~(frame.time = "nullable" /\ HasNullTime(frame))
Fixed(frame) == [frame EXCEPT !.time = "time"]

\* timeseries.LongToMulti: a frame for every label and value column, with the
\* rows that have the label (in any order; nothing here depends on it).
Labelled(frame, label) == {n \in DOMAIN frame.rows : frame.rows[n].label = label}
Series(frame, label, column) ==
    LET numbers == SetToSeq(Labelled(frame, label))
    IN  Frame([n \in DOMAIN numbers |-> frame.rows[numbers[n]]], frame.time, FALSE, {column})
LongToMulti(frame) ==
    {Series(frame, frame.rows[n].label, c) : n \in DOMAIN frame.rows, c \in frame.values}

\* data.LongToWide: a row for every time; every value column becomes one for
\* every label.
Times(frame) == {frame.rows[n].time : n \in DOMAIN frame.rows}
LongToWide(frame) ==
    {Frame(SetToSeq({[time |-> t, label |-> "all"] : t \in Times(frame)}), frame.time, FALSE,
           frame.values \X {frame.rows[n].label : n \in DOMAIN frame.rows})}

\* observeResponseSize: the rows of all frames together.
TotalRows(frames) == MapThenSumSet(LAMBDA f : Len(f.rows), frames)

=============================================================================
