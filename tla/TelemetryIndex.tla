--------------------------- MODULE TelemetryIndex ---------------------------
(***************************************************************************)
(* VideoConvertor's telemetry: the rows of the CSV file beside the video   *)
(* are put into a table by second and tenth of a second, and while the     *)
(* video plays the maintenance thread asks the pipeline for its position   *)
(* and publishes the row of that tenth, if there is one.                   *)
(*                                                                         *)
(* A row is its number; a line of the file is a time in milliseconds and a *)
(* kind: "full"; with the columns of the board's position only ("board");  *)
(* "short" of these too (or they are not numbers); or "blank".  The        *)
(* coordinates that are published are left out.                            *)
(***************************************************************************)
EXTENDS Integers, Sequences

CONSTANTS Lines,       \* lines a file may have
          MaxRows,     \* bound on the lines of a file
          Positions    \* positions of the video at which it is polled

Kinds == {"full", "board", "short", "blank"}
ASSUME TelemetryAssumption ==
    /\ Lines \subseteq [time : Nat, kind : Kinds]
    /\ MaxRows \in Nat
    /\ Positions \subseteq Nat

NoRow == 0
VARIABLES
    parsedCSV,   \* the lines of the file after its header
    i,           \* of them, parseTelemetryFile is done with so many
    m_telemetryBySecondAndDecimalFraction,  \* for each second: rows by tenth
    playback,       \* "parsing", "playing", or "undefined"
    position,    \* of the video, when it was last asked for
    query,       \* what came of that: "answered" or "failed"
    sent         \* the row last published, or NoRow

pollVars == <<position, query, sent>>
telemetryVars == <<parsedCSV, i, m_telemetryBySecondAndDecimalFraction, playback, pollVars>>
table == m_telemetryBySecondAndDecimalFraction

Recordings == UNION {[1..n -> Lines] : n \in 0..MaxRows}

TelemetryInit ==
    /\ parsedCSV \in Recordings
    /\ i = 0 /\ m_telemetryBySecondAndDecimalFraction = <<>>
    /\ playback = "parsing"
    /\ position = 0 /\ query = "answered" /\ sent = NoRow

----------------------------------------------------------------------------
(* parseTelemetryFile.  (fractPartF + 0.01f) * 10, cut off: 0.01f is a     *)
(* little less than a hundredth, so a fraction of 90 ms is not rounded up. *)
IntPart(time) == time \div 1000
FractPart_nearest(time) == ((time % 1000) + 50) \div 100
FractPart(time) == IF time % 1000 = 0 THEN 0 ELSE ((time % 1000) + 9) \div 100

Tenths == 0..9
EmptySecond == <<>>
Rows(second) == table[second + 1]

Parsing == playback = "parsing" /\ i < Len(parsedCSV)
Time == parsedCSV[i + 1].time
Fits == parsedCSV[i + 1].kind # "blank" /\ FractPart(Time) \in Tenths

NewSecond_of47 ==
    /\ Parsing /\ IntPart(Time) >= Len(table)
    /\ Fits
    /\ m_telemetryBySecondAndDecimalFraction' =
         Append(table, [tenth \in 0..46 |-> IF tenth = FractPart(Time) THEN i + 1 ELSE NoRow])
    /\ i' = i + 1
    /\ UNCHANGED <<parsedCSV, playback, pollVars>>
(* The seconds that are skipped stay without room for rows. *)
NewSecond ==
    /\ Parsing /\ IntPart(Time) >= Len(table)
    /\ Fits
    /\ m_telemetryBySecondAndDecimalFraction' =
         [second \in 1..(IntPart(Time) + 1) |->
            CASE second <= Len(table)      -> table[second]
              [] second = IntPart(Time) + 1 ->
                   [tenth \in Tenths |-> IF tenth = FractPart(Time) THEN i + 1 ELSE NoRow]
              [] OTHER                     -> EmptySecond]
    /\ i' = i + 1
    /\ UNCHANGED <<parsedCSV, playback, pollVars>>

SecondExists_keeps ==
    /\ Parsing /\ IntPart(Time) < Len(table)
    /\ Rows(IntPart(Time)) # EmptySecond
    /\ Fits
    /\ i' = i + 1
    /\ UNCHANGED <<parsedCSV, m_telemetryBySecondAndDecimalFraction, playback, pollVars>>
SecondExists ==
    /\ Parsing /\ IntPart(Time) < Len(table)
    /\ Rows(IntPart(Time)) # EmptySecond
    /\ Fits
    /\ m_telemetryBySecondAndDecimalFraction' =
         [table EXCEPT ![IntPart(Time) + 1] = [@ EXCEPT ![FractPart(Time)] = i + 1]]
    /\ i' = i + 1
    /\ UNCHANGED <<parsedCSV, playback, pollVars>>

(* A row that is written beyond the ten of a second, or into a second that *)
(* was skipped, is written outside of its vector, and a blank line becomes *)
(* a row without columns, whose second one is read: nothing is said of     *)
(* what the process does from there.                                       *)
OutOfTable ==
    /\ Parsing
    /\ \/ ~Fits
       \/ IntPart(Time) < Len(table) /\ Rows(IntPart(Time)) = EmptySecond
    /\ playback' = "undefined"
    /\ UNCHANGED <<parsedCSV, i, m_telemetryBySecondAndDecimalFraction, pollVars>>

(* connectToSource: from here on the thread finds a pipeline. *)
connectToSource ==
    /\ playback = "parsing" /\ i = Len(parsedCSV)
    /\ playback' = "playing"
    /\ UNCHANGED <<parsedCSV, i, m_telemetryBySecondAndDecimalFraction, pollVars>>

parseTelemetryFile == NewSecond \/ SecondExists \/ OutOfTable

----------------------------------------------------------------------------
(* threadMaintenance and sendCurrentTelemetry, which publishes the board's *)
(* position before it reads the columns of the camera's.                   *)
PolledSecond(posMillisec) == (posMillisec \div 100) \div 10
PolledTenth_ofMinute(posMillisec) == (posMillisec \div 10) % 10
PolledTenth(posMillisec) == (posMillisec \div 100) % 10

RowAt(posMillisec) ==
    IF PolledSecond(posMillisec) < Len(table) /\ Rows(PolledSecond(posMillisec)) # EmptySecond
      THEN Rows(PolledSecond(posMillisec))[PolledTenth(posMillisec)]
      ELSE NoRow

Publish(row) ==
    /\ sent' = IF parsedCSV[row].kind \in {"full", "board"} THEN row ELSE sent
    /\ playback' = IF parsedCSV[row].kind = "full" THEN playback
                   ELSE "undefined"   \* no such column, or std::stod throws

Poll(posMillisec) ==
    /\ playback = "playing"
    /\ \/ RowAt(posMillisec) = NoRow /\ UNCHANGED <<sent, playback>>
       \/ RowAt(posMillisec) # NoRow /\ Publish(RowAt(posMillisec))
    /\ UNCHANGED <<parsedCSV, i, m_telemetryBySecondAndDecimalFraction>>

(* A query that fails leaves the zero it was given to fill in.             *)
sendCurrentTelemetry ==
    /\ position' \in Positions
    /\ \/ query' = "answered" /\ Poll(position')
       \/ query' = "failed" /\ Poll(0)

TelemetryNext == parseTelemetryFile \/ connectToSource \/ sendCurrentTelemetry

TelemetrySpec == TelemetryInit /\ [][TelemetryNext]_telemetryVars

----------------------------------------------------------------------------
TelemetryTypeOK ==
    /\ parsedCSV \in Recordings /\ i \in 0..Len(parsedCSV)
    /\ \A second \in DOMAIN table :
         table[second] = EmptySecond \/ table[second] \in [Tenths -> 0..Len(parsedCSV)]
    /\ playback \in {"parsing", "playing", "undefined"}
    /\ position \in Positions \cup {0} /\ query \in {"answered", "failed"}
    /\ sent \in 0..Len(parsedCSV)

(* The telemetry that is published belongs to the picture: when a poll     *)
(* whose query was answered publishes a row, it was recorded at most 9 ms  *)
(* before the tenth of a second being shown, or within it.  Where the      *)
(* query fails this does not hold: the thread does not notice, and         *)
(* publishes the row of the beginning.                                     *)
Published == sent' # sent
SentIsCurrent ==
    [][Published /\ query' = "answered" =>
         LET tenth == 100 * (position' \div 100) IN
         parsedCSV[sent'].time \in (tenth - 9)..(tenth + 90)]_telemetryVars

(* A recording without holes: every line is full, it starts in second 0,   *)
(* no second is skipped, and no row lies in the last 9 ms of a second.     *)
RowSecond(n) == IntPart(parsedCSV[n].time)
RowTenth(n) == FractPart(parsedCSV[n].time)
Seamless ==
    \A n \in 1..Len(parsedCSV) :
        /\ parsedCSV[n].kind = "full"
        /\ parsedCSV[n].time % 1000 <= 990
        /\ RowSecond(n) > 0 => \E m \in 1..(n - 1) : RowSecond(m) = RowSecond(n) - 1

(* Such a recording is parsed and played without leaving the table, in     *)
(* whatever order its rows come.                                           *)
SeamlessIsParsed == Seamless => playback # "undefined"

(* While it plays, every row is in the table at its tenth, or was replaced *)
(* by a later row of the same tenth: growing the table loses none.         *)
NothingIsLost ==
    playback = "playing" =>
        \A n \in 1..Len(parsedCSV) :
            LET row == Rows(RowSecond(n))[RowTenth(n)] IN
            row >= n /\ RowSecond(row) = RowSecond(n) /\ RowTenth(row) = RowTenth(n)

(* video_convertor.cpp:280 adds 0.01 "for rounding 0.099999...": rounded,  *)
(* a fraction of a second is still one of the ten that the next lines make *)
(* room for.                                                               *)
RoundingStaysInSecond ==
    playback = "undefined" /\ i < Len(parsedCSV) => FractPart(Time) \in Tenths
=============================================================================
